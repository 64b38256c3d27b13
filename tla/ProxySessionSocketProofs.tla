--------------------- MODULE ProxySessionSocketProofs ---------------------
(***************************************************************************)
(* Theorems about ProxySession for instances in which sockets do break.    *)
(*                                                                         *)
(* When a socket breaks, cleanup() runs beside the pump of its session,    *)
(* and a client may come back to its pool with a transaction and with      *)
(* requests that nobody waits for.  The invariant says what the sessions   *)
(* that are still connected can rely on all the same: whoever has a client *)
(* checked out is the only one to queue requests on it, so what others     *)
(* have left in its queue comes before the session's BEGIN.                *)
(***************************************************************************)
EXTENDS ProxySessionTxProofs

\* Request i of client c is one that the pump of session s awaits.
Sent(cn, s, c, i) ==
    /\ i \in 1..Len(cn[c].queue)
    /\ cn[c].queue[i].by = "pump" /\ cn[c].queue[i].s = s

\* Nothing is queued that the pump of session s awaits.
NoneSent(cn, s) == \A c \in Client, i \in Nat : ~Sent(cn, s, c, i)

SentOnce(cn, s) ==
    \A c, d \in Client, i, j \in Nat :
        Sent(cn, s, c, i) /\ Sent(cn, s, d, j) => c = d /\ i = j

\* Request r is what pump p, in the unit of work h, has sent.
Awaited(r, p, h) ==
    /\ p.pc \in Waiting
    /\ p.pc = "pinBegin" => r.op = "BEGIN"
    /\ p.pc \in {"txQuery", "autoQuery"} => r.op = "DATA"
    /\ p.pc = "endQuery" => r.op = Tag(p)
    /\ r.op = "DATA" => r.row.s = r.s /\ r.row.unit = h.unit /\ r.row.tx = h.open

\* What session s has queued, with object ss, pump p and history h; on says that it is
\* still connected.
SentRight(cn, s, ss, p, h, on) ==
    \A c \in Client, i \in Nat : Sent(cn, s, c, i) =>
        /\ Awaited(cn[c].queue[i], p, h)
        /\ p.pc = "autoQuery" => cn[c].holder = s /\ ss.txClient # c
        /\ on => /\ i = Len(cn[c].queue)
                 /\ p.pc # "autoQuery" => ss.txClient = c
                 /\ cn[c].queue[i].op = "DATA"
                      => ShardOf[cn[c].queue[i].row.tid] = HostOf[c]

NoCleanups(cn, s) ==
    \A c \in Client, i \in Nat :
        i \in 1..Len(cn[c].queue) /\ cn[c].queue[i].by = "cleanup"
          => cn[c].queue[i].s # s

\* From its BEGIN on, nobody else has a request on the client of a transaction.
OnlyOwn(cn, s, ss, p) ==
    ss.txClient # Null /\ p.pc # "pinBegin" =>
        \A i \in Nat : i \in 1..Len(cn[ss.txClient].queue) => Sent(cn, s, ss.txClient, i)

Keeps(cn, s, ss) == ss.txClient # Null => cn[ss.txClient].holder = s

\* Session s and the clients cn agree on whose client and whose request is whose.
InPlace(cn, s, ss, p, h, on) ==
    /\ Keeps(cn, s, ss) /\ SentOnce(cn, s) /\ SentRight(cn, s, ss, p, h, on)
    /\ on => NoCleanups(cn, s) /\ OnlyOwn(cn, s, ss, p)

---------------------------------------------------------------------------
(***************************************************************************)
(* What is done to a client: it executes a request, changes hands, or gets *)
(* a request.                                                              *)
(***************************************************************************)
\* Client c has executed the request at the head of its queue.
Popped(cn, dn, c) ==
    /\ cn[c].queue # << >> /\ dn[c].queue = Tail(cn[c].queue)
    /\ dn[c].holder = cn[c].holder
    /\ \A d \in Client \ {c} : dn[d] = cn[d]

\* Client c is handed over.
Handed(cn, dn, c) ==
    /\ dn[c].queue = cn[c].queue
    /\ \A d \in Client \ {c} : dn[d] = cn[d]

\* Request r goes to the end of the queue of client c.
Queued(cn, dn, c, r) ==
    /\ dn[c].queue = Append(cn[c].queue, r) /\ dn[c].holder = cn[c].holder
    /\ \A d \in Client \ {c} : dn[d] = cn[d]

\* The place that a request had before client c has executed the first of its queue.
Before(c, d, i) == IF d = c THEN i + 1 ELSE i

LEMMA QueueType ==
    ASSUME NEW cn \in Conns, NEW c \in Client
    PROVE  /\ cn[c].queue \in Seq(Request) /\ Len(cn[c].queue) \in Nat
           /\ \A i \in 1..Len(cn[c].queue) : cn[c].queue[i] \in Request
<1>1. cn[c].queue \in Seq(Request)
    BY DEF Conns, Connection
<1> QED
    BY <1>1, LenProperties, ElementOfSeq

LEMMA PoppedSent ==
    ASSUME NEW cn \in Conns, NEW dn, NEW c \in Client, Popped(cn, dn, c),
           NEW d \in Client, NEW i \in Nat, i \in 1..Len(dn[d].queue)
    PROVE  LET j == Before(c, d, i)
           IN /\ j \in Nat /\ j \in 1..Len(cn[d].queue)
              /\ dn[d].queue[i] = cn[d].queue[j]
              /\ j = Len(cn[d].queue) => i = Len(dn[d].queue)
              /\ dn[d].holder = cn[d].holder
<1>1. CASE d # c
    BY <1>1 DEF Popped, Before
<1>2. CASE d = c
    <2>1. cn[c].queue \in Seq(Request) /\ cn[c].queue # << >>
        BY QueueType DEF Popped
    <2>2. /\ Len(Tail(cn[c].queue)) = Len(cn[c].queue) - 1
          /\ \A k \in 1..Len(Tail(cn[c].queue)) : Tail(cn[c].queue)[k] = cn[c].queue[k + 1]
          /\ Len(cn[c].queue) \in Nat
        BY <2>1
    <2>3. i \in 1..Len(Tail(cn[c].queue)) /\ dn[d].queue = Tail(cn[c].queue)
        BY <1>2 DEF Popped
    <2>4. Before(c, d, i) = i + 1 /\ dn[d].holder = cn[d].holder
        BY <1>2 DEF Popped, Before
    <2>5. i + 1 \in 1..Len(cn[c].queue) /\ dn[d].queue[i] = cn[c].queue[i + 1]
        BY <2>2, <2>3
    <2>6. i + 1 = Len(cn[c].queue) => i = Len(dn[d].queue)
        BY <2>2, <2>3
    <2> QED
        BY <1>2, <2>4, <2>5, <2>6
<1> QED
    BY <1>1, <1>2

\* Executing a request leaves every session in its place.
LEMMA PopInPlace ==
    ASSUME NEW cn \in Conns, NEW dn, NEW c \in Client, Popped(cn, dn, c),
           NEW s, NEW ss, ss.txClient \in Client \cup {Null}, NEW p, NEW h, NEW on,
           InPlace(cn, s, ss, p, h, on)
    PROVE  InPlace(dn, s, ss, p, h, on)
<1>1. ASSUME NEW d \in Client, NEW i \in Nat, i \in 1..Len(dn[d].queue)
      PROVE  LET j == Before(c, d, i)
             IN /\ j \in Nat /\ j \in 1..Len(cn[d].queue)
                /\ dn[d].queue[i] = cn[d].queue[j]
                /\ j = Len(cn[d].queue) => i = Len(dn[d].queue)
                /\ dn[d].holder = cn[d].holder
                /\ Sent(dn, s, d, i) <=> Sent(cn, s, d, j)
    <2> DEFINE j == Before(c, d, i)
    <2>1. /\ j \in Nat /\ j \in 1..Len(cn[d].queue)
          /\ dn[d].queue[i] = cn[d].queue[j]
          /\ j = Len(cn[d].queue) => i = Len(dn[d].queue)
          /\ dn[d].holder = cn[d].holder
        BY <1>1, PoppedSent
    <2> HIDE DEF j
    <2>2. Sent(dn, s, d, i) <=> Sent(cn, s, d, j)
        BY <1>1, <2>1 DEF Sent
    <2> QED
        BY <2>1, <2>2 DEF j
<1>2. \A d \in Client, i \in Nat : Sent(dn, s, d, i) => i \in 1..Len(dn[d].queue)
    BY DEF Sent
<1>3. \A d \in Client : dn[d].holder = cn[d].holder
    BY DEF Popped
<1>4. Keeps(dn, s, ss)
    BY <1>3 DEF InPlace, Keeps
<1>5. SentOnce(dn, s)
    <2> SUFFICES ASSUME NEW d \in Client, NEW b \in Client, NEW i \in Nat, NEW j \in Nat,
                        Sent(dn, s, d, i), Sent(dn, s, b, j)
                 PROVE  d = b /\ i = j
        BY DEF SentOnce
    <2>1. /\ Before(c, d, i) \in Nat /\ Sent(cn, s, d, Before(c, d, i))
          /\ Before(c, b, j) \in Nat /\ Sent(cn, s, b, Before(c, b, j))
        BY <1>1, <1>2
    <2>2. d = b /\ Before(c, d, i) = Before(c, b, j)
        BY <2>1 DEF InPlace, SentOnce
    <2> QED
        BY <2>2 DEF Before
<1>6. SentRight(dn, s, ss, p, h, on)
    <2> SUFFICES ASSUME NEW d \in Client, NEW i \in Nat, Sent(dn, s, d, i)
                 PROVE  /\ Awaited(dn[d].queue[i], p, h)
                        /\ p.pc = "autoQuery" => dn[d].holder = s /\ ss.txClient # d
                        /\ on => /\ i = Len(dn[d].queue)
                                 /\ p.pc # "autoQuery" => ss.txClient = d
                                 /\ dn[d].queue[i].op = "DATA"
                                      => ShardOf[dn[d].queue[i].row.tid] = HostOf[d]
        BY DEF SentRight
    <2>1. LET j == Before(c, d, i)
          IN /\ j \in Nat /\ Sent(cn, s, d, j) /\ dn[d].queue[i] = cn[d].queue[j]
             /\ j = Len(cn[d].queue) => i = Len(dn[d].queue)
        BY <1>1, <1>2
    <2> QED
        BY <1>3, <2>1 DEF InPlace, SentRight
<1>7. ASSUME on PROVE NoCleanups(dn, s)
    <2> SUFFICES ASSUME NEW d \in Client, NEW i \in Nat, i \in 1..Len(dn[d].queue),
                        dn[d].queue[i].by = "cleanup"
                 PROVE  dn[d].queue[i].s # s
        BY DEF NoCleanups
    <2>1. LET j == Before(c, d, i)
          IN /\ j \in Nat /\ j \in 1..Len(cn[d].queue)
             /\ dn[d].queue[i] = cn[d].queue[j]
        BY <1>1
    <2>2. NoCleanups(cn, s)
        BY <1>7 DEF InPlace
    <2> QED
        BY <2>1, <2>2 DEF NoCleanups
<1>8. ASSUME on PROVE OnlyOwn(dn, s, ss, p)
    BY <1>1, <1>8 DEF InPlace, OnlyOwn
<1> QED
    BY <1>4, <1>5, <1>6, <1>7, <1>8 DEF InPlace

\* The request that was executed was the only one its pump had sent.
LEMMA PoppedWasAll ==
    ASSUME NEW cn \in Conns, NEW dn, NEW c \in Client, Popped(cn, dn, c),
           NEW s, SentOnce(cn, s), Sent(cn, s, c, 1)
    PROVE  NoneSent(dn, s)
<1> SUFFICES ASSUME NEW d \in Client, NEW i \in Nat, Sent(dn, s, d, i)
             PROVE  FALSE
    BY DEF NoneSent
<1>1. LET j == Before(c, d, i)
      IN j \in Nat /\ Sent(cn, s, d, j)
    BY PoppedSent DEF Sent
<1>2. d = c /\ Before(c, d, i) = 1
    BY <1>1 DEF SentOnce
<1>3. i \in 1..Len(dn[d].queue)
    BY DEF Sent
<1> QED
    BY <1>2, <1>3 DEF Before

\* A client that changes hands was not another session's.
LEMMA HandInPlace ==
    ASSUME NEW cn, NEW dn, NEW c \in Client, Handed(cn, dn, c),
           NEW s, NEW ss, ss.txClient \in Client \cup {Null}, NEW p, NEW h, NEW on,
           dn[c].holder = s \/ cn[c].holder # s,
           InPlace(cn, s, ss, p, h, on)
    PROVE  InPlace(dn, s, ss, p, h, on)
<1>1. \A d \in Client : dn[d].queue = cn[d].queue
    BY DEF Handed
<1>2. \A d \in Client, i \in Nat : Sent(dn, s, d, i) <=> Sent(cn, s, d, i)
    BY <1>1 DEF Sent
<1>3. \A d \in Client : cn[d].holder = s => dn[d].holder = s
    BY DEF Handed
<1>4. Keeps(dn, s, ss)
    BY <1>3 DEF InPlace, Keeps
<1>5. SentOnce(dn, s)
    BY <1>2 DEF InPlace, SentOnce
<1>6. SentRight(dn, s, ss, p, h, on)
    BY <1>1, <1>2, <1>3 DEF InPlace, SentRight
<1>7. on => NoCleanups(dn, s)
    BY <1>1 DEF InPlace, NoCleanups
<1>8. on => OnlyOwn(dn, s, ss, p)
    BY <1>1, <1>2 DEF InPlace, OnlyOwn
<1> QED
    BY <1>4, <1>5, <1>6, <1>7, <1>8 DEF InPlace

\* The places in a queue that got a request.
LEMMA QueuedSent ==
    ASSUME NEW cn \in Conns, NEW dn, NEW c \in Client, NEW r, Queued(cn, dn, c, r)
    PROVE  /\ Len(dn[c].queue) = Len(cn[c].queue) + 1 /\ Len(cn[c].queue) \in Nat
           /\ dn[c].queue[Len(cn[c].queue) + 1] = r
           /\ \A i \in 1..Len(cn[c].queue) : dn[c].queue[i] = cn[c].queue[i]
           /\ \A i \in Nat : i \in 1..Len(dn[c].queue)
                => i \in 1..Len(cn[c].queue) \/ i = Len(cn[c].queue) + 1
<1>1. cn[c].queue \in Seq(Request) /\ Len(cn[c].queue) \in Nat
    BY QueueType
<1>2. /\ Len(Append(cn[c].queue, r)) = Len(cn[c].queue) + 1
      /\ Append(cn[c].queue, r)[Len(cn[c].queue) + 1] = r
      /\ \A i \in 1..Len(cn[c].queue) : Append(cn[c].queue, r)[i] = cn[c].queue[i]
    BY <1>1
<1> QED
    BY <1>1, <1>2 DEF Queued

\* A request of another session, on a client that is not one's own.
LEMMA QueueInPlace ==
    ASSUME NEW cn \in Conns, NEW dn, NEW c \in Client, NEW r, Queued(cn, dn, c, r),
           NEW s, NEW ss, ss.txClient \in Client \cup {Null}, NEW p, NEW h, NEW on,
           r.s # s, cn[c].holder # s, InPlace(cn, s, ss, p, h, on)
    PROVE  InPlace(dn, s, ss, p, h, on)
<1>1. /\ Len(dn[c].queue) = Len(cn[c].queue) + 1 /\ Len(cn[c].queue) \in Nat
      /\ dn[c].queue[Len(cn[c].queue) + 1] = r
      /\ \A i \in 1..Len(cn[c].queue) : dn[c].queue[i] = cn[c].queue[i]
      /\ \A i \in Nat : i \in 1..Len(dn[c].queue)
           => i \in 1..Len(cn[c].queue) \/ i = Len(cn[c].queue) + 1
    BY QueuedSent
<1>2. \A d \in Client \ {c} : dn[d] = cn[d]
    BY DEF Queued
<1>3. \A d \in Client : dn[d].holder = cn[d].holder
    BY DEF Queued
<1>4. ASSUME NEW d \in Client, NEW i \in Nat, Sent(dn, s, d, i)
      PROVE  Sent(cn, s, d, i) /\ dn[d].queue[i] = cn[d].queue[i]
    <2>1. CASE d = c
        <3>1. i \in 1..Len(cn[c].queue)
            BY <1>1, <1>4, <2>1 DEF Sent
        <3> QED
            BY <1>1, <1>4, <2>1, <3>1 DEF Sent
    <2> QED
        BY <1>2, <1>4, <2>1 DEF Sent
<1>5. Keeps(dn, s, ss)
    BY <1>3 DEF InPlace, Keeps
<1>6. SentOnce(dn, s)
    BY <1>4 DEF InPlace, SentOnce
<1>7. SentRight(dn, s, ss, p, h, on)
    <2> SUFFICES ASSUME NEW d \in Client, NEW i \in Nat, Sent(dn, s, d, i)
                 PROVE  /\ Awaited(dn[d].queue[i], p, h)
                        /\ p.pc = "autoQuery" => dn[d].holder = s /\ ss.txClient # d
                        /\ on => /\ i = Len(dn[d].queue)
                                 /\ p.pc # "autoQuery" => ss.txClient = d
                                 /\ dn[d].queue[i].op = "DATA"
                                      => ShardOf[dn[d].queue[i].row.tid] = HostOf[d]
        BY DEF SentRight
    <2>1. Sent(cn, s, d, i) /\ dn[d].queue[i] = cn[d].queue[i]
        BY <1>4
    <2>2. /\ Awaited(cn[d].queue[i], p, h)
          /\ p.pc = "autoQuery" => cn[d].holder = s /\ ss.txClient # d
          /\ on => /\ i = Len(cn[d].queue)
                   /\ p.pc # "autoQuery" => ss.txClient = d
                   /\ cn[d].queue[i].op = "DATA"
                        => ShardOf[cn[d].queue[i].row.tid] = HostOf[d]
        BY <2>1 DEF InPlace, SentRight
    <2>3. on => cn[d].holder = s
        BY <2>2, ConstantsAssumption DEF InPlace, Keeps
    <2>4. on => d # c
        BY <2>3
    <2> QED
        BY <1>2, <1>3, <2>1, <2>2, <2>4
<1>8. ASSUME on PROVE NoCleanups(dn, s)
    <2> SUFFICES ASSUME NEW d \in Client, NEW i \in Nat, i \in 1..Len(dn[d].queue),
                        dn[d].queue[i].by = "cleanup"
                 PROVE  dn[d].queue[i].s # s
        BY DEF NoCleanups
    <2>1. CASE d # c
        BY <1>2, <1>8, <2>1 DEF InPlace, NoCleanups
    <2>2. CASE d = c
        BY <1>1, <1>8, <2>2 DEF InPlace, NoCleanups
    <2> QED
        BY <2>1, <2>2
<1>9. ASSUME on PROVE OnlyOwn(dn, s, ss, p)
    <2>1. ss.txClient # Null => ss.txClient \in Client \ {c}
        BY DEF InPlace, Keeps
    <2> QED
        BY <1>2, <1>9, <2>1 DEF InPlace, OnlyOwn, Sent
<1> QED
    BY <1>5, <1>6, <1>7, <1>8, <1>9 DEF InPlace

\* A session that awaits no request is in its place if its client is.
LEMMA CalmInPlace ==
    ASSUME NEW cn, NEW s, NEW ss, NEW p, NEW h, NEW on, NoneSent(cn, s),
           ss.txClient \in Client \cup {Null}, Keeps(cn, s, ss),
           on => /\ NoCleanups(cn, s)
                 /\ ss.txClient # Null /\ p.pc # "pinBegin"
                      => cn[ss.txClient].queue = << >>
    PROVE  InPlace(cn, s, ss, p, h, on)
<1>1. SentOnce(cn, s) /\ SentRight(cn, s, ss, p, h, on)
    BY DEF NoneSent, SentOnce, SentRight
<1>2. ASSUME on PROVE OnlyOwn(cn, s, ss, p)
    <2>1. ASSUME NEW k \in Client, cn[k].queue = << >>
          PROVE  \A i \in Nat : i \notin 1..Len(cn[k].queue)
        BY <2>1
    <2> QED
        BY <1>2, <2>1 DEF OnlyOwn
<1> QED
    BY <1>1, <1>2 DEF InPlace

\* A session sends a request to the client it has checked out, and awaits its answer.
LEMMA SendInPlace ==
    ASSUME NEW cn \in Conns, NEW dn, NEW c \in Client, NEW r, Queued(cn, dn, c, r),
           NEW s, NEW ss, ss.txClient \in Client \cup {Null}, NEW p, NEW h, NEW on,
           NoneSent(cn, s), Keeps(cn, s, ss), cn[c].holder = s,
           r.by = "pump", r.s = s, Awaited(r, p, h),
           p.pc = "autoQuery" => ss.txClient # c,
           on => /\ NoCleanups(cn, s)
                 /\ p.pc # "autoQuery" => ss.txClient = c
                 /\ r.op = "DATA" => ShardOf[r.row.tid] = HostOf[c]
                 /\ ss.txClient # Null /\ p.pc # "pinBegin"
                      => ss.txClient = c /\ cn[c].queue = << >>
    PROVE  InPlace(dn, s, ss, p, h, on)
<1>1. /\ Len(dn[c].queue) = Len(cn[c].queue) + 1 /\ Len(cn[c].queue) \in Nat
      /\ dn[c].queue[Len(cn[c].queue) + 1] = r
      /\ \A i \in 1..Len(cn[c].queue) : dn[c].queue[i] = cn[c].queue[i]
      /\ \A i \in Nat : i \in 1..Len(dn[c].queue)
           => i \in 1..Len(cn[c].queue) \/ i = Len(cn[c].queue) + 1
    BY QueuedSent
<1>2. \A d \in Client \ {c} : dn[d] = cn[d]
    BY DEF Queued
<1>3. \A d \in Client : dn[d].holder = cn[d].holder
    BY DEF Queued
<1>4. ASSUME NEW d \in Client, NEW i \in Nat, Sent(dn, s, d, i)
      PROVE  d = c /\ i = Len(dn[c].queue) /\ dn[d].queue[i] = r
    <2>1. CASE d # c
        <3>1. Sent(cn, s, d, i)
            BY <1>2, <1>4, <2>1 DEF Sent
        <3> QED
            BY <3>1 DEF NoneSent
    <2>2. CASE d = c
        <3>1. i \notin 1..Len(cn[c].queue)
            BY <1>1, <1>4, <2>2 DEF Sent, NoneSent
        <3> QED
            BY <1>1, <1>4, <2>2, <3>1 DEF Sent
    <2> QED
        BY <2>1, <2>2
<1>5. Keeps(dn, s, ss)
    BY <1>3 DEF Keeps
<1>6. SentOnce(dn, s)
    BY <1>4 DEF SentOnce
<1>7. SentRight(dn, s, ss, p, h, on)
    BY <1>3, <1>4 DEF SentRight
<1>8. ASSUME on PROVE NoCleanups(dn, s)
    <2> SUFFICES ASSUME NEW d \in Client, NEW i \in Nat, i \in 1..Len(dn[d].queue),
                        dn[d].queue[i].by = "cleanup"
                 PROVE  dn[d].queue[i].s # s
        BY DEF NoCleanups
    <2>1. CASE d # c
        BY <1>2, <1>8, <2>1 DEF NoCleanups
    <2>2. CASE d = c
        BY <1>1, <1>8, <2>2 DEF NoCleanups
    <2> QED
        BY <2>1, <2>2
<1>9. ASSUME on PROVE OnlyOwn(dn, s, ss, p)
    <2> SUFFICES ASSUME ss.txClient # Null, p.pc # "pinBegin",
                        NEW i \in Nat, i \in 1..Len(dn[ss.txClient].queue)
                 PROVE  Sent(dn, s, ss.txClient, i)
        BY DEF OnlyOwn
    <2>1. ss.txClient = c /\ cn[c].queue = << >>
        BY <1>9
    <2>2. i = Len(cn[c].queue) + 1
        BY <1>1, <2>1
    <2> QED
        BY <1>1, <2>1, <2>2 DEF Sent
<1> QED
    BY <1>5, <1>6, <1>7, <1>8, <1>9 DEF InPlace

\* Only these parts of a session, and no more of its connection, matter to InPlace.
LEMMA InPlaceOf ==
    ASSUME NEW cn, NEW s, NEW ss, NEW p, NEW h, NEW on, InPlace(cn, s, ss, p, h, on),
           NEW st, NEW g, NEW off, st.txClient = ss.txClient,
           g.unit = h.unit, g.open = h.open, off => on
    PROVE  InPlace(cn, s, st, p, g, off)
<1>1. Keeps(cn, s, st) /\ (off => OnlyOwn(cn, s, st, p))
    BY DEF InPlace, Keeps, OnlyOwn
<1>2. \A r : Awaited(r, p, h) => Awaited(r, p, g)
    BY DEF Awaited
<1>3. SentRight(cn, s, st, p, g, off)
    BY <1>2 DEF InPlace, SentRight
<1> QED
    BY <1>1, <1>3 DEF InPlace

\* A pump that awaits no request has sent none.
LEMMA CalmNone ==
    ASSUME NEW cn, NEW s, NEW ss, NEW p, NEW h, NEW on, InPlace(cn, s, ss, p, h, on),
           p.pc \notin Waiting
    PROVE  NoneSent(cn, s)
BY DEF InPlace, SentRight, NoneSent, Awaited

\* The client of a transaction is idle when its session has sent nothing.
LEMMA OwnQueueEmpty ==
    ASSUME NEW cn \in Conns, NEW s, NEW ss, NEW p, OnlyOwn(cn, s, ss, p),
           NoneSent(cn, s), ss.txClient \in Client, ss.txClient # Null,
           p.pc # "pinBegin"
    PROVE  cn[ss.txClient].queue = << >>
<1> DEFINE k == cn[ss.txClient].queue
<1>1. k \in Seq(Request) /\ Len(k) \in Nat
    BY QueueType
<1>2. \A i \in Nat : i \notin 1..Len(k)
    BY DEF OnlyOwn, NoneSent
<1>3. 1 \notin 1..Len(k)
    BY <1>2
<1>4. Len(k) = 0
    BY <1>1, <1>3
<1> QED
    BY <1>1, <1>4

---------------------------------------------------------------------------
(***************************************************************************)
(* The invariant.                                                          *)
(***************************************************************************)
\* The rows of session s in the clients' transactions: on their shard, and those of a
\* transaction in the session's own.
RowsRight(cn, s, ss, p, h) ==
    \A c \in Client : \A r \in cn[c].work : r.s = s =>
        /\ ShardOf[r.tid] = HostOf[c]
        /\ r.tx => /\ ss.txClient = c /\ p.pc # "pinBegin"
                   /\ r.unit = h.unit /\ h.open

\* From its BEGIN on, the transaction of a session is open until it has failed.
TxRight(cn, ss, p, h) ==
    ss.txClient # Null /\ p.pc # "pinBegin" =>
        /\ cn[ss.txClient].tx = "open" \/ ~h.clean
        /\ cn[ss.txClient].tx = "idle" => "commit" \in Faults

\* The pin, the client and the tid of a suspended statement agree.
PinRight(ss, p) ==
    /\ ss.txClient # Null => ss.pinnedIndex = HostOf[ss.txClient]
    /\ p.pc = "pinConnect" => ss.txClient = Null /\ ss.pinnedIndex = ShardOf[p.tid]
    /\ p.pc = "pinBegin" => ss.pinnedIndex = ShardOf[p.tid]

\* Before its BEGIN is answered, no statement of a transaction is.
NotYet(s) ==
    pump[s].pc = "pinBegin" /\ hist[s].clean =>
        \A r \in acked : ~OwnRow(r, s, hist[s])

DurableOnShard(s) ==
    \A h \in Shard : \A r \in durable[h] : r.s = s => ShardOf[r.tid] = h

\* What holds of a session that is connected.
Live(s) ==
    /\ up
    /\ Unit(sess[s], pump[s], hist[s], up)
    /\ PinRight(sess[s], pump[s])
    /\ TxRight(conn, sess[s], pump[s], hist[s])
    /\ RowsRight(conn, s, sess[s], pump[s], hist[s])
    /\ NotYet(s) /\ DurableOnShard(s) /\ Ledger(s)

SessionInv(s) ==
    /\ InPlace(conn, s, sess[s], pump[s], hist[s], Connected(s))
    /\ EndedPast(s) /\ CommitKept(s)
    /\ Connected(s) => Live(s)

\* Only an open transaction has rows.
NoLostWork == \A c \in Client : conn[c].tx # "open" => conn[c].work = {}

ConnectedInv == NoLostWork /\ \A s \in Session : SessionInv(s)

\* What a step leaves of a session that it is not a step of.
Untouched(q) ==
    /\ sess'[q] = sess[q] /\ pump'[q] = pump[q] /\ hist'[q] = hist[q]
    /\ socket'[q] = socket[q] /\ up' = up
    /\ InPlace(conn', q, sess[q], pump[q], hist[q], Connected(q))
    /\ \A h \in Shard : durable[h] \subseteq durable'[h]
    /\ \A r \in acked' : r.s = q => r \in acked
    /\ ended \subseteq ended'
    /\ \A e \in ended' : e.s = q => e \in ended

\* ... and of its rows and its transaction, if it is connected.
Unharmed(q) ==
    /\ TxRight(conn', sess[q], pump[q], hist[q])
    /\ RowsRight(conn', q, sess[q], pump[q], hist[q])
    /\ sess[q].txClient # Null /\ pump[q].pc # "pinBegin" =>
         \A r \in conn[sess[q].txClient].work : r.s = q =>
            r \in conn'[sess[q].txClient].work
    /\ \A h \in Shard : \A r \in durable'[h] : r.s = q =>
         r \in durable[h] \/ (~r.tx /\ ShardOf[r.tid] = h)

LEMMA UntouchedInv ==
    ASSUME TypeInv, TypeInv', NEW q \in Session, SessionInv(q), Untouched(q),
           Connected(q) => Unharmed(q)
    PROVE  SessionInv(q)'
<1>1. Connected(q)' = Connected(q)
    BY DEF Connected, Untouched
<1>2. InPlace(conn, q, sess[q], pump[q], hist[q], Connected(q))'
    BY <1>1 DEF Untouched
<1>3. EndedPast(q)'
    BY DEF SessionInv, EndedPast, Untouched
<1>4. CommitKept(q)'
    <2> SUFFICES ASSUME NEW e \in ended', e.s = q, e.told,
                        NEW r \in acked', r.tx, r.s = q, r.unit = e.unit
                 PROVE  \E h \in Shard : r \in durable'[h]
        BY DEF CommitKept
    <2>1. \E h \in Shard : r \in durable[h]
        BY DEF SessionInv, CommitKept, Untouched
    <2> QED
        BY <2>1 DEF Untouched
<1>5. ASSUME Connected(q)' PROVE Live(q)'
    <2>1. Live(q) /\ Unharmed(q)
        BY <1>1, <1>5 DEF SessionInv
    <2>2. /\ up' /\ Unit(sess[q], pump[q], hist[q], up)' /\ PinRight(sess[q], pump[q])'
          /\ TxRight(conn, sess[q], pump[q], hist[q])'
          /\ RowsRight(conn, q, sess[q], pump[q], hist[q])'
        BY <2>1 DEF Live, Untouched, Unharmed
    <2>3. NotYet(q)'
        BY <2>1 DEF Live, NotYet, Untouched, OwnRow
    <2>4. DurableOnShard(q)'
        BY <2>1 DEF Live, Unharmed, DurableOnShard
    <2>5. ASSUME hist[q].clean, sess[q].txClient # Null
          PROVE  \A r \in acked : OwnRow(r, q, hist[q])
                    /\ r \in conn[sess[q].txClient].work
                    => r \in conn'[sess[q].txClient].work
        BY <2>1, <2>5 DEF Live, NotYet, Unharmed, OwnRow
    <2>6. Ledger(q)'
        BY <2>1, <2>5, LedgerStays DEF Live, Untouched, Unharmed
    <2> QED
        BY <2>2, <2>3, <2>4, <2>6 DEF Live
<1> QED
    BY <1>2, <1>3, <1>4, <1>5 DEF SessionInv

---------------------------------------------------------------------------
(***************************************************************************)
(* Steps of a session that reach no client.                                *)
(***************************************************************************)
\* Nobody's transaction changes, and nothing is new in the ledgers but of session s.
LEMMA OthersStay ==
    ASSUME TypeInv, TypeInv', ConnectedInv, NEW s \in Session, OnlySession(s),
           up' = up, \A q \in Session \ {s} : socket'[q] = socket[q],
           \A c \in Client : conn'[c].tx = conn[c].tx /\ conn'[c].work = conn[c].work,
           durable' = durable, acked' = acked, ended \subseteq ended',
           \A e \in ended' : e.s = s \/ e \in ended,
           NEW q \in Session, q # s,
           InPlace(conn', q, sess[q], pump[q], hist[q], Connected(q))
    PROVE  SessionInv(q)'
<1>1. SessionInv(q)
    BY DEF ConnectedInv
<1>2. Untouched(q)
    BY DEF Untouched, OnlySession
<1>3. ASSUME Connected(q) PROVE Unharmed(q)
    <2>1. sess[q].txClient \in Client \cup {Null}
        BY FieldTypes
    <2>2. /\ TxRight(conn, sess[q], pump[q], hist[q])
          /\ RowsRight(conn, q, sess[q], pump[q], hist[q])
        BY <1>1, <1>3 DEF SessionInv, Live
    <2>3. TxRight(conn', sess[q], pump[q], hist[q])
        BY <2>1, <2>2 DEF TxRight
    <2>4. RowsRight(conn', q, sess[q], pump[q], hist[q])
        BY <2>2 DEF RowsRight
    <2> QED
        BY <2>1, <2>3, <2>4 DEF Unharmed
<1> QED
    BY <1>1, <1>2, <1>3, UntouchedInv

\* The clients stay as they are.
LEMMA OthersIdle ==
    ASSUME TypeInv, TypeInv', ConnectedInv, NEW s \in Session, OnlySession(s),
           up' = up, \A q \in Session \ {s} : socket'[q] = socket[q], conn' = conn,
           durable' = durable, acked' = acked, ended \subseteq ended',
           \A e \in ended' : e.s = s \/ e \in ended
    PROVE  NoLostWork' /\ \A q \in Session \ {s} : SessionInv(q)'
<1>1. NoLostWork'
    BY DEF ConnectedInv, NoLostWork
<1>2. ASSUME NEW q \in Session, q # s PROVE SessionInv(q)'
    <2>1. InPlace(conn', q, sess[q], pump[q], hist[q], Connected(q))
        BY DEF ConnectedInv, SessionInv
    <2> QED
        BY <1>2, <2>1, OthersStay
<1> QED
    BY <1>1, <1>2

\* The invariant of every session but s, and that of s.
LEMMA AllSessions ==
    ASSUME NEW s \in Session, NoLostWork', \A q \in Session \ {s} : SessionInv(q)',
           SessionInv(s)'
    PROVE  ConnectedInv'
BY DEF ConnectedInv

\* A session that sends nothing stays in its place.
LEMMA CalmStays ==
    ASSUME TypeInv, TypeInv', NEW s \in Session, SessionInv(s), conn' = conn,
           pump[s].pc \notin Waiting, pump'[s].pc \notin Waiting,
           sess'[s].txClient = sess[s].txClient, Connected(s)' => Connected(s)
    PROVE  InPlace(conn, s, sess[s], pump[s], hist[s], Connected(s))'
<1>1. InPlace(conn, s, sess[s], pump[s], hist[s], Connected(s))
    BY DEF SessionInv
<1>2. NoneSent(conn, s)
    BY <1>1, CalmNone
<1>3. sess[s].txClient \in Client \cup {Null} /\ conn \in Conns
    BY FieldTypes
<1>4. Keeps(conn', s, sess'[s])
    BY <1>1 DEF InPlace, Keeps
<1>5. ASSUME Connected(s)'
      PROVE  /\ NoCleanups(conn', s)
             /\ sess'[s].txClient # Null => conn'[sess'[s].txClient].queue = << >>
    <2>1. NoCleanups(conn, s) /\ OnlyOwn(conn, s, sess[s], pump[s])
        BY <1>1, <1>5 DEF InPlace
    <2>2. pump[s].pc # "pinBegin"
        BY DEF Waiting
    <2>3. sess[s].txClient # Null => conn[sess[s].txClient].queue = << >>
        BY <1>2, <1>3, <2>1, <2>2, OwnQueueEmpty
    <2> QED
        BY <2>1, <2>3
<1> QED
    BY <1>2, <1>3, <1>4, <1>5, CalmInPlace

\* A session passes on: nothing is sent before and after, its transaction goes on, and
\* its object still agrees with its await.
Passes(s) ==
    /\ Calm(s) /\ socket' = socket
    /\ Unit(sess[s], pump[s], hist[s], up) /\ PinRight(sess[s], pump[s])
         => Unit(sess[s], pump[s], hist[s], up)' /\ PinRight(sess[s], pump[s])'

LEMMA PassesConnected ==
    ASSUME TypeInv, TypeInv', ConnectedInv, NEW s \in Session, Passes(s)
    PROVE  ConnectedInv'
<1>1. /\ OnlySession(s) /\ conn' = conn /\ up' = up /\ socket' = socket
      /\ durable' = durable /\ acked' = acked /\ ended' = ended
      /\ pump[s].pc \notin Waiting /\ pump'[s].pc \notin Waiting
      /\ sess'[s].txClient = sess[s].txClient
      /\ hist'[s].unit = hist[s].unit /\ hist'[s].open = hist[s].open
      /\ hist'[s].clean => hist[s].clean
    BY DEF Passes, Calm, SameLedger
<1>2. NoLostWork' /\ \A q \in Session \ {s} : SessionInv(q)'
    BY <1>1, OthersIdle
<1>3. SessionInv(s) /\ (Connected(s)' <=> Connected(s))
    BY <1>1 DEF ConnectedInv, Connected
<1>4. InPlace(conn, s, sess[s], pump[s], hist[s], Connected(s))'
    BY <1>1, <1>3, CalmStays
<1>5. EndedPast(s)' /\ CommitKept(s)'
    BY <1>1, <1>3 DEF SessionInv, EndedPast, CommitKept
<1>6. ASSUME Connected(s)' PROVE Live(s)'
    <2>1. Live(s)
        BY <1>3, <1>6 DEF SessionInv
    <2>2. up' /\ Unit(sess[s], pump[s], hist[s], up)' /\ PinRight(sess[s], pump[s])'
        BY <1>1, <2>1 DEF Live, Passes
    <2>3. pump[s].pc # "pinBegin" /\ pump'[s].pc # "pinBegin"
        BY <1>1 DEF Waiting
    <2>4. TxRight(conn, sess[s], pump[s], hist[s])'
        <3>1. TxRight(conn, sess[s], pump[s], hist[s])
            BY <2>1 DEF Live
        <3> QED
            BY <1>1, <2>3, <3>1, FieldTypes DEF TxRight
    <2>5. RowsRight(conn, s, sess[s], pump[s], hist[s])'
        BY <1>1, <2>1, <2>3 DEF Live, RowsRight
    <2>6. NotYet(s)' /\ DurableOnShard(s)'
        BY <1>1, <2>1, <2>3 DEF Live, NotYet, DurableOnShard
    <2>7. Ledger(s)'
        BY <1>1, <2>1, LedgerStays DEF Live
    <2> QED
        BY <2>2, <2>4, <2>5, <2>6, <2>7 DEF Live
<1> QED
    BY <1>2, <1>3, <1>4, <1>5, <1>6, AllSessions DEF SessionInv

\* A session that runs or idles with the pin and the client that it had before.
LEMMA PinRests ==
    ASSUME NEW ss, NEW p, NEW st, NEW to, PinRight(ss, p),
           st.txClient = ss.txClient, st.pinnedIndex = ss.pinnedIndex,
           to.pc \notin {"pinConnect", "pinBegin"}
    PROVE  PinRight(st, to)
BY DEF PinRight

\* The statement threw before it reached a client.
LEMMA ThrowPasses ==
    ASSUME TypeInv, TypeInv', NEW s \in Session, Throw(s, sess[s], conn),
           pump[s].pc \notin Waiting, UNCHANGED <<socket, up, durable, acked>>
    PROVE  Passes(s)
<1>1. /\ Calm(s) /\ hist'[s].open = hist[s].open /\ up' = up
      /\ sess'[s] = sess[s] /\ pump'[s].pc = "idle"
    BY ThrowFields, CalmAwaits DEF Calm, SameLedger
<1>2. ASSUME Unit(sess[s], pump[s], hist[s], up), PinRight(sess[s], pump[s])
      PROVE  Unit(sess'[s], pump'[s], hist'[s], up) /\ PinRight(sess'[s], pump'[s])
    BY <1>1, <1>2, UnitRests, PinRests
<1> QED
    BY <1>1, <1>2 DEF Passes

\* The statement was answered by the session itself.
LEMMA DonePasses ==
    ASSUME TypeInv, TypeInv', NEW s \in Session, NEW ss,
           Done(s, ss, conn), UNCHANGED outcome, pump[s].pc \notin Waiting,
           UNCHANGED <<socket, up, durable, acked>>,
           ss.inTx = sess[s].inTx, ss.txClient = sess[s].txClient,
           ss.backendInTx = sess[s].backendInTx, ss.pinnedIndex = sess[s].pinnedIndex
    PROVE  Passes(s)
<1>1. /\ sess'[s] = ss /\ pump'[s].pc = "run" /\ conn' = conn
      /\ \A q \in Session \ {s} : sess'[q] = sess[q] /\ pump'[q] = pump[q]
    BY DoneFields
<1>2. Calm(s) /\ hist' = hist /\ up' = up
    BY <1>1, SessionOnly, CalmAwaits DEF Calm, SameLedger
<1>3. ASSUME Unit(sess[s], pump[s], hist[s], up), PinRight(sess[s], pump[s])
      PROVE  Unit(sess'[s], pump'[s], hist'[s], up) /\ PinRight(sess'[s], pump'[s])
    BY <1>1, <1>2, <1>3, UnitRests, PinRests
<1> QED
    BY <1>2, <1>3 DEF Passes

\* The statement awaits Lookup, or the connect of a statement outside a transaction.
LEMMA AwaitPasses ==
    ASSUME TypeInv, TypeInv', NEW s \in Session, NEW ss, NEW pc, NEW tid,
           Await(s, ss, conn, pc, tid), UNCHANGED outcome,
           pump[s].pc \notin Waiting, pc \in LookupAwait \cup {"autoConnect"},
           UNCHANGED <<socket, up, durable, acked>>,
           ss.inTx = sess[s].inTx, ss.txClient = sess[s].txClient,
           ss.backendInTx = sess[s].backendInTx, ss.pinnedIndex = sess[s].pinnedIndex,
           pc = "pinLookup" => ss.inTx,
           pc \in {"autoLookup", "autoConnect"}
             => ~ss.inTx \/ ~Unit(sess[s], pump[s], hist[s], up)
    PROVE  Passes(s)
<1>1. /\ sess'[s] = ss /\ pump'[s].pc = pc /\ conn' = conn
      /\ \A q \in Session \ {s} : sess'[q] = sess[q] /\ pump'[q] = pump[q]
    BY AwaitFields
<1>2. Calm(s) /\ hist' = hist /\ up' = up
    BY <1>1, SessionOnly, CalmAwaits DEF Calm, SameLedger, ConnectAwait
<1>3. ASSUME Unit(sess[s], pump[s], hist[s], up), PinRight(sess[s], pump[s])
      PROVE  Unit(sess'[s], pump'[s], hist'[s], up) /\ PinRight(sess'[s], pump'[s])
    <2>1. Unit(sess'[s], pump'[s], hist'[s], up)
        BY <1>1, <1>2, <1>3 DEF Unit, LookupAwait
    <2>2. PinRight(sess'[s], pump'[s])
        BY <1>1, <1>3, PinRests DEF LookupAwait
    <2> QED
        BY <2>1, <2>2
<1> QED
    BY <1>2, <1>3 DEF Passes

\* SET and RESET of the tid, and a data statement up to its Lookup.
LEMMA DispatchPasses ==
    ASSUME TypeInv, TypeInv', NEW s \in Session, SetTid(s) \/ ResetTid(s) \/ Data(s)
    PROVE  Passes(s)
<1> DEFINE pc == IF sess[s].inTx THEN "pinLookup" ELSE "autoLookup"
<1>1. /\ pump[s].pc \notin Waiting
      /\ UNCHANGED <<socket, up, durable, acked>>
    BY DEF SetTid, ResetTid, Data, Dispatching, Waiting
<1>2. sess[s] \in SessionState
    BY FieldTypes
<1>3. CASE Throw(s, sess[s], conn)
    BY <1>1, <1>3, ThrowPasses
<1>4. ASSUME NEW tid, Await(s, sess[s], conn, "setLookup", tid), UNCHANGED outcome
      PROVE  Passes(s)
    <2>1. "setLookup" \in LookupAwait \cup {"autoConnect"}
        BY DEF LookupAwait
    <2> QED
        BY <1>1, <1>4, <2>1, AwaitPasses
<1>5. ASSUME NEW tid, Done(s, [sess[s] EXCEPT !.pendingTid = tid], conn),
             UNCHANGED outcome
      PROVE  Passes(s)
    <2> DEFINE ss == [sess[s] EXCEPT !.pendingTid = tid]
    <2>1. /\ ss.inTx = sess[s].inTx /\ ss.txClient = sess[s].txClient
          /\ ss.backendInTx = sess[s].backendInTx /\ ss.pinnedIndex = sess[s].pinnedIndex
        BY <1>2 DEF SessionState
    <2>2. Done(s, ss, conn)
        BY <1>5
    <2> HIDE DEF ss
    <2> QED
        BY <1>1, <1>5, <2>1, <2>2, DonePasses
<1>6. CASE Await(s, sess[s], conn, pc, sess[s].pendingTid) /\ UNCHANGED outcome
    <2>1. /\ pc \in LookupAwait /\ pc # "autoConnect"
          /\ pc = "pinLookup" => sess[s].inTx
          /\ pc = "autoLookup" => ~sess[s].inTx
        BY DEF LookupAwait
    <2> HIDE DEF pc
    <2> QED
        BY <1>1, <1>6, <2>1, AwaitPasses
<1> QED
    BY <1>3, <1>4, <1>5, <1>6 DEF SetTid, ResetTid, Data

\* Lookup or a connect failed, or Lookup has answered for SET or for a statement outside
\* a transaction.
LEMMA ReplyPasses ==
    ASSUME TypeInv, TypeInv', NEW s \in Session,
           \/ LookupFails(s) \/ ConnectFails(s)
           \/ SetLookupReply(s) \/ AutoLookupReply(s)
    PROVE  Passes(s)
<1>1. /\ pump[s].pc \notin Waiting
      /\ UNCHANGED <<socket, up, durable, acked>>
    BY CalmAwaits DEF LookupFails, ConnectFails, SetLookupReply, AutoLookupReply,
                      Resuming, Waiting, LookupAwait, ConnectAwait
<1>2. sess[s] \in SessionState
    BY FieldTypes
<1>3. CASE Throw(s, sess[s], conn)
    BY <1>1, <1>3, ThrowPasses
<1> DEFINE st == [sess[s] EXCEPT !.pendingTid = pump[s].tid]
           ss == [sess[s] EXCEPT !.pendingTid = Null]
<1>4. /\ st.inTx = sess[s].inTx /\ st.txClient = sess[s].txClient
      /\ st.backendInTx = sess[s].backendInTx /\ st.pinnedIndex = sess[s].pinnedIndex
      /\ ss.inTx = sess[s].inTx /\ ss.txClient = sess[s].txClient
      /\ ss.backendInTx = sess[s].backendInTx /\ ss.pinnedIndex = sess[s].pinnedIndex
    BY <1>2 DEF SessionState
<1>5. \/ Throw(s, sess[s], conn)
      \/ Done(s, st, conn) /\ UNCHANGED outcome
      \/ /\ pump[s].pc = "autoLookup"
         /\ Await(s, ss, conn, "autoConnect", pump[s].tid) /\ UNCHANGED outcome
    BY DEF LookupFails, ConnectFails, SetLookupReply, AutoLookupReply, Resuming
<1> HIDE DEF ss, st
<1>6. CASE Done(s, st, conn) /\ UNCHANGED outcome
    BY <1>1, <1>4, <1>6, DonePasses
<1>7. CASE /\ pump[s].pc = "autoLookup"
           /\ Await(s, ss, conn, "autoConnect", pump[s].tid) /\ UNCHANGED outcome
    <2>1. Unit(sess[s], pump[s], hist[s], up) => ~ss.inTx
        BY <1>4, <1>7 DEF Unit
    <2> QED
        BY <1>1, <1>4, <1>7, <2>1, AwaitPasses
<1> QED
    BY <1>3, <1>5, <1>6, <1>7

\* A message is taken, or answered.
LEMMA MessagePasses ==
    ASSUME TypeInv, TypeInv', NEW s \in Session, TakeMessage(s) \/ FinishMessage(s)
    PROVE  Passes(s)
<1>1. CASE TakeMessage(s)
    <2>1. /\ pump[s].pc = "idle" /\ pump'[s].pc = "run" /\ socket' = socket
          /\ UNCHANGED <<sess, conn, up, hist, durable, acked, ended>>
          /\ \A q \in Session \ {s} : pump'[q] = pump[q]
        BY <1>1 DEF TakeMessage, ghosts, TypeInv, TypeOK
    <2>2. Calm(s)
        BY <2>1, CalmAwaits DEF Calm, OnlySession, SameLedger
    <2> QED
        BY <2>1, <2>2, UnitRests, PinRests DEF Passes
<1>2. CASE FinishMessage(s)
    <2> DEFINE ss == [sess[s] EXCEPT !.txStatus = IF sess[s].inTx THEN "T" ELSE "I"]
    <2>1. /\ ss.inTx = sess[s].inTx /\ ss.txClient = sess[s].txClient
          /\ ss.backendInTx = sess[s].backendInTx /\ ss.pinnedIndex = sess[s].pinnedIndex
        BY FieldTypes DEF SessionState
    <2>2. /\ Answered(s, ss, conn) /\ pump[s].pc = "run"
          /\ UNCHANGED <<socket, up, hist, durable, acked, ended>>
        BY <1>2 DEF FinishMessage, ghosts
    <2> HIDE DEF ss
    <2>3. /\ sess'[s] = ss /\ conn' = conn /\ pump'[s].pc = "idle"
          /\ \A q \in Session \ {s} : sess'[q] = sess[q] /\ pump'[q] = pump[q]
        BY <2>2, AnsweredFields
    <2>4. Calm(s)
        BY <2>1, <2>2, <2>3, CalmAwaits DEF Calm, OnlySession, SameLedger
    <2>5. Unit(sess[s], pump[s], hist[s], up) /\ PinRight(sess[s], pump[s])
            => Unit(sess[s], pump[s], hist[s], up)' /\ PinRight(sess[s], pump[s])'
        BY <2>1, <2>2, <2>3, UnitRests, PinRests
    <2> QED
        BY <2>2, <2>4, <2>5 DEF Passes
<1> QED
    BY <1>1, <1>2

\* A message comes in.
LEMMA ReceiveConnected ==
    ASSUME TypeInv, TypeInv', ConnectedInv, NEW s \in Session, Receive(s)
    PROVE  ConnectedInv'
<1>1. \A q \in Session : /\ hist'[q].unit = hist[q].unit
                         /\ hist'[q].open = hist[q].open
                         /\ hist'[q].clean = hist[q].clean
    BY DEF Receive, TypeInv, TypeOK, History
<1>2. UNCHANGED <<sess, pump, socket, conn, up, durable, acked, ended>>
    BY DEF Receive
<1>3. ASSUME NEW q \in Session PROVE SessionInv(q)'
    <2>1. SessionInv(q) /\ (Connected(q)' <=> Connected(q))
        BY <1>2 DEF ConnectedInv, Connected
    <2>2. InPlace(conn, q, sess[q], pump[q], hist[q], Connected(q))'
        BY <1>1, <1>2, <2>1, InPlaceOf DEF SessionInv
    <2>3. EndedPast(q)' /\ CommitKept(q)'
        BY <1>1, <1>2, <2>1 DEF SessionInv, EndedPast, CommitKept
    <2>4. ASSUME Connected(q)' PROVE Live(q)'
        <3>1. Live(q)
            BY <2>1, <2>4 DEF SessionInv
        <3>2. /\ up' /\ Unit(sess[q], pump[q], hist[q], up)'
              /\ PinRight(sess[q], pump[q])'
            BY <1>1, <1>2, <3>1 DEF Live, Unit
        <3>3. TxRight(conn, sess[q], pump[q], hist[q])'
            BY <1>1, <1>2, <3>1 DEF Live, TxRight
        <3>4. RowsRight(conn, q, sess[q], pump[q], hist[q])'
            BY <1>1, <1>2, <3>1 DEF Live, RowsRight
        <3>5. NotYet(q)' /\ DurableOnShard(q)'
            BY <1>1, <1>2, <3>1 DEF Live, NotYet, DurableOnShard, OwnRow
        <3>6. Ledger(q)'
            BY <1>1, <1>2, <3>1, LedgerStays DEF Live
        <3> QED
            BY <3>2, <3>3, <3>4, <3>5, <3>6 DEF Live
    <2> QED
        BY <2>2, <2>3, <2>4 DEF SessionInv
<1>4. NoLostWork'
    BY <1>2 DEF ConnectedInv, NoLostWork
<1> QED
    BY <1>3, <1>4 DEF ConnectedInv

\* BEGIN: outside a transaction the client's next unit of work begins.
LEMMA BeginConnected ==
    ASSUME TypeInv, TypeInv', ConnectedInv, NEW s \in Session, Begin(s)
    PROVE  ConnectedInv'
<1> DEFINE ss == [sess[s] EXCEPT !.inTx = TRUE]
<1>1. /\ pump[s].pc \notin Waiting /\ pump[s].pc = "run"
      /\ UNCHANGED <<socket, up, durable, acked>> /\ ended' = ended
    BY DispatchTx DEF Begin, Dispatching
<1>2. /\ sess'[s].inTx /\ sess'[s].txClient = sess[s].txClient
      /\ sess'[s].backendInTx = sess[s].backendInTx
      /\ sess'[s].pinnedIndex = sess[s].pinnedIndex
      /\ conn' = conn /\ pump'[s].pc \in {"run", "pinLookup"}
      /\ \A q \in Session \ {s} : sess'[q] = sess[q] /\ pump'[q] = pump[q]
    <2>1. /\ ss.inTx /\ ss.txClient = sess[s].txClient
          /\ ss.backendInTx = sess[s].backendInTx /\ ss \in SessionState
          /\ ss.pinnedIndex = sess[s].pinnedIndex
        BY FieldTypes DEF SessionState
    <2>2. CASE Await(s, ss, conn, "pinLookup", ss.pendingTid)
        <3> HIDE DEF ss
        <3> QED
            BY <2>1, <2>2, AwaitFields
    <2>3. CASE Done(s, [ss EXCEPT !.txStatus = "T"], conn)
        <3> DEFINE st == [ss EXCEPT !.txStatus = "T"]
        <3>1. /\ st.inTx /\ st.txClient = sess[s].txClient
              /\ st.backendInTx = sess[s].backendInTx
              /\ st.pinnedIndex = sess[s].pinnedIndex
            BY <2>1 DEF SessionState
        <3> HIDE DEF st
        <3>2. Done(s, st, conn)
            BY <2>3 DEF st
        <3> QED
            BY <3>1, <3>2, DoneFields
    <2> QED
        BY <2>2, <2>3 DEF Begin
<1>4. pump'[s].pc \notin Waiting
    BY <1>2 DEF Waiting
<1>5. CASE hist[s].open
    <2>1. hist' = hist
        BY <1>5 DEF Begin
    <2>2. Calm(s)
        BY <1>1, <1>2, <1>4, <2>1 DEF Calm, OnlySession, SameLedger
    <2>3. ASSUME Unit(sess[s], pump[s], hist[s], up), PinRight(sess[s], pump[s])
          PROVE  Unit(sess[s], pump[s], hist[s], up)' /\ PinRight(sess[s], pump[s])'
        <3>1. Unit(sess[s], pump[s], hist[s], up)'
            BY <1>1, <1>2, <1>5, <2>1, <2>3 DEF Unit
        <3>2. PinRight(sess[s], pump[s])'
            BY <1>2, <2>3 DEF PinRight
        <3> QED
            BY <3>1, <3>2
    <2>4. Passes(s)
        BY <1>1, <2>2, <2>3 DEF Passes
    <2> QED
        BY <2>4, PassesConnected
<1>6. CASE ~hist[s].open
    <2>1. /\ hist'[s].unit = hist[s].unit + 1 /\ hist'[s].open
          /\ \A q \in Session \ {s} : hist'[q] = hist[q]
        BY <1>6 DEF Begin, TypeInv, TypeOK, History
    <2>2. OnlySession(s) /\ SameLedger
        BY <1>1, <1>2, <2>1 DEF OnlySession, SameLedger
    <2>3. NoLostWork' /\ \A q \in Session \ {s} : SessionInv(q)'
        BY <1>1, <1>2, <2>2, OthersIdle DEF SameLedger
    <2>4. SessionInv(s) /\ (Connected(s)' <=> Connected(s))
        BY <1>1 DEF ConnectedInv, Connected
    <2>5. InPlace(conn, s, sess[s], pump[s], hist[s], Connected(s))'
        BY <1>1, <1>2, <1>4, <2>4, CalmStays
    <2>6. EndedPast(s)' /\ CommitKept(s)'
        <3>1. \A e \in ended : e.unit \in Nat
            BY DEF TypeInv, TypeOK
        <3>2. hist[s].unit \in Nat
            BY FieldTypes
        <3> QED
            BY <2>1, <2>2, <2>4, <3>1, <3>2
               DEF SessionInv, EndedPast, CommitKept, SameLedger
    <2>7. ASSUME Connected(s)' PROVE Live(s)'
        <3>1. Live(s)
            BY <2>4, <2>7 DEF SessionInv
        <3>2. sess[s].txClient = Null /\ ~sess[s].backendInTx
            BY <1>6, <3>1 DEF Live, Unit
        <3>3. up' /\ Unit(sess'[s], pump'[s], hist'[s], up')
            BY <1>1, <1>2, <2>1, <3>1, <3>2 DEF Unit, Live
        <3>4. PinRight(sess[s], pump[s])' /\ TxRight(conn, sess[s], pump[s], hist[s])'
            BY <1>2, <3>2 DEF PinRight, TxRight
        <3>5. RowsRight(conn, s, sess[s], pump[s], hist[s])'
            BY <1>2, <3>1, <3>2, <1>6 DEF Live, RowsRight
        <3>6. NotYet(s)' /\ DurableOnShard(s)'
            BY <1>2, <2>2, <3>1 DEF Live, NotYet, DurableOnShard, SameLedger
        <3>7. Ledger(s)'
            BY <2>1, <2>2, <3>1, LedgerBegins DEF Live
        <3> QED
            BY <3>3, <3>4, <3>5, <3>6, <3>7 DEF Live
    <2> QED
        BY <2>3, <2>4, <2>5, <2>6, <2>7, AllSessions DEF SessionInv
<1> QED
    BY <1>5, <1>6
---------------------------------------------------------------------------
(***************************************************************************)
(* Steps of a session that hand a client over or queue a request.          *)
(***************************************************************************)
\* No transaction of a client changes.
SameWork(cn, dn) == \A d \in Client : dn[d].tx = cn[d].tx /\ dn[d].work = cn[d].work

\* Every session but s is in its place.
OthersInPlace(cn, s) ==
    \A q \in Session : q # s => InPlace(cn, q, sess[q], pump[q], hist[q], Connected(q))

\* What client.query() assigns.
LEMMA EnqueueQueues ==
    ASSUME NEW cn \in Conns, NEW c \in Client, NEW by, NEW s, NEW op, NEW row,
           NEW dn, dn = Enqueue(cn, c, by, s, op, row)
    PROVE  /\ Queued(cn, dn, c, [by |-> by, s |-> s, op |-> op, row |-> row])
           /\ SameWork(cn, dn)
BY DEF Enqueue, Queued, SameWork, Conns, Connection

\* The pool's connect().
Hold(cn, c, s) == [cn EXCEPT ![c].holder = s]

\* What connect() and release() assign.
LEMMA HolderHands ==
    ASSUME NEW cn \in Conns, NEW c \in Client, NEW s,
           NEW dn, dn = Hold(cn, c, s)
    PROVE  Handed(cn, dn, c) /\ SameWork(cn, dn) /\ dn[c].holder = s
BY DEF Hold, Handed, SameWork, Conns, Connection

\* The other sessions are not concerned by what is queued on the client of s.
LEMMA OthersQueue ==
    ASSUME TypeInv, NEW s \in Session, NEW cn \in Conns, NEW dn, NEW c \in Client, NEW r,
           Queued(cn, dn, c, r), r.s = s, cn[c].holder = s, OthersInPlace(cn, s)
    PROVE  OthersInPlace(dn, s)
<1> SUFFICES ASSUME NEW q \in Session, q # s
             PROVE  InPlace(dn, q, sess[q], pump[q], hist[q], Connected(q))
    BY DEF OthersInPlace
<1>1. InPlace(cn, q, sess[q], pump[q], hist[q], Connected(q))
    BY DEF OthersInPlace
<1>2. sess[q].txClient \in Client \cup {Null} /\ r.s # q /\ cn[c].holder # q
    BY FieldTypes
<1> QED
    BY <1>1, <1>2, QueueInPlace

\* ... nor by a client that s gets from the pool or gives back to it.
LEMMA OthersHand ==
    ASSUME TypeInv, NEW s \in Session, NEW cn \in Conns, NEW dn, NEW c \in Client,
           Handed(cn, dn, c), cn[c].holder \in {Null, s}, OthersInPlace(cn, s)
    PROVE  OthersInPlace(dn, s)
<1> SUFFICES ASSUME NEW q \in Session, q # s
             PROVE  InPlace(dn, q, sess[q], pump[q], hist[q], Connected(q))
    BY DEF OthersInPlace
<1>1. InPlace(cn, q, sess[q], pump[q], hist[q], Connected(q))
    BY DEF OthersInPlace
<1>2. sess[q].txClient \in Client \cup {Null} /\ cn[c].holder # q
    BY FieldTypes
<1> QED
    BY <1>1, <1>2, HandInPlace

\* ... nor by a request that was executed.
LEMMA OthersPop ==
    ASSUME TypeInv, NEW s \in Session, NEW cn \in Conns, NEW dn, NEW c \in Client,
           Popped(cn, dn, c), OthersInPlace(cn, s)
    PROVE  OthersInPlace(dn, s)
<1> SUFFICES ASSUME NEW q \in Session, q # s
             PROVE  InPlace(dn, q, sess[q], pump[q], hist[q], Connected(q))
    BY DEF OthersInPlace
<1>1. InPlace(cn, q, sess[q], pump[q], hist[q], Connected(q))
    BY DEF OthersInPlace
<1>2. sess[q].txClient \in Client \cup {Null}
    BY FieldTypes
<1> QED
    BY <1>1, <1>2, PopInPlace

\* The other sessions, when no transaction and no ledger has changed for them.
LEMMA OthersSafe ==
    ASSUME TypeInv, TypeInv', ConnectedInv, NEW s \in Session, OnlySession(s),
           up' = up, \A q \in Session \ {s} : socket'[q] = socket[q],
           SameWork(conn, conn'), OthersInPlace(conn', s),
           durable' = durable, acked' = acked, ended \subseteq ended',
           \A e \in ended' : e.s = s \/ e \in ended
    PROVE  NoLostWork' /\ \A q \in Session \ {s} : SessionInv(q)'
<1>1. NoLostWork'
    BY DEF ConnectedInv, NoLostWork, SameWork
<1>2. ASSUME NEW q \in Session, q # s PROVE SessionInv(q)'
    <2>1. InPlace(conn', q, sess[q], pump[q], hist[q], Connected(q))
        BY <1>2 DEF OthersInPlace
    <2> QED
        BY <1>2, <2>1, OthersStay DEF SameWork
<1> QED
    BY <1>1, <1>2

\* The ledgers' view of a session that is no longer connected: a COMMIT that is answered
\* now is not told, and what is acknowledged now is of the open unit.
LEMMA PastStep ==
    ASSUME TypeInv, TypeInv', NEW s \in Session, EndedPast(s), CommitKept(s),
           hist'[s].unit = hist[s].unit, hist'[s].open => hist[s].open,
           \A h \in Shard : durable[h] \subseteq durable'[h],
           \A r \in acked' : r.s = s /\ r.tx =>
              r \in acked \/ (r.unit = hist[s].unit /\ hist[s].open),
           \A e \in ended' : e.s = s =>
              \/ e \in ended
              \/ e.unit = hist[s].unit /\ ~hist'[s].open /\ ~e.told
    PROVE  EndedPast(s)' /\ CommitKept(s)'
<1>1. hist[s].unit \in Nat
    BY FieldTypes
<1>2. EndedPast(s)'
    BY <1>1 DEF EndedPast
<1>3. CommitKept(s)'
    <2> SUFFICES ASSUME NEW e \in ended', e.s = s, e.told,
                        NEW r \in acked', r.tx, r.s = s, r.unit = e.unit
                 PROVE  \E h \in Shard : r \in durable'[h]
        BY DEF CommitKept
    <2>1. e \in ended
        OBVIOUS
    <2>2. r \in acked
        BY <2>1 DEF EndedPast
    <2>3. \E h \in Shard : r \in durable[h]
        BY <2>1, <2>2 DEF CommitKept
    <2> QED
        BY <2>3
<1> QED
    BY <1>2, <1>3

\* The session that acts.
LEMMA ActingSession ==
    ASSUME NEW s \in Session, NoLostWork', \A q \in Session \ {s} : SessionInv(q)',
           InPlace(conn, s, sess[s], pump[s], hist[s], Connected(s))',
           Connected(s)' => Live(s)',
           ~Connected(s)' => EndedPast(s)' /\ CommitKept(s)'
    PROVE  ConnectedInv'
<1>1. Live(s)' => EndedPast(s)' /\ CommitKept(s)'
    BY DEF Live, Ledger
<1>2. SessionInv(s)'
    BY <1>1 DEF SessionInv
<1> QED
    BY <1>2, AllSessions

\* COMMIT or ROLLBACK without a client: nothing was ever sent.
LEMMA EndsNothingConnected ==
    ASSUME TypeInv, TypeInv', ConnectedInv, NEW s \in Session, EndTx(s, conn),
           pump[s].pc = "run", sess[s].txClient = Null, up,
           UNCHANGED <<socket, up, durable, acked>>
    PROVE  ConnectedInv'
<1> DEFINE ss == [Unpinned(sess[s]) EXCEPT !.txClient = Null, !.txStatus = "I"]
<1>1. ss.txClient = Null /\ ~ss.inTx /\ ~ss.backendInTx
    BY FieldTypes DEF Unpinned, SessionState
<1>2. Done(s, ss, conn)
    BY DEF EndTx
<1> HIDE DEF ss
<1>3. /\ sess'[s] = ss /\ conn' = conn /\ pump'[s].pc = "run"
      /\ \A q \in Session \ {s} : sess'[q] = sess[q] /\ pump'[q] = pump[q]
    BY <1>2, DoneFields
<1>4. /\ hist'[s].unit = hist[s].unit /\ ~hist'[s].open /\ hist'[s].clean = hist[s].clean
      /\ \A q \in Session \ {s} : hist'[q] = hist[q]
    BY DEF EndTx, TypeInv, TypeOK, History
<1> DEFINE told == hist[s].clean /\ socket[s] = "open"
<1>5. ended' = IF Stmt(s).op = "commit" /\ hist[s].open
               THEN ended \cup {[s |-> s, unit |-> hist[s].unit, told |-> told]}
               ELSE ended
    BY DEF EndTx
<1>6. told => hist[s].clean /\ Connected(s)
    BY DEF Connected
<1> HIDE DEF told
<1>7. OnlySession(s)
    BY <1>3, <1>4 DEF OnlySession
<1>8. NoLostWork' /\ \A q \in Session \ {s} : SessionInv(q)'
    BY <1>3, <1>5, <1>7, OthersIdle
<1>9. SessionInv(s) /\ (Connected(s)' <=> Connected(s))
    BY DEF ConnectedInv, Connected
<1>10. InPlace(conn, s, sess[s], pump[s], hist[s], Connected(s))'
    BY <1>1, <1>3, <1>9, CalmStays, CalmAwaits
<1>11. ASSUME ~Connected(s)' PROVE EndedPast(s)' /\ CommitKept(s)'
    <2>1. EndedPast(s) /\ CommitKept(s)
        BY <1>9 DEF SessionInv
    <2>2. \A e \in ended' : e.s = s =>
              \/ e \in ended
              \/ e.unit = hist[s].unit /\ ~hist'[s].open /\ ~e.told
        BY <1>4, <1>5, <1>6, <1>9, <1>11
    <2> QED
        BY <1>4, <2>1, <2>2, PastStep
<1>12. ASSUME Connected(s)' PROVE Live(s)'
    <2>1. Live(s)
        BY <1>9, <1>12 DEF SessionInv
    <2>2. up' /\ Unit(sess[s], pump[s], hist[s], up)'
        BY <1>1, <1>3, <1>4 DEF Unit
    <2>3. PinRight(sess[s], pump[s])' /\ TxRight(conn, sess[s], pump[s], hist[s])'
        BY <1>1, <1>3 DEF PinRight, TxRight
    <2>4. RowsRight(conn, s, sess[s], pump[s], hist[s])'
        <3>1. \A c \in Client : \A r \in conn[c].work : r.s = s => ~r.tx
            BY <2>1, ClientType DEF Live, RowsRight
        <3> QED
            BY <1>3, <2>1, <3>1 DEF Live, RowsRight
    <2>5. NotYet(s)' /\ DurableOnShard(s)'
        BY <1>3, <2>1 DEF Live, NotYet, DurableOnShard
    <2>6. Ledger(s)'
        <3>1. Ledger(s)
            BY <2>1 DEF Live
        <3>2. CASE Stmt(s).op = "commit" /\ hist[s].open
            <4>1. ended' = ended \cup {[s |-> s, unit |-> hist[s].unit, told |-> told]}
                BY <1>5, <3>2
            <4>2. hist[s].clean => \A r \in acked : r.s = s /\ r.tx
                                      /\ r.unit = hist[s].unit => r \in {}
                BY <3>1, <3>2 DEF Ledger, AckedHeld, Current
            <4>3. durable' = [h \in Shard |->
                                IF sess[s].txClient # Null /\ h = HostOf[sess[s].txClient]
                                THEN durable[h] \cup {} ELSE durable[h]]
                BY DEF TypeInv, TypeOK
            <4>4. told => hist[s].clean
                BY <1>6
            <4>5. /\ hist'[s].unit = hist[s].unit /\ ~hist'[s].open /\ hist[s].open
                  /\ up' = up /\ acked' = acked
                BY <1>4, <3>2
            <4>6. \A r \in {} : r.s = s /\ r.tx => r.unit = hist[s].unit
                OBVIOUS
            <4> QED
                BY <3>1, <4>1, <4>2, <4>3, <4>4, <4>5, <4>6, LedgerCommits
        <3>3. CASE ~(Stmt(s).op = "commit" /\ hist[s].open)
            BY <1>4, <1>5, <3>1, <3>3, LedgerStays
        <3> QED
            BY <3>2, <3>3
    <2> QED
        BY <2>2, <2>3, <2>4, <2>5, <2>6 DEF Live
<1> QED
    BY <1>8, <1>10, <1>11, <1>12, ActingSession

\* What holds of a session that awaits no request, and of the others.
LEMMA CalmSession ==
    ASSUME TypeInv, ConnectedInv, NEW s \in Session, pump[s].pc \notin Waiting
    PROVE  /\ conn \in Conns /\ s # Null /\ sess[s].txClient \in Client \cup {Null}
           /\ NoneSent(conn, s) /\ Keeps(conn, s, sess[s]) /\ OthersInPlace(conn, s)
           /\ Connected(s) => /\ Live(s) /\ NoCleanups(conn, s)
                              /\ sess[s].txClient # Null
                                   => conn[sess[s].txClient].queue = << >>
<1>1. conn \in Conns /\ s # Null /\ sess[s].txClient \in Client \cup {Null}
    BY FieldTypes
<1>2. /\ InPlace(conn, s, sess[s], pump[s], hist[s], Connected(s))
      /\ Connected(s) => Live(s)
    BY DEF ConnectedInv, SessionInv
<1>3. NoneSent(conn, s) /\ Keeps(conn, s, sess[s])
    BY <1>2, CalmNone DEF InPlace
<1>4. OthersInPlace(conn, s)
    BY DEF ConnectedInv, SessionInv, OthersInPlace
<1>5. ASSUME Connected(s)
      PROVE  /\ NoCleanups(conn, s)
             /\ sess[s].txClient # Null => conn[sess[s].txClient].queue = << >>
    <2>1. NoCleanups(conn, s) /\ OnlyOwn(conn, s, sess[s], pump[s])
        BY <1>2, <1>5 DEF InPlace
    <2>2. pump[s].pc # "pinBegin"
        BY DEF Waiting
    <2> QED
        BY <1>1, <1>3, <2>1, <2>2, OwnQueueEmpty
<1> QED
    BY <1>1, <1>2, <1>3, <1>4, <1>5

\* The ledgers of a connected session stay while its transaction goes on.
LEMMA LiveLedger ==
    ASSUME TypeInv, TypeInv', NEW s \in Session, Live(s), SameLedger, up' = up,
           hist'[s].unit = hist[s].unit, hist'[s].open => hist[s].open,
           hist'[s].clean => hist[s].clean, SameWork(conn, conn'),
           hist[s].open /\ sess[s].txClient # Null
             => sess'[s].txClient = sess[s].txClient
    PROVE  Ledger(s)' /\ DurableOnShard(s)'
<1>1. sess[s].txClient \in Client \cup {Null}
    BY FieldTypes
<1>2. sess[s].txClient # Null
        => conn'[sess[s].txClient].work = conn[sess[s].txClient].work
    BY <1>1 DEF SameWork
<1>3. Ledger(s)'
    BY <1>2, LedgerStays DEF Live, SameLedger
<1>4. DurableOnShard(s)'
    BY DEF Live, DurableOnShard, SameLedger
<1> QED
    BY <1>3, <1>4

\* A session that awaited no request queues one on client c, which it has checked out,
\* perhaps just now: cn is how the clients were then.
LEMMA SendsConnected ==
    ASSUME TypeInv, TypeInv', ConnectedInv, NEW s \in Session, OnlySession(s),
           hist' = hist, SameLedger, UNCHANGED <<socket, up>>,
           NEW cn \in Conns, SameWork(conn, cn), OthersInPlace(cn, s),
           NEW c \in Client, NEW r, Queued(cn, conn', c, r), SameWork(cn, conn'),
           r.by = "pump", r.s = s, cn[c].holder = s, NoneSent(cn, s),
           Keeps(cn, s, sess'[s]), Awaited(r, pump'[s], hist[s]),
           pump'[s].pc = "autoQuery" => sess'[s].txClient # c,
           Connected(s) =>
             /\ NoCleanups(cn, s)
             /\ pump'[s].pc # "autoQuery" => sess'[s].txClient = c
             /\ r.op = "DATA" => ShardOf[r.row.tid] = HostOf[c]
             /\ sess'[s].txClient # Null /\ pump'[s].pc # "pinBegin"
                  => sess'[s].txClient = c /\ cn[c].queue = << >>
             /\ sess[s].txClient # Null => sess'[s].txClient = sess[s].txClient
             /\ Unit(sess[s], pump[s], hist[s], up)' /\ PinRight(sess[s], pump[s])'
             /\ TxRight(conn, sess[s], pump[s], hist[s])'
             /\ RowsRight(conn, s, sess[s], pump[s], hist[s])' /\ NotYet(s)'
    PROVE  ConnectedInv'
<1>1. SameWork(conn, conn')
    BY DEF SameWork
<1>2. OthersInPlace(conn', s)
    BY OthersQueue
<1>3. NoLostWork' /\ \A q \in Session \ {s} : SessionInv(q)'
    BY <1>1, <1>2, OthersSafe DEF SameLedger
<1>4. SessionInv(s) /\ (Connected(s)' <=> Connected(s))
    BY DEF ConnectedInv, Connected
<1>5. sess'[s].txClient \in Client \cup {Null}
    BY DEF TypeInv, TypeOK, SessionState
<1>6. InPlace(conn', s, sess'[s], pump'[s], hist[s], Connected(s))
    BY <1>5, SendInPlace
<1>7. InPlace(conn, s, sess[s], pump[s], hist[s], Connected(s))'
    BY <1>4, <1>6, InPlaceOf
<1>8. ASSUME ~Connected(s)' PROVE EndedPast(s)' /\ CommitKept(s)'
    BY <1>4, PastStep DEF SessionInv, SameLedger
<1>9. ASSUME Connected(s)' PROVE Live(s)'
    <2>1. Live(s)
        BY <1>4, <1>9 DEF SessionInv
    <2>2. Ledger(s)' /\ DurableOnShard(s)'
        BY <1>1, <1>4, <1>9, <2>1, LiveLedger
    <2> QED
        BY <1>4, <1>9, <2>1, <2>2 DEF Live
<1> QED
    BY <1>3, <1>7, <1>8, <1>9, ActingSession

\* COMMIT and ROLLBACK: sent to the transaction's client, or answered at once.
LEMMA EndStatementConnected ==
    ASSUME TypeInv, TypeInv', ConnectedInv, NEW s \in Session, EndStatement(s)
    PROVE  ConnectedInv'
<1>1. /\ pump[s].pc \notin Waiting /\ pump[s].pc = "run" /\ up
      /\ UNCHANGED <<socket, up, durable, acked>>
      /\ Stmt(s).op \in {"commit", "rollback"}
    BY DispatchTx DEF EndStatement, Dispatching
<1>2. CASE sess[s].txClient = Null
    <2>1. EndTx(s, conn)
        BY <1>2 DEF EndStatement
    <2> QED
        BY <1>1, <1>2, <2>1, EndsNothingConnected
<1>3. CASE sess[s].txClient # Null
    <2> DEFINE c == sess[s].txClient
               r == [by |-> "pump", s |-> s, op |-> EndTag(s), row |-> Null]
               dn == Enqueue(conn, c, "pump", s, EndTag(s), Null)
    <2>1. /\ conn \in Conns /\ c \in Client /\ NoneSent(conn, s)
          /\ Keeps(conn, s, sess[s]) /\ OthersInPlace(conn, s) /\ conn[c].holder = s
          /\ Connected(s) => Live(s) /\ NoCleanups(conn, s) /\ conn[c].queue = << >>
        BY <1>1, <1>3, CalmSession DEF Keeps
    <2>2. Await(s, sess[s], dn, "endQuery", Null) /\ UNCHANGED outcome
        BY <1>3 DEF EndStatement
    <2>3. Queued(conn, dn, c, r) /\ SameWork(conn, dn)
        BY <2>1, EnqueueQueues
    <2>4. EndTag(s) \in {"COMMIT", "ROLLBACK"}
        BY DEF EndTag
    <2>5. r.by = "pump" /\ r.s = s /\ r.op = EndTag(s)
        OBVIOUS
    <2> HIDE DEF r, dn
    <2>6. /\ sess'[s] = sess[s] /\ conn' = dn /\ pump'[s].pc = "endQuery"
          /\ pump'[s].stmts = pump[s].stmts
          /\ \A q \in Session \ {s} : sess'[q] = sess[q] /\ pump'[q] = pump[q]
        BY <2>2, AwaitFields
    <2>7. OnlySession(s) /\ hist' = hist /\ SameLedger
        BY <1>1, <2>2, <2>6, SessionOnly DEF SameLedger
    <2>8. Tag(pump'[s]) = EndTag(s) /\ Head(pump'[s].stmts) = Stmt(s)
        BY <2>6 DEF Tag, EndTag, Stmt
    <2>9. Awaited(r, pump'[s], hist[s])
        BY <2>4, <2>5, <2>6, <2>8 DEF Awaited, Waiting
    <2>10. ASSUME Connected(s)
           PROVE  /\ Unit(sess[s], pump[s], hist[s], up)' /\ PinRight(sess[s], pump[s])'
                  /\ TxRight(conn, sess[s], pump[s], hist[s])'
                  /\ RowsRight(conn, s, sess[s], pump[s], hist[s])' /\ NotYet(s)'
        <3>1. Live(s)
            BY <2>1, <2>10
        <3>2. Unit(sess[s], pump[s], hist[s], up)'
            BY <1>1, <1>3, <2>6, <2>7, <2>8, <3>1 DEF Unit, Live
        <3>3. PinRight(sess[s], pump[s])' /\ NotYet(s)'
            BY <2>6, <3>1 DEF PinRight, Live, NotYet
        <3>4. TxRight(conn, sess[s], pump[s], hist[s])'
            BY <1>1, <2>1, <2>3, <2>6, <2>7, <3>1 DEF TxRight, Live, SameWork
        <3>5. RowsRight(conn, s, sess[s], pump[s], hist[s])'
            BY <2>3, <2>6, <2>7, <3>1 DEF RowsRight, Live, SameWork
        <3> QED
            BY <3>2, <3>3, <3>4, <3>5
    <2>11. SameWork(conn, conn)
        BY DEF SameWork
    <2>12. c # Null
        BY <1>3
    <2>13. sess'[s].txClient = c
        BY <2>6
    <2> HIDE DEF c
    <2>14. /\ Keeps(conn, s, sess'[s]) /\ Queued(conn, conn', c, r)
           /\ SameWork(conn, conn') /\ sess[s].txClient = c
        BY <2>1, <2>3, <2>6 DEF c
    <2> QED
        BY <1>1, <2>1, <2>4, <2>5, <2>6, <2>7, <2>9, <2>10, <2>11, <2>13, <2>14,
           SendsConnected
<1> QED
    BY <1>2, <1>3

\* ensurePinned() has returned, and the data statement is queued on the transaction's
\* client; cn is how the step has left the clients before that.
LEMMA PinnedSends ==
    ASSUME TypeInv, TypeInv', ConnectedInv, NEW s \in Session, NEW ss, NEW cn \in Conns,
           Await(s, ss, Enqueue(cn, ss.txClient, "pump", s, "DATA",
                                RowOf(s, pump[s].tid)), "txQuery", Null),
           UNCHANGED outcome, UNCHANGED <<socket, up, durable, acked>>,
           SameWork(conn, cn), OthersInPlace(cn, s), NoneSent(cn, s),
           ss.txClient \in Client, cn[ss.txClient].holder = s,
           Connected(s) =>
             /\ ss = sess[s] /\ cn = conn /\ NoCleanups(cn, s)
             /\ cn[ss.txClient].queue = << >>
             /\ pump[s].pc = "pinLookup"
             /\ ShardOf[pump[s].tid] = sess[s].pinnedIndex
    PROVE  ConnectedInv'
<1> DEFINE c == ss.txClient
           row == RowOf(s, pump[s].tid)
           r == [by |-> "pump", s |-> s, op |-> "DATA", row |-> row]
           dn == Enqueue(cn, c, "pump", s, "DATA", row)
<1>1. Queued(cn, dn, c, r) /\ SameWork(cn, dn)
    BY EnqueueQueues
<1>2. /\ row.s = s /\ row.unit = hist[s].unit /\ row.tx = hist[s].open
      /\ row.tid = pump[s].tid
    BY DEF RowOf
<1>3. r.by = "pump" /\ r.s = s /\ r.op = "DATA" /\ r.row = row
    OBVIOUS
<1>4. Await(s, ss, dn, "txQuery", Null)
    OBVIOUS
<1> HIDE DEF r, dn, row
<1>5. /\ sess'[s] = ss /\ conn' = dn /\ pump'[s].pc = "txQuery"
      /\ \A q \in Session \ {s} : sess'[q] = sess[q] /\ pump'[q] = pump[q]
    BY <1>4, AwaitFields
<1>6. OnlySession(s) /\ hist' = hist /\ SameLedger
    BY <1>5, SessionOnly DEF SameLedger
<1>7. Awaited(r, pump'[s], hist[s])
    BY <1>2, <1>3, <1>5 DEF Awaited, Waiting
<1>8. c \in Client /\ c # Null /\ sess'[s].txClient = c /\ cn[c].holder = s
    BY <1>5, ClientType
<1>9. ASSUME Connected(s)
      PROVE  /\ ShardOf[r.row.tid] = HostOf[c] /\ sess[s].txClient = c
             /\ Unit(sess[s], pump[s], hist[s], up)' /\ PinRight(sess[s], pump[s])'
             /\ TxRight(conn, sess[s], pump[s], hist[s])'
             /\ RowsRight(conn, s, sess[s], pump[s], hist[s])' /\ NotYet(s)'
    <2>1. Live(s) /\ sess[s] = ss /\ pump[s].pc = "pinLookup" /\ cn = conn
        BY <1>9 DEF ConnectedInv, SessionInv
    <2>2. ShardOf[r.row.tid] = HostOf[c]
        BY <1>2, <1>3, <1>8, <1>9, <2>1 DEF Live, PinRight
    <2>3. Unit(sess[s], pump[s], hist[s], up)'
        BY <1>5, <1>6, <1>8, <2>1 DEF Unit, Live
    <2>4. PinRight(sess[s], pump[s])' /\ NotYet(s)'
        BY <1>5, <2>1 DEF PinRight, Live, NotYet
    <2>5. TxRight(conn, sess[s], pump[s], hist[s])'
        BY <1>1, <1>5, <1>6, <1>8, <2>1 DEF TxRight, Live, SameWork
    <2>6. RowsRight(conn, s, sess[s], pump[s], hist[s])'
        BY <1>1, <1>5, <1>6, <2>1 DEF RowsRight, Live, SameWork
    <2> QED
        BY <2>1, <2>2, <2>3, <2>4, <2>5, <2>6
<1>10. Keeps(cn, s, sess'[s]) /\ Queued(cn, conn', c, r) /\ SameWork(cn, conn')
    BY <1>1, <1>5, <1>8 DEF Keeps
<1>11. Connected(s) => NoCleanups(cn, s) /\ cn[c].queue = << >>
    OBVIOUS
<1> HIDE DEF c
<1> QED
    BY <1>3, <1>5, <1>6, <1>7, <1>8, <1>9, <1>10, <1>11, SendsConnected

\* Lookup's answer for a statement of a transaction.
LEMMA PinLookupConnected ==
    ASSUME TypeInv, TypeInv', ConnectedInv, NEW s \in Session, PinLookupReply(s)
    PROVE  ConnectedInv'
<1> DEFINE ss == [sess[s] EXCEPT !.pinnedIndex = ShardOf[pump[s].tid]]
           st == [sess[s] EXCEPT !.txStatus = "T"]
<1>1. /\ pump[s].pc \notin Waiting /\ pump[s].pc = "pinLookup" /\ up
      /\ UNCHANGED <<socket, up, durable, acked>>
    BY ResumeTx DEF PinLookupReply, LookupAwait, Resuming
<1>2. sess[s] \in SessionState
    BY FieldTypes
<1>3. CASE Throw(s, sess[s], conn)
    BY <1>1, <1>3, ThrowPasses, PassesConnected
<1>4. CASE /\ sess[s].pinnedIndex = Null
           /\ Await(s, ss, conn, "pinConnect", pump[s].tid) /\ UNCHANGED outcome
    <2>1. /\ ss.inTx = sess[s].inTx /\ ss.txClient = sess[s].txClient
          /\ ss.backendInTx = sess[s].backendInTx
          /\ ss.pinnedIndex = ShardOf[pump[s].tid]
        BY <1>2 DEF SessionState
    <2> HIDE DEF ss
    <2>2. /\ sess'[s] = ss /\ pump'[s].pc = "pinConnect" /\ conn' = conn
          /\ \A q \in Session \ {s} : sess'[q] = sess[q] /\ pump'[q] = pump[q]
        BY <1>4, AwaitFields
    <2>3. pump'[s].tid = pump[s].tid
        BY <1>4 DEF Await, TypeInv, TypeOK, Pump
    <2>4. Calm(s) /\ hist' = hist
        BY <1>1, <1>4, <2>1, <2>2, SessionOnly, CalmAwaits DEF Calm, SameLedger, ConnectAwait
    <2>5. ASSUME Unit(sess[s], pump[s], hist[s], up), PinRight(sess[s], pump[s])
          PROVE  Unit(sess[s], pump[s], hist[s], up)' /\ PinRight(sess[s], pump[s])'
        <3>1. sess[s].txClient = Null
            <4>1. ASSUME sess[s].txClient \in Client, sess[s].txClient # Null PROVE FALSE
                BY <1>4, <2>5, <4>1, ConstantsAssumption DEF PinRight
            <4> QED
                BY <4>1, FieldTypes
        <3>2. PinRight(sess[s], pump[s])'
            BY <2>1, <2>2, <2>3, <3>1 DEF PinRight
        <3>3. Unit(sess[s], pump[s], hist[s], up)'
            BY <1>1, <2>1, <2>2, <2>4, <2>5, <3>1 DEF Unit
        <3> QED
            BY <3>2, <3>3
    <2>6. Passes(s)
        BY <1>1, <2>4, <2>5 DEF Passes
    <2> QED
        BY <2>6, PassesConnected
<1>5. CASE Done(s, st, conn) /\ UNCHANGED outcome
    <2>1. /\ st.inTx = sess[s].inTx /\ st.txClient = sess[s].txClient
          /\ st.backendInTx = sess[s].backendInTx
          /\ st.pinnedIndex = sess[s].pinnedIndex
        BY <1>2 DEF SessionState
    <2> HIDE DEF st
    <2> QED
        BY <1>1, <1>5, <2>1, DonePasses, PassesConnected
<1>6. CASE /\ sess[s].pinnedIndex = ShardOf[pump[s].tid] /\ sess[s].txClient # Null
           /\ Await(s, sess[s], Enqueue(conn, sess[s].txClient, "pump", s, "DATA",
                                        RowOf(s, pump[s].tid)), "txQuery", Null)
           /\ UNCHANGED outcome
    <2>1. /\ conn \in Conns /\ sess[s].txClient \in Client /\ NoneSent(conn, s)
          /\ conn[sess[s].txClient].holder = s /\ OthersInPlace(conn, s)
          /\ Connected(s)
               => NoCleanups(conn, s) /\ conn[sess[s].txClient].queue = << >>
        BY <1>1, <1>6, CalmSession DEF Keeps
    <2>2. SameWork(conn, conn)
        BY DEF SameWork
    <2> QED
        BY <1>1, <1>6, <2>1, <2>2, PinnedSends
<1> QED
    BY <1>3, <1>4, <1>5, <1>6 DEF PinLookupReply, Pinned

\* A client that s gets from the pool.
LEMMA TakesFree ==
    ASSUME TypeInv, ConnectedInv, NEW s \in Session, pump[s].pc \notin Waiting,
           NEW c \in Client, Free(s, c), NEW cn, cn = Hold(conn, c, s)
    PROVE  /\ cn \in Conns /\ SameWork(conn, cn) /\ cn[c].holder = s
           /\ OthersInPlace(cn, s) /\ NoneSent(cn, s)
           /\ Keeps(cn, s, sess[s]) /\ sess[s].txClient # c /\ c # Null
           /\ Connected(s) => NoCleanups(cn, s)
<1>1. conn[c].holder = Null /\ s # Null /\ c # Null
    BY FieldTypes, ClientType DEF Free
<1>2. /\ conn \in Conns /\ NoneSent(conn, s) /\ Keeps(conn, s, sess[s])
      /\ OthersInPlace(conn, s) /\ sess[s].txClient \in Client \cup {Null}
      /\ Connected(s) => NoCleanups(conn, s)
    BY CalmSession
<1>3. Handed(conn, cn, c) /\ SameWork(conn, cn) /\ cn[c].holder = s
    BY <1>2, HolderHands
<1>4. cn \in Conns
    BY <1>2, HoldType DEF Hold
<1>5. OthersInPlace(cn, s)
    BY <1>1, <1>2, <1>3, OthersHand
<1>6. \A d \in Client : cn[d].queue = conn[d].queue
    BY <1>3 DEF Handed
<1>7. NoneSent(cn, s) /\ (Connected(s) => NoCleanups(cn, s))
    BY <1>2, <1>6 DEF NoneSent, Sent, NoCleanups
<1>8. Keeps(cn, s, sess[s]) /\ sess[s].txClient # c
    BY <1>1, <1>2, <1>3 DEF Keeps, Handed
<1> QED
    BY <1>1, <1>3, <1>4, <1>5, <1>7, <1>8

\* A session that is no longer connected goes on with client c, and queues nothing.
LEMMA ClosedRests ==
    ASSUME TypeInv, TypeInv', ConnectedInv, NEW s \in Session, OnlySession(s),
           hist'[s].unit = hist[s].unit, hist'[s].open => hist[s].open,
           durable' = durable, acked' = acked, ended' = ended,
           UNCHANGED <<socket, up>>, ~Connected(s),
           SameWork(conn, conn'), OthersInPlace(conn', s), NoneSent(conn', s),
           Keeps(conn', s, sess'[s])
    PROVE  ConnectedInv'
<1>1. NoLostWork' /\ \A q \in Session \ {s} : SessionInv(q)'
    BY OthersSafe
<1>2. ~Connected(s)' /\ EndedPast(s) /\ CommitKept(s)
    BY DEF ConnectedInv, SessionInv, Connected
<1>3. sess'[s].txClient \in Client \cup {Null}
    BY DEF TypeInv, TypeOK, SessionState
<1>4. InPlace(conn, s, sess[s], pump[s], hist[s], Connected(s))'
    BY <1>2, <1>3, CalmInPlace
<1>5. EndedPast(s)' /\ CommitKept(s)'
    BY <1>2, PastStep
<1> QED
    BY <1>1, <1>2, <1>4, <1>5, ActingSession

\* The transaction's client has come, and is sent BEGIN.
LEMMA SendsBegin ==
    ASSUME TypeInv, TypeInv', ConnectedInv, NEW s \in Session, NEW c \in Client,
           pump[s].pc = "pinConnect", up, UNCHANGED <<socket, up, durable, acked>>,
           Free(s, c), NEW ss, ss = [sess[s] EXCEPT !.txClient = c],
           Await(s, ss, Enqueue([conn EXCEPT ![c].holder = s], c, "pump", s, "BEGIN",
                                Null), "pinBegin", pump[s].tid),
           UNCHANGED outcome
    PROVE  ConnectedInv'
<1> DEFINE cn == [conn EXCEPT ![c].holder = s]
           r == [by |-> "pump", s |-> s, op |-> "BEGIN", row |-> Null]
           dn == Enqueue(cn, c, "pump", s, "BEGIN", Null)
<1>1. pump[s].pc \notin Waiting
    BY DEF Waiting
<1>2. cn = Hold(conn, c, s)
    BY DEF Hold
<1>3. Await(s, ss, dn, "pinBegin", pump[s].tid)
    OBVIOUS
<1> HIDE DEF cn
<1>4. /\ cn \in Conns /\ SameWork(conn, cn) /\ cn[c].holder = s
      /\ OthersInPlace(cn, s) /\ NoneSent(cn, s) /\ c # Null
      /\ Connected(s) => NoCleanups(cn, s)
    BY <1>1, <1>2, TakesFree
<1>5. Queued(cn, dn, c, r) /\ SameWork(cn, dn)
    BY <1>4, EnqueueQueues
<1>6. r.by = "pump" /\ r.s = s /\ r.op = "BEGIN"
    OBVIOUS
<1> HIDE DEF r, dn
<1>7. /\ sess'[s] = ss /\ conn' = dn /\ pump'[s].pc = "pinBegin"
      /\ \A q \in Session \ {s} : sess'[q] = sess[q] /\ pump'[q] = pump[q]
    BY <1>3, AwaitFields
<1>8. pump'[s].tid = pump[s].tid
    BY <1>3 DEF Await, TypeInv, TypeOK, Pump
<1>9. OnlySession(s) /\ hist' = hist /\ SameLedger
    BY <1>7, SessionOnly DEF SameLedger
<1>10. /\ ss.txClient = c /\ ss.inTx = sess[s].inTx
       /\ ss.backendInTx = sess[s].backendInTx /\ ss.pinnedIndex = sess[s].pinnedIndex
    BY FieldTypes DEF SessionState
<1>11. Awaited(r, pump'[s], hist[s])
    BY <1>6, <1>7 DEF Awaited, Waiting
<1>12. ASSUME Connected(s)
       PROVE  /\ sess[s].txClient = Null
              /\ Unit(sess[s], pump[s], hist[s], up)' /\ PinRight(sess[s], pump[s])'
              /\ TxRight(conn, sess[s], pump[s], hist[s])'
              /\ RowsRight(conn, s, sess[s], pump[s], hist[s])' /\ NotYet(s)'
    <2>1. Live(s)
        BY <1>12 DEF ConnectedInv, SessionInv
    <2>2. sess[s].txClient = Null /\ sess[s].pinnedIndex = ShardOf[pump[s].tid]
        BY <2>1 DEF Live, PinRight
    <2>3. sess[s].inTx /\ hist[s].open
        BY <2>1 DEF Live, Unit
    <2>4. Unit(sess[s], pump[s], hist[s], up)'
        BY <1>4, <1>7, <1>9, <1>10, <2>3 DEF Unit
    <2>5. PinRight(sess[s], pump[s])'
        BY <1>7, <1>8, <1>10, <2>2 DEF PinRight, Free
    <2>6. TxRight(conn, sess[s], pump[s], hist[s])'
        BY <1>7 DEF TxRight
    <2>7. RowsRight(conn, s, sess[s], pump[s], hist[s])'
        <3>1. \A d \in Client : \A x \in conn[d].work : x.s = s => ~x.tx
            BY <2>1, <2>2, ClientType DEF Live, RowsRight
        <3>2. \A d \in Client : conn'[d].work = conn[d].work
            BY <1>4, <1>5, <1>7 DEF SameWork
        <3> QED
            BY <2>1, <3>1, <3>2 DEF Live, RowsRight
    <2>8. NotYet(s)'
        <3>1. AckedHeld(s)
            BY <2>1 DEF Live, Ledger
        <3> QED
            BY <1>9, <2>2, <2>3, <3>1 DEF NotYet, AckedHeld, Current, OwnRow, SameLedger
    <2> QED
        BY <2>2, <2>4, <2>5, <2>6, <2>7, <2>8
<1>13. /\ Keeps(cn, s, sess'[s]) /\ Queued(cn, conn', c, r) /\ SameWork(cn, conn')
       /\ sess'[s].txClient = c
    BY <1>4, <1>5, <1>7, <1>10 DEF Keeps
<1> QED
    BY <1>4, <1>6, <1>7, <1>9, <1>11, <1>12, <1>13, SendsConnected

\* pools.connect() of ensurePinned(): a session that cleanup() has reset in the meantime
\* gets a client all the same.
LEMMA PinConnectedConnected ==
    ASSUME TypeInv, TypeInv', ConnectedInv, NEW s \in Session, PinConnected(s)
    PROVE  ConnectedInv'
<1>1. /\ pump[s].pc = "pinConnect" /\ up /\ pump[s].pc \notin Waiting
      /\ UNCHANGED <<socket, up, durable, acked>>
    BY ResumeTx DEF PinConnected, ConnectAwait, Resuming, Waiting
<1>2. PICK c \in Client :
        /\ Free(s, c)
        /\ LET ss == [sess[s] EXCEPT !.txClient = c]
               cn == [conn EXCEPT ![c].holder = s]
           IN \/ /\ Await(s, ss, Enqueue(cn, c, "pump", s, "BEGIN", Null),
                          "pinBegin", pump[s].tid)
                 /\ UNCHANGED outcome
              \/ /\ ~(ss.inTx /\ ~ss.backendInTx)
                 /\ Pinned(s, ss, cn)
    BY DEF PinConnected
<1> DEFINE ss == [sess[s] EXCEPT !.txClient = c]
           cn == [conn EXCEPT ![c].holder = s]
<1>3. CASE /\ Await(s, ss, Enqueue(cn, c, "pump", s, "BEGIN", Null),
                    "pinBegin", pump[s].tid)
           /\ UNCHANGED outcome
    BY <1>1, <1>2, <1>3, SendsBegin
<1>4. CASE ~(ss.inTx /\ ~ss.backendInTx) /\ Pinned(s, ss, cn)
    <2>1. /\ ss.txClient = c /\ ss.inTx = sess[s].inTx
          /\ ss.backendInTx = sess[s].backendInTx /\ ss \in SessionState
        BY FieldTypes DEF SessionState
    <2>2. ~Connected(s)
        <3>1. ASSUME Live(s) PROVE sess[s].inTx /\ ~sess[s].backendInTx
            BY <1>1, <3>1 DEF Live, Unit, PinRight
        <3> QED
            BY <1>4, <2>1, <3>1 DEF ConnectedInv, SessionInv
    <2>3. cn = Hold(conn, c, s)
        BY DEF Hold
    <2> HIDE DEF ss, cn
    <2>4. /\ cn \in Conns /\ SameWork(conn, cn) /\ cn[c].holder = s
          /\ OthersInPlace(cn, s) /\ NoneSent(cn, s) /\ c # Null
        BY <1>1, <1>2, <2>3, TakesFree
    <2>5. CASE /\ Await(s, ss, Enqueue(cn, ss.txClient, "pump", s, "DATA",
                                       RowOf(s, pump[s].tid)), "txQuery", Null)
               /\ UNCHANGED outcome
        BY <1>1, <2>1, <2>2, <2>4, <2>5, PinnedSends
    <2>6. CASE Done(s, [ss EXCEPT !.txStatus = "T"], cn) /\ UNCHANGED outcome
        <3> DEFINE st == [ss EXCEPT !.txStatus = "T"]
        <3>1. st.txClient = c /\ Done(s, st, cn)
            BY <2>1, <2>6 DEF SessionState
        <3> HIDE DEF st
        <3>2. /\ sess'[s] = st /\ conn' = cn
              /\ \A q \in Session \ {s} : sess'[q] = sess[q] /\ pump'[q] = pump[q]
            BY <3>1, DoneFields
        <3>3. OnlySession(s) /\ hist' = hist /\ ended' = ended
            BY <2>6, <3>2, SessionOnly
        <3>4. Keeps(conn', s, sess'[s])
            BY <2>4, <3>1, <3>2 DEF Keeps
        <3> QED
            BY <1>1, <2>2, <2>4, <3>2, <3>3, <3>4, ClosedRests
    <2> QED
        BY <1>4, <2>1, <2>4, <2>5, <2>6 DEF Pinned
<1> QED
    BY <1>2, <1>3, <1>4

\* pools.query(): a client has come for one statement.
LEMMA AutoConnectedConnected ==
    ASSUME TypeInv, TypeInv', ConnectedInv, NEW s \in Session, AutoConnected(s)
    PROVE  ConnectedInv'
<1>1. /\ pump[s].pc = "autoConnect" /\ up /\ pump[s].pc \notin Waiting
      /\ UNCHANGED <<socket, up, durable, acked>>
    BY ResumeTx DEF AutoConnected, ConnectAwait, Resuming, Waiting
<1> DEFINE row == RowOf(s, pump[s].tid)
<1>2. PICK c \in Client :
        /\ Free(s, c)
        /\ Await(s, sess[s], Enqueue([conn EXCEPT ![c].holder = s], c, "pump", s,
                                     "DATA", row), "autoQuery", Null)
    BY DEF AutoConnected
<1> DEFINE cn == [conn EXCEPT ![c].holder = s]
           r == [by |-> "pump", s |-> s, op |-> "DATA", row |-> row]
           dn == Enqueue(cn, c, "pump", s, "DATA", row)
<1>3. cn = Hold(conn, c, s) /\ Await(s, sess[s], dn, "autoQuery", Null)
    BY <1>2 DEF Hold
<1>4. /\ row.s = s /\ row.unit = hist[s].unit /\ row.tx = hist[s].open
      /\ row.tid = pump[s].tid
    BY DEF RowOf
<1> HIDE DEF cn
<1>5. /\ cn \in Conns /\ SameWork(conn, cn) /\ cn[c].holder = s
      /\ OthersInPlace(cn, s) /\ NoneSent(cn, s)
      /\ Keeps(cn, s, sess[s]) /\ sess[s].txClient # c /\ c # Null
      /\ Connected(s) => NoCleanups(cn, s)
    BY <1>1, <1>2, <1>3, TakesFree
<1>6. Queued(cn, dn, c, r) /\ SameWork(cn, dn)
    BY <1>5, EnqueueQueues
<1>7. r.by = "pump" /\ r.s = s /\ r.op = "DATA" /\ r.row = row
    OBVIOUS
<1> HIDE DEF r, dn, row
<1>8. /\ sess'[s] = sess[s] /\ conn' = dn /\ pump'[s].pc = "autoQuery"
      /\ \A q \in Session \ {s} : sess'[q] = sess[q] /\ pump'[q] = pump[q]
    BY <1>3, AwaitFields
<1>9. OnlySession(s) /\ hist' = hist /\ SameLedger
    BY <1>1, <1>8, SessionOnly DEF SameLedger, AutoConnected
<1>10. Awaited(r, pump'[s], hist[s])
    BY <1>4, <1>7, <1>8 DEF Awaited, Waiting
<1>11. ShardOf[r.row.tid] = HostOf[c]
    BY <1>2, <1>4, <1>7 DEF Free
<1>12. ASSUME Connected(s)
       PROVE  /\ sess[s].txClient = Null
              /\ Unit(sess[s], pump[s], hist[s], up)' /\ PinRight(sess[s], pump[s])'
              /\ TxRight(conn, sess[s], pump[s], hist[s])'
              /\ RowsRight(conn, s, sess[s], pump[s], hist[s])' /\ NotYet(s)'
    <2>1. Live(s)
        BY <1>12 DEF ConnectedInv, SessionInv
    <2>2. ~sess[s].inTx /\ sess[s].txClient = Null
        BY <1>1, <2>1 DEF Live, Unit
    <2>3. Unit(sess[s], pump[s], hist[s], up)'
        BY <1>1, <1>8, <1>9, <2>1, <2>2 DEF Unit, Live
    <2>4. PinRight(sess[s], pump[s])' /\ TxRight(conn, sess[s], pump[s], hist[s])'
        BY <1>8, <2>2 DEF PinRight, TxRight
    <2>5. RowsRight(conn, s, sess[s], pump[s], hist[s])'
        <3>1. \A d \in Client : \A x \in conn[d].work : x.s = s => ~x.tx
            BY <2>1, <2>2, ClientType DEF Live, RowsRight
        <3>2. \A d \in Client : conn'[d].work = conn[d].work
            BY <1>5, <1>6, <1>8 DEF SameWork
        <3> QED
            BY <2>1, <3>1, <3>2 DEF Live, RowsRight
    <2>6. NotYet(s)'
        BY <1>8 DEF NotYet
    <2> QED
        BY <2>2, <2>3, <2>4, <2>5, <2>6
<1>13. /\ Keeps(cn, s, sess'[s]) /\ Queued(cn, conn', c, r) /\ SameWork(cn, conn')
       /\ sess'[s].txClient # c
    BY <1>5, <1>6, <1>8
<1> QED
    BY <1>1, <1>5, <1>7, <1>8, <1>9, <1>10, <1>11, <1>12, <1>13, SendsConnected
---------------------------------------------------------------------------
(***************************************************************************)
(* The backends.                                                           *)
(***************************************************************************)
\* Client c executes request r, of session s, and is left as in cn.
Executes(s, c, r, ok, cn) ==
    /\ conn[c].queue # << >> /\ r = Head(conn[c].queue) /\ cn = ServedConn(c, ok)
    /\ up /\ r.s = s /\ MayAnswer(conn[c], r, ok)
    /\ durable' = [durable EXCEPT ![HostOf[c]] = @ \cup RowsCommitted(conn[c], r, ok)]

\* What becomes of the clients, the rows and the sessions.
Executed(s, c, r, ok, cn) ==
    /\ cn \in Conns /\ r \in Request
    /\ cn[c].tx = TxAfter(conn[c], r, ok) /\ cn[c].work = WorkAfter(conn[c], r, ok)
    /\ cn[c].holder = conn[c].holder
    /\ \A d \in Client \ {c} : cn[d] = conn[d]
    /\ \A h \in Shard : durable[h] \subseteq durable'[h]
    /\ \A h \in Shard : \A x \in durable'[h] :
         x \in durable[h] \/ (h = HostOf[c] /\ x \in RowsCommitted(conn[c], r, ok))
    /\ Popped(conn, cn, c)
    /\ InPlace(cn, s, sess[s], pump[s], hist[s], Connected(s))
    /\ OthersInPlace(cn, s)

LEMMA ExecutedFacts ==
    ASSUME TypeInv, ConnectedInv, NEW s \in Session, NEW c \in Client,
           NEW ok \in BOOLEAN, NEW r, NEW cn, Executes(s, c, r, ok, cn)
    PROVE  Executed(s, c, r, ok, cn)
<1>1. /\ conn[c].queue # << >> /\ r = Head(conn[c].queue) /\ cn = ServedConn(c, ok)
      /\ durable' = [durable EXCEPT ![HostOf[c]] = @ \cup RowsCommitted(conn[c], r, ok)]
    BY DEF Executes
<1>2. /\ cn \in Conns /\ cn[c].holder = conn[c].holder
      /\ cn[c].queue = Tail(conn[c].queue)
      /\ cn[c].tx = TxAfter(conn[c], r, ok)
      /\ cn[c].work = WorkAfter(conn[c], r, ok)
      /\ \A d \in Client \ {c} : cn[d] = conn[d]
      /\ r \in Request
    BY <1>1, ServedFields
<1>3. Popped(conn, cn, c)
    BY <1>1, <1>2 DEF Popped
<1>4. conn \in Conns /\ sess[s].txClient \in Client \cup {Null}
    BY FieldTypes
<1>5. InPlace(conn, s, sess[s], pump[s], hist[s], Connected(s))
    BY DEF ConnectedInv, SessionInv
<1>6. InPlace(cn, s, sess[s], pump[s], hist[s], Connected(s))
    BY <1>3, <1>4, <1>5, PopInPlace
<1>7. OthersInPlace(conn, s)
    BY DEF ConnectedInv, SessionInv, OthersInPlace
<1>8. OthersInPlace(cn, s)
    BY <1>3, <1>4, <1>7, OthersPop
<1>9. /\ \A h \in Shard : durable[h] \subseteq durable'[h]
      /\ \A h \in Shard : \A x \in durable'[h] :
           x \in durable[h] \/ (h = HostOf[c] /\ x \in RowsCommitted(conn[c], r, ok))
    BY <1>1, ConstantsAssumption DEF TypeInv, TypeOK
<1> QED
    BY <1>2, <1>3, <1>6, <1>8, <1>9 DEF Executed

\* The request that was executed is the one that the pump of s awaits.
Answers(s, c, r, cn) ==
    /\ NoneSent(cn, s) /\ Awaited(r, pump[s], hist[s])
    /\ Keeps(cn, s, sess[s])
    /\ pump[s].pc = "autoQuery" => conn[c].holder = s /\ sess[s].txClient # c
    /\ Connected(s) =>
         /\ cn[c].queue = << >> /\ NoCleanups(cn, s) /\ Live(s)
         /\ pump[s].pc # "autoQuery" => sess[s].txClient = c
         /\ r.op = "DATA" => ShardOf[r.row.tid] = HostOf[c]

LEMMA AnswersFacts ==
    ASSUME TypeInv, ConnectedInv, NEW s \in Session, NEW c \in Client,
           NEW ok \in BOOLEAN, NEW r, NEW cn, Executes(s, c, r, ok, cn)
    PROVE  /\ r.by = "pump" => Answers(s, c, r, cn)
           /\ r.by = "cleanup" => ~Connected(s)
<1>1. /\ conn[c].queue # << >> /\ r = Head(conn[c].queue) /\ r.s = s
    BY DEF Executes
<1>2. Executed(s, c, r, ok, cn)
    BY ExecutedFacts
<1>3. conn[c].queue \in Seq(Request) /\ conn \in Conns
    BY FieldTypes, ClientType
<1>4. /\ r = conn[c].queue[1] /\ 1 \in 1..Len(conn[c].queue)
      /\ Len(conn[c].queue) \in Nat
      /\ Len(conn[c].queue) = 1 => Tail(conn[c].queue) = << >>
    <2> DEFINE k == conn[c].queue
    <2>1. k \in Seq(Request) /\ k # << >>
        BY <1>1, <1>3
    <2> HIDE DEF k
    <2>2. /\ Head(k) = k[1] /\ 1 \in 1..Len(k) /\ Len(k) \in Nat
        BY <2>1
    <2>3. Tail(k) \in Seq(Request) /\ Len(Tail(k)) = Len(k) - 1
        BY <2>1
    <2>4. Len(k) = 1 => Tail(k) = << >>
        <3> DEFINE t == Tail(k)
        <3>1. t \in Seq(Request) /\ (Len(k) = 1 => Len(t) = 0)
            BY <2>2, <2>3
        <3> HIDE DEF t
        <3>2. Len(k) = 1 => t = << >>
            BY <3>1, EmptySeq
        <3> QED
            BY <3>2 DEF t
    <2> QED
        BY <1>1, <2>2, <2>4 DEF k
<1>5. /\ InPlace(conn, s, sess[s], pump[s], hist[s], Connected(s))
      /\ Connected(s) => Live(s)
    BY DEF ConnectedInv, SessionInv
<1>6. ASSUME r.by = "pump" PROVE Answers(s, c, r, cn)
    <2>1. Sent(conn, s, c, 1)
        BY <1>1, <1>4, <1>6 DEF Sent
    <2>2. NoneSent(cn, s)
        BY <1>2, <1>3, <1>5, <2>1, PoppedWasAll DEF Executed, InPlace
    <2>3. /\ Awaited(r, pump[s], hist[s])
          /\ pump[s].pc = "autoQuery" => conn[c].holder = s /\ sess[s].txClient # c
          /\ Connected(s) => /\ 1 = Len(conn[c].queue)
                             /\ pump[s].pc # "autoQuery" => sess[s].txClient = c
                             /\ r.op = "DATA" => ShardOf[r.row.tid] = HostOf[c]
        BY <1>4, <1>5, <2>1 DEF InPlace, SentRight
    <2>4. Keeps(cn, s, sess[s]) /\ (Connected(s) => NoCleanups(cn, s))
        BY <1>2 DEF Executed, InPlace
    <2>5. Connected(s) => cn[c].queue = << >>
        BY <1>2, <1>4, <2>3 DEF Executed, Popped
    <2> QED
        BY <1>5, <2>2, <2>3, <2>4, <2>5 DEF Answers
<1>7. ASSUME r.by = "cleanup", Connected(s) PROVE FALSE
    <2>1. NoCleanups(conn, s)
        BY <1>5, <1>7 DEF InPlace
    <2> QED
        BY <1>1, <1>4, <1>7, <2>1 DEF NoCleanups
<1> QED
    BY <1>6, <1>7

\* A data statement is of the session that has sent it.
LEMMA DataOfSender ==
    ASSUME TypeInv, ConnectedInv, NEW s \in Session, NEW c \in Client,
           NEW ok \in BOOLEAN, NEW r, NEW cn, Executes(s, c, r, ok, cn), r.op = "DATA"
    PROVE  /\ r.row \in Row /\ r.row.s = s /\ r.row.unit = hist[s].unit
           /\ r.row.tx = hist[s].open
<1>0. Executed(s, c, r, ok, cn)
    BY ExecutedFacts
<1>1. r \in Request /\ r.s = s
    BY <1>0 DEF Executed, Executes
<1>2. r.by = "pump" /\ r.row \in Row
    BY <1>1 DEF Request
<1> QED
    BY <1>1, <1>2, AnswersFacts DEF Answers, Awaited

\* Rows that a request adds to a client or to its shard.
LEMMA RowsFrom ==
    ASSUME TypeInv, NEW c \in Client, NEW r, NEW ok \in BOOLEAN
    PROVE  /\ \A x \in WorkAfter(conn[c], r, ok) :
                x \in conn[c].work \/ (r.op = "DATA" /\ x = r.row)
           /\ \A x \in RowsCommitted(conn[c], r, ok) :
                x \in conn[c].work \/ (r.op = "DATA" /\ x = r.row)
BY DEF WorkAfter, RowsCommitted

\* Only an open transaction has rows, also after a request.
LEMMA NoLostWorkAfter ==
    ASSUME ConnectedInv, NEW s, NEW c \in Client, NEW r, NEW ok \in BOOLEAN, NEW cn,
           Executed(s, c, r, ok, cn), SameWork(cn, conn')
    PROVE  NoLostWork'
<1>1. cn[c].tx # "open" => cn[c].work = {}
    <2>1. conn[c].tx # "open" => conn[c].work = {}
        BY DEF ConnectedInv, NoLostWork
    <2> QED
        BY <2>1 DEF Executed, TxAfter, WorkAfter, EndsTx
<1>2. \A d \in Client \ {c} : cn[d].tx # "open" => cn[d].work = {}
    BY DEF ConnectedInv, NoLostWork, Executed
<1> QED
    BY <1>1, <1>2 DEF NoLostWork, SameWork

\* The other sessions: those that are connected have no request before this one on the
\* client of their transaction, unless their BEGIN is still to come.
LEMMA OthersServed ==
    ASSUME TypeInv, TypeInv', ConnectedInv, NEW s \in Session, NEW c \in Client,
           NEW ok \in BOOLEAN, NEW r, NEW cn, Executes(s, c, r, ok, cn),
           OnlySession(s), up' = up, \A q \in Session \ {s} : socket'[q] = socket[q],
           SameWork(cn, conn'), OthersInPlace(conn', s),
           \A x \in acked' : x \in acked \/ (r.op = "DATA" /\ x = r.row),
           ended \subseteq ended', \A e \in ended' : e.s = s \/ e \in ended
    PROVE  NoLostWork' /\ \A q \in Session \ {s} : SessionInv(q)'
<1>1. Executed(s, c, r, ok, cn)
    BY ExecutedFacts
<1>2. NoLostWork'
    BY <1>1, NoLostWorkAfter
<1>3. ASSUME NEW q \in Session, q # s PROVE SessionInv(q)'
    <2>1. SessionInv(q)
        BY DEF ConnectedInv
    <2>2. r.op = "DATA" => r.row.s = s
        BY DataOfSender
    <2>3. Untouched(q)
        <3>1. InPlace(conn', q, sess[q], pump[q], hist[q], Connected(q))
            BY <1>3 DEF OthersInPlace
        <3> QED
            BY <1>1, <1>3, <2>2, <3>1 DEF Untouched, OnlySession, Executed
    <2>4. ASSUME Connected(q) PROVE Unharmed(q)
        <3>1. /\ TxRight(conn, sess[q], pump[q], hist[q])
              /\ RowsRight(conn, q, sess[q], pump[q], hist[q])
              /\ OnlyOwn(conn, q, sess[q], pump[q])
            BY <2>1, <2>4 DEF SessionInv, Live, InPlace
        <3>2. sess[q].txClient = c => pump[q].pc = "pinBegin"
            <4>1. ASSUME OnlyOwn(conn, q, sess[q], pump[q]), sess[q].txClient = c,
                         pump[q].pc # "pinBegin"
                  PROVE  FALSE
                <5>1. conn[c].queue \in Seq(Request) /\ conn[c].queue # << >> /\ c # Null
                    BY ClientType DEF Executes
                <5>2. 1 \in 1..Len(conn[c].queue) /\ conn[c].queue[1] = Head(conn[c].queue)
                    BY <5>1
                <5>3. Sent(conn, q, c, 1)
                    BY <4>1, <5>1, <5>2 DEF OnlyOwn
                <5> QED
                    BY <1>3, <5>2, <5>3 DEF Sent, Executes
            <4> QED
                BY <3>1, <4>1
        <3>3. sess[q].txClient \in Client \cup {Null}
            BY FieldTypes
        <3>4. \A d \in Client \ {c} : conn'[d].tx = conn[d].tx /\ conn'[d].work = conn[d].work
            BY <1>1 DEF Executed, SameWork
        <3>5. TxRight(conn', sess[q], pump[q], hist[q])
            BY <3>1, <3>2, <3>3, <3>4 DEF TxRight
        <3>6. \A x \in conn'[c].work : x.s = q => x \in conn[c].work
            BY <1>1, <1>3, <2>2, RowsFrom DEF Executed, SameWork
        <3>7. RowsRight(conn', q, sess[q], pump[q], hist[q])
            BY <3>1, <3>4, <3>6 DEF RowsRight
        <3>8. \A x \in RowsCommitted(conn[c], r, ok) : x.s = q => x \in conn[c].work
            BY <1>3, <2>2, RowsFrom
        <3>9. \A x \in conn[c].work : x.s = q => ~x.tx /\ ShardOf[x.tid] = HostOf[c]
            BY <3>1, <3>2 DEF RowsRight
        <3>10. \A h \in Shard : \A x \in durable'[h] : x.s = q =>
                 x \in durable[h] \/ (~x.tx /\ ShardOf[x.tid] = h)
            BY <1>1, <3>8, <3>9 DEF Executed
        <3> QED
            BY <3>2, <3>3, <3>4, <3>5, <3>7, <3>10 DEF Unharmed
    <2> QED
        BY <2>1, <2>3, <2>4, UntouchedInv
<1> QED
    BY <1>2, <1>3

\* The process ends, and with it every socket.
LEMMA CrashConnected ==
    ASSUME TypeInv, TypeInv', ConnectedInv, Crash, hist' = hist, acked' = acked,
           ended' = ended, \A h \in Shard : durable[h] \subseteq durable'[h]
    PROVE  ConnectedInv'
<1>1. /\ \A c \in Client : conn'[c] = IdleConn
      /\ \A q \in Session : /\ sess'[q] = NewSession /\ pump'[q] = IdlePump
                            /\ socket'[q] = "closed"
    BY DEF Crash
<1>2. NoLostWork'
    BY <1>1 DEF NoLostWork, IdleConn
<1>3. ASSUME NEW q \in Session PROVE SessionInv(q)'
    <2>1. ~Connected(q)' /\ sess'[q].txClient = Null
        BY <1>1 DEF Connected, NewSession
    <2>2. NoneSent(conn', q)
        <3>1. \A c \in Client : conn'[c].queue = << >>
            BY <1>1 DEF IdleConn
        <3>2. \A i \in Nat : i \notin 1..Len(<< >>)
            OBVIOUS
        <3> QED
            BY <3>1, <3>2 DEF NoneSent, Sent
    <2>3. InPlace(conn, q, sess[q], pump[q], hist[q], Connected(q))'
        BY <2>1, <2>2, CalmInPlace DEF Keeps
    <2>4. EndedPast(q)' /\ CommitKept(q)'
        BY PastStep DEF ConnectedInv, SessionInv
    <2> QED
        BY <2>1, <2>3, <2>4 DEF SessionInv
<1> QED
    BY <1>2, <1>3 DEF ConnectedInv

\* A session that is no longer connected gives its client back in the middle of whatever
\* its pump awaits.
LEMMA ReleaseInPlace ==
    ASSUME NEW cn, NEW dn, NEW s, NEW ss, NEW p, NEW h, NEW on,
           ss.txClient \in Client, Handed(cn, dn, ss.txClient),
           InPlace(cn, s, ss, p, h, on),
           NEW st, st.txClient = Null, NEW off, ~off
    PROVE  InPlace(dn, s, st, p, h, off)
<1> DEFINE c == ss.txClient
<1>1. /\ \A d \in Client : dn[d].queue = cn[d].queue
      /\ \A d \in Client : d # c => dn[d].holder = cn[d].holder
    BY DEF Handed
<1>2. \A d \in Client, i \in Nat : Sent(dn, s, d, i) <=> Sent(cn, s, d, i)
    BY <1>1 DEF Sent
<1>3. Keeps(dn, s, st)
    BY DEF Keeps
<1>4. SentOnce(dn, s)
    BY <1>2 DEF InPlace, SentOnce
<1>5. SentRight(dn, s, st, p, h, off)
    <2> SUFFICES ASSUME NEW d \in Client, NEW i \in Nat, Sent(dn, s, d, i)
                 PROVE  /\ Awaited(dn[d].queue[i], p, h)
                        /\ p.pc = "autoQuery" => dn[d].holder = s /\ st.txClient # d
        BY DEF SentRight
    <2>1. /\ Awaited(cn[d].queue[i], p, h)
          /\ p.pc = "autoQuery" => cn[d].holder = s /\ c # d
        BY <1>2 DEF InPlace, SentRight
    <2> QED
        BY <1>1, <2>1, ConstantsAssumption
<1> QED
    BY <1>3, <1>4, <1>5 DEF InPlace

\* The pump of s is answered, runs on or idles, and keeps its client or gives it back.
LEMMA AnsweredConnected ==
    ASSUME TypeInv, TypeInv', ConnectedInv, NEW s \in Session, NEW c \in Client,
           NEW ok \in BOOLEAN, NEW r, NEW cn, Executes(s, c, r, ok, cn), r.by = "pump",
           OnlySession(s), UNCHANGED <<socket, up>>,
           acked' = IF r.op = "DATA" /\ ok THEN acked \cup {r.row} ELSE acked,
           \/ conn' = cn
           \/ \E d \in Client : /\ conn' = Release(cn, d) /\ cn[d].holder = s
                                /\ sess'[s].txClient # d,
           sess'[s].txClient \in {sess[s].txClient, Null},
           pump'[s].pc \in {"run", "idle"},
           hist'[s].unit = hist[s].unit, hist'[s].open => hist[s].open,
           ended \subseteq ended',
           \A e \in ended' : e \in ended \/ /\ e.s = s /\ e.unit = hist[s].unit
                                            /\ ~hist'[s].open
                                            /\ e.told => Connected(s),
           Connected(s) => Live(s)'
    PROVE  ConnectedInv'
<1>1. Executed(s, c, r, ok, cn) /\ Answers(s, c, r, cn)
    BY ExecutedFacts, AnswersFacts
<1>2. /\ cn \in Conns /\ OthersInPlace(cn, s) /\ NoneSent(cn, s) /\ Keeps(cn, s, sess[s])
      /\ Connected(s) => NoCleanups(cn, s)
    BY <1>1 DEF Executed, Answers
<1>3. /\ SameWork(cn, conn') /\ OthersInPlace(conn', s) /\ Keeps(conn', s, sess'[s])
      /\ \A d \in Client : conn'[d].queue = cn[d].queue
    <2>1. CASE conn' = cn
        BY <1>2, <2>1 DEF SameWork, Keeps
    <2>2. ASSUME NEW d \in Client, conn' = Release(cn, d), cn[d].holder = s,
                 sess'[s].txClient # d
          PROVE  /\ SameWork(cn, conn') /\ OthersInPlace(conn', s)
                 /\ Keeps(conn', s, sess'[s])
                 /\ \A b \in Client : conn'[b].queue = cn[b].queue
        <3>1. conn' = Hold(cn, d, Null)
            BY <2>2 DEF Hold, Release
        <3>2. Handed(cn, conn', d) /\ SameWork(cn, conn')
            BY <1>2, <3>1, HolderHands
        <3>3. OthersInPlace(conn', s)
            BY <1>2, <2>2, <3>2, OthersHand
        <3>4. sess'[s].txClient \in Client \cup {Null}
            BY DEF TypeInv, TypeOK, SessionState
        <3>5. Keeps(conn', s, sess'[s])
            BY <1>2, <2>2, <3>2, <3>4 DEF Keeps, Handed
        <3> QED
            BY <3>2, <3>3, <3>5 DEF Handed
    <2> QED
        BY <2>1, <2>2
<1>4. NoneSent(conn', s) /\ (Connected(s) => NoCleanups(conn', s))
    BY <1>2, <1>3 DEF NoneSent, Sent, NoCleanups
<1>5. \A x \in acked' : x \in acked \/ (r.op = "DATA" /\ x = r.row)
    OBVIOUS
<1>6. NoLostWork' /\ \A q \in Session \ {s} : SessionInv(q)'
    <2>1. \A e \in ended' : e.s = s \/ e \in ended
        OBVIOUS
    <2> QED
        BY <1>3, <1>5, <2>1, OthersServed
<1>7. Connected(s)' <=> Connected(s)
    BY DEF Connected
<1>8. ASSUME Connected(s), sess'[s].txClient # Null
      PROVE  conn'[sess'[s].txClient].queue = << >>
    <2>1. Live(s) /\ cn[c].queue = << >>
        BY <1>1, <1>8 DEF Answers
    <2>2. pump[s].pc # "autoQuery"
        BY <1>8, <2>1 DEF Live, Unit
    <2>3. sess'[s].txClient = c
        BY <1>1, <1>8, <2>2 DEF Answers
    <2> QED
        BY <1>3, <2>1, <2>3
<1>9. InPlace(conn, s, sess[s], pump[s], hist[s], Connected(s))'
    <2>1. sess'[s].txClient \in Client \cup {Null}
        BY DEF TypeInv, TypeOK, SessionState
    <2> QED
        BY <1>3, <1>4, <1>7, <1>8, <2>1, CalmInPlace
<1>10. ASSUME ~Connected(s)' PROVE EndedPast(s)' /\ CommitKept(s)'
    <2>1. EndedPast(s) /\ CommitKept(s)
        BY DEF ConnectedInv, SessionInv
    <2>2. \A x \in acked' : x.s = s /\ x.tx =>
             x \in acked \/ (x.unit = hist[s].unit /\ hist[s].open)
        BY <1>5, DataOfSender
    <2>3. \A h \in Shard : durable[h] \subseteq durable'[h]
        BY <1>1 DEF Executed
    <2>4. \A e \in ended' : e.s = s =>
             \/ e \in ended
             \/ e.unit = hist[s].unit /\ ~hist'[s].open /\ ~e.told
        BY <1>7, <1>10
    <2> QED
        BY <2>1, <2>2, <2>3, <2>4, PastStep
<1> QED
    BY <1>6, <1>7, <1>9, <1>10, ActingSession

\* The clients' transactions after a request of s on c, for a session that is connected.
Serving(s, c, r, ok, cn) ==
    /\ Executes(s, c, r, ok, cn) /\ r.by = "pump" /\ Connected(s)
    /\ OnlySession(s) /\ up' = up /\ SameWork(cn, conn')
    /\ hist'[s].unit = hist[s].unit
    /\ sess[s].txClient = c

\* BEGIN was executed, perhaps in a transaction that somebody else has left open.
LEMMA BegunLive ==
    ASSUME TypeInv, TypeInv', ConnectedInv, NEW s \in Session, NEW c \in Client,
           NEW r, NEW cn, Serving(s, c, r, TRUE, cn), pump[s].pc = "pinBegin",
           pump'[s].pc \in {"run", "txQuery"}, hist' = hist, acked' = acked,
           ended' = ended, sess'[s].txClient = c, sess'[s].inTx = sess[s].inTx,
           sess'[s].pinnedIndex = sess[s].pinnedIndex
    PROVE  Live(s)'
<1>1. /\ Executes(s, c, r, TRUE, cn) /\ SameWork(cn, conn') /\ up' = up
      /\ sess[s].txClient = c /\ Connected(s) /\ r.by = "pump"
    BY DEF Serving
<1>2. Executed(s, c, r, TRUE, cn) /\ Answers(s, c, r, cn)
    BY <1>1, ExecutedFacts, AnswersFacts
<1>3. r.op = "BEGIN" /\ Live(s) /\ c # Null
    BY <1>1, <1>2, ClientType DEF Answers, Awaited
<1>4. /\ conn'[c].tx = "open" /\ conn'[c].work = conn[c].work
      /\ \A d \in Client \ {c} : conn'[d].tx = conn[d].tx /\ conn'[d].work = conn[d].work
      /\ \A h \in Shard : durable'[h] = durable[h]
    BY <1>1, <1>2, <1>3
       DEF Executed, TxAfter, WorkAfter, RowsCommitted, EndsTx, SameWork
<1>5. up' /\ Unit(sess[s], pump[s], hist[s], up)'
    BY <1>1, <1>3 DEF Live, Unit
<1>6. PinRight(sess[s], pump[s])' /\ NotYet(s)'
    BY <1>3, <1>1 DEF Live, PinRight, NotYet
<1>7. TxRight(conn, sess[s], pump[s], hist[s])'
    BY <1>4 DEF TxRight
<1>8. RowsRight(conn, s, sess[s], pump[s], hist[s])'
    BY <1>3, <1>4 DEF Live, RowsRight
<1>9. DurableOnShard(s)'
    BY <1>3, <1>4 DEF Live, DurableOnShard
<1>10. Ledger(s)'
    BY <1>1, <1>3, <1>4, LedgerStays DEF Live
<1> QED
    BY <1>5, <1>6, <1>7, <1>8, <1>9, <1>10 DEF Live

\* A request of the transaction failed: the client's unit of work is marked.
LEMMA FailedLive ==
    ASSUME TypeInv, TypeInv', ConnectedInv, NEW s \in Session, NEW c \in Client,
           NEW r, NEW cn, Serving(s, c, r, FALSE, cn),
           pump[s].pc \in {"pinBegin", "txQuery", "endQuery"},
           pump'[s].pc = "idle", sess'[s] = sess[s], acked' = acked, ended' = ended,
           hist'[s].open = hist[s].open, ~hist'[s].clean
    PROVE  Live(s)'
<1>1. /\ Executes(s, c, r, FALSE, cn) /\ SameWork(cn, conn') /\ up' = up
      /\ sess[s].txClient = c /\ Connected(s) /\ r.by = "pump"
      /\ hist'[s].unit = hist[s].unit
    BY DEF Serving
<1>2. Executed(s, c, r, FALSE, cn) /\ Answers(s, c, r, cn)
    BY <1>1, ExecutedFacts, AnswersFacts
<1>3. Live(s) /\ c # Null /\ MayAnswer(conn[c], r, FALSE)
    BY <1>1, <1>2, ClientType DEF Answers, Executes
<1>4. /\ conn'[c].tx = TxAfter(conn[c], r, FALSE) /\ conn'[c].work = {}
      /\ \A d \in Client \ {c} : conn'[d].tx = conn[d].tx /\ conn'[d].work = conn[d].work
      /\ \A h \in Shard : durable'[h] = durable[h]
    BY <1>1, <1>2 DEF Executed, WorkAfter, RowsCommitted, SameWork
<1>5. up' /\ Unit(sess[s], pump[s], hist[s], up)'
    BY <1>1, <1>3 DEF Live, Unit
<1>6. PinRight(sess[s], pump[s])' /\ NotYet(s)'
    BY <1>3 DEF Live, PinRight, NotYet
<1>7. TxRight(conn, sess[s], pump[s], hist[s])'
    <2>1. conn'[c].tx = "idle" => "commit" \in Faults
        <3>1. CASE pump[s].pc = "pinBegin"
            <4>1. r.op = "BEGIN"
                BY <1>2, <3>1 DEF Answers, Awaited
            <4>2. conn[c].tx = "failed"
                BY <1>3, <4>1 DEF MayAnswer
            <4> QED
                BY <1>4, <4>1, <4>2 DEF TxAfter, EndsTx
        <3>2. CASE pump[s].pc = "txQuery"
            <4>1. r.op = "DATA"
                BY <1>2, <3>2 DEF Answers, Awaited
            <4>2. conn[c].tx = "idle" => "commit" \in Faults
                BY <1>1, <1>3, <3>2 DEF Live, TxRight
            <4> QED
                BY <1>4, <4>1, <4>2 DEF TxAfter, EndsTx
        <3>3. CASE pump[s].pc = "endQuery"
            <4>1. r.op \in {"COMMIT", "ROLLBACK"}
                BY <1>2, <3>3 DEF Answers, Awaited, Tag
            <4> QED
                BY <1>3, <4>1 DEF MayAnswer
        <3> QED
            BY <3>1, <3>2, <3>3
    <2> QED
        BY <1>1, <2>1 DEF TxRight
<1>8. RowsRight(conn, s, sess[s], pump[s], hist[s])'
    BY <1>1, <1>3, <1>4 DEF Live, RowsRight
<1>9. DurableOnShard(s)'
    BY <1>3, <1>4 DEF Live, DurableOnShard
<1>10. Ledger(s)'
    BY <1>1, <1>3, <1>4, LedgerStays DEF Live
<1> QED
    BY <1>5, <1>6, <1>7, <1>8, <1>9, <1>10 DEF Live

\* A data statement of the transaction was executed.
LEMMA WrittenLive ==
    ASSUME TypeInv, TypeInv', ConnectedInv, NEW s \in Session, NEW c \in Client,
           NEW r, NEW cn, Serving(s, c, r, TRUE, cn), pump[s].pc = "txQuery",
           pump'[s].pc = "run", sess'[s] = sess[s], hist' = hist,
           acked' = acked \cup {r.row}, ended' = ended
    PROVE  Live(s)'
<1>1. /\ Executes(s, c, r, TRUE, cn) /\ SameWork(cn, conn') /\ up' = up
      /\ sess[s].txClient = c /\ Connected(s) /\ r.by = "pump"
    BY DEF Serving
<1>2. Executed(s, c, r, TRUE, cn) /\ Answers(s, c, r, cn)
    BY <1>1, ExecutedFacts, AnswersFacts
<1>3. /\ Live(s) /\ c # Null /\ MayAnswer(conn[c], r, TRUE) /\ r.op = "DATA" /\ up
    BY <1>1, <1>2, ClientType DEF Answers, Executes, Awaited
<1>4. /\ r.row.s = s /\ r.row.unit = hist[s].unit /\ r.row.tx = hist[s].open
      /\ ShardOf[r.row.tid] = HostOf[c] /\ hist[s].open
    <2>1. r.row.s = s /\ r.row.unit = hist[s].unit /\ r.row.tx = hist[s].open
        <3>1. TRUE \in BOOLEAN /\ Executes(s, c, r, TRUE, cn) /\ r.op = "DATA"
            BY <1>1, <1>3
        <3> QED
            BY <3>1, DataOfSender
    <2>2. ShardOf[r.row.tid] = HostOf[c]
        BY <1>1, <1>2, <1>3 DEF Answers
    <2>3. hist[s].open
        BY <1>3 DEF Live, Unit
    <2> QED
        BY <2>1, <2>2, <2>3
<1>5. conn[c].tx \in {"idle", "open"} /\ (conn[c].tx = "idle" => "commit" \in Faults)
    <2>1. conn[c].tx # "failed"
        BY <1>3 DEF MayAnswer
    <2>2. conn[c].tx \in {"idle", "open", "failed"}
        BY ClientType DEF Connection
    <2> QED
        BY <1>1, <1>3, <2>1, <2>2 DEF Live, TxRight
<1>6. /\ conn'[c].tx = conn[c].tx
      /\ conn'[c].work = IF conn[c].tx = "open" THEN conn[c].work \cup {r.row}
                         ELSE conn[c].work
      /\ \A d \in Client \ {c} : conn'[d].tx = conn[d].tx /\ conn'[d].work = conn[d].work
    BY <1>1, <1>2, <1>3, <1>5
       DEF Executed, TxAfter, WorkAfter, EndsTx, SameWork
<1>7. \/ durable' = durable
      \/ /\ "commit" \in Faults
         /\ durable' = [durable EXCEPT ![HostOf[c]] = @ \cup {r.row}]
    <2>1. durable' = [durable EXCEPT ![HostOf[c]] =
                        @ \cup RowsCommitted(conn[c], r, TRUE)]
        BY <1>1 DEF Executes
    <2>2. CASE conn[c].tx = "open"
        <3>1. RowsCommitted(conn[c], r, TRUE) = {}
            BY <1>3, <2>2 DEF RowsCommitted
        <3> QED
            BY <2>1, <3>1 DEF TypeInv, TypeOK
    <2>3. CASE conn[c].tx = "idle"
        <3>1. RowsCommitted(conn[c], r, TRUE) = {r.row}
            BY <1>3, <2>3 DEF RowsCommitted
        <3> QED
            BY <1>5, <2>1, <2>3, <3>1
    <2> QED
        BY <1>5, <2>2, <2>3
<1>8. up' /\ Unit(sess[s], pump[s], hist[s], up)'
    BY <1>1, <1>3 DEF Live, Unit
<1>9. PinRight(sess[s], pump[s])' /\ NotYet(s)'
    BY <1>3 DEF Live, PinRight, NotYet
<1>10. TxRight(conn, sess[s], pump[s], hist[s])'
    BY <1>1, <1>3, <1>6 DEF Live, TxRight
<1>11. RowsRight(conn, s, sess[s], pump[s], hist[s])'
    BY <1>1, <1>3, <1>4, <1>6 DEF Live, RowsRight
<1>12. DurableOnShard(s)'
    <2>1. \A h \in Shard : \A x \in durable'[h] :
            x \in durable[h] \/ (x = r.row /\ h = HostOf[c])
        BY <1>7 DEF TypeInv, TypeOK
    <2>2. DurableOnShard(s)
        BY <1>3 DEF Live
    <2> QED
        BY <1>4, <2>1, <2>2 DEF DurableOnShard
<1>13. Ledger(s)'
    <2>1. Ledger(s)
        BY <1>3 DEF Live
    <2> DEFINE w == r.row
    <2>2. /\ OwnRow(w, s, hist[s]) /\ acked' = acked \cup {w}
          /\ \/ durable' = durable
             \/ /\ "commit" \in Faults
                /\ durable' = [durable EXCEPT ![HostOf[c]] = @ \cup {w}]
        BY <1>4, <1>7 DEF OwnRow
    <2>3. hist[s].clean => conn'[c].work = conn[c].work \cup {w}
        BY <1>1, <1>3, <1>6 DEF Live, TxRight
    <2> HIDE DEF w
    <2> QED
        BY <1>1, <1>3, <1>4, <2>1, <2>2, <2>3, LedgerWrites
<1> QED
    BY <1>8, <1>9, <1>10, <1>11, <1>12, <1>13 DEF Live

\* COMMIT or ROLLBACK was executed: what others had left in the transaction ends with it.
LEMMA EndedLive ==
    ASSUME TypeInv, TypeInv', ConnectedInv, NEW s \in Session, NEW c \in Client,
           NEW r, NEW cn, Serving(s, c, r, TRUE, cn), pump[s].pc = "endQuery",
           pump'[s].pc = "run", sess'[s].txClient = Null, ~sess'[s].inTx,
           ~sess'[s].backendInTx, ~hist'[s].open, acked' = acked,
           NEW told, told => hist[s].clean,
           ended' = IF Stmt(s).op = "commit" /\ hist[s].open
                    THEN ended \cup {[s |-> s, unit |-> hist[s].unit, told |-> told]}
                    ELSE ended
    PROVE  Live(s)'
<1>1. /\ Executes(s, c, r, TRUE, cn) /\ SameWork(cn, conn') /\ up' = up
      /\ sess[s].txClient = c /\ Connected(s) /\ r.by = "pump"
      /\ hist'[s].unit = hist[s].unit
    BY DEF Serving
<1>2. Executed(s, c, r, TRUE, cn) /\ Answers(s, c, r, cn)
    BY <1>1, ExecutedFacts, AnswersFacts
<1>3. Live(s) /\ c # Null /\ up
    BY <1>1, <1>2, ClientType DEF Answers, Executes
<1>4. /\ r.op = IF Stmt(s).op = "commit" THEN "COMMIT" ELSE "ROLLBACK"
      /\ Stmt(s).op \in {"commit", "rollback"} /\ hist[s].open
    BY <1>1, <1>2, <1>3 DEF Answers, Awaited, Tag, Stmt, Live, Unit
<1>5. /\ conn'[c].tx = "idle" /\ conn'[c].work = {}
      /\ \A d \in Client \ {c} : conn'[d].tx = conn[d].tx /\ conn'[d].work = conn[d].work
    BY <1>1, <1>2, <1>4 DEF Executed, TxAfter, WorkAfter, EndsTx, SameWork
<1>6. durable' = [durable EXCEPT ![HostOf[c]] =
                    @ \cup IF Stmt(s).op = "commit" THEN conn[c].work ELSE {}]
    BY <1>1, <1>4 DEF Executes, RowsCommitted
<1>7. up' /\ Unit(sess[s], pump[s], hist[s], up)'
    BY <1>1, <1>3 DEF Unit
<1>8. PinRight(sess[s], pump[s])' /\ NotYet(s)' /\ TxRight(conn, sess[s], pump[s], hist[s])'
    BY DEF PinRight, NotYet, TxRight
<1>9. RowsRight(conn, s, sess[s], pump[s], hist[s])'
    <2>1. \A d \in Client \ {c} : \A x \in conn[d].work : x.s = s =>
            ShardOf[x.tid] = HostOf[d] /\ ~x.tx
        BY <1>1, <1>3 DEF Live, RowsRight
    <2> QED
        BY <1>5, <2>1 DEF RowsRight
<1>10. \A x \in conn[c].work : x.s = s =>
          ShardOf[x.tid] = HostOf[c] /\ (x.tx => x.unit = hist[s].unit)
    BY <1>3 DEF Live, RowsRight
<1>11. DurableOnShard(s)'
    BY <1>3, <1>6, <1>10 DEF Live, DurableOnShard, TypeInv, TypeOK
<1>12. Ledger(s)'
    <2>1. Ledger(s)
        BY <1>3 DEF Live
    <2>2. CASE Stmt(s).op = "commit"
        <3> DEFINE W == conn[c].work
        <3>1. durable' = [h \in Shard |->
                            IF sess[s].txClient # Null /\ h = HostOf[sess[s].txClient]
                            THEN durable[h] \cup W ELSE durable[h]]
            BY <1>1, <1>3, <1>6, <2>2 DEF TypeInv, TypeOK
        <3>2. \A x \in W : x.s = s /\ x.tx => x.unit = hist[s].unit
            BY <1>10
        <3>3. hist[s].clean => \A x \in acked : x.s = s /\ x.tx /\ x.unit = hist[s].unit
                                  => x \in W
            BY <1>1, <1>3, <1>4, <2>1 DEF Ledger, AckedHeld, Current
        <3>4. ended' = ended \cup {[s |-> s, unit |-> hist[s].unit, told |-> told]}
            BY <1>4, <2>2
        <3>5. sess[s].txClient \in Client
            BY <1>1
        <3> HIDE DEF W
        <3> QED
            BY <1>1, <1>3, <1>4, <2>1, <3>1, <3>2, <3>3, <3>4, <3>5, LedgerCommits
    <2>3. CASE Stmt(s).op # "commit"
        <3>1. durable' = durable /\ ended' = ended
            BY <1>6, <2>3 DEF TypeInv, TypeOK
        <3> QED
            BY <1>1, <1>4, <2>1, <3>1, LedgerStays
    <2> QED
        BY <2>2, <2>3
<1> QED
    BY <1>7, <1>8, <1>9, <1>11, <1>12 DEF Live

\* A statement outside a transaction was executed, or failed.
LEMMA AutoLive ==
    ASSUME TypeInv, TypeInv', ConnectedInv, NEW s \in Session, NEW c \in Client,
           NEW ok \in BOOLEAN, NEW r, NEW cn, Executes(s, c, r, ok, cn), r.by = "pump",
           Connected(s), up' = up, SameWork(cn, conn'), pump[s].pc = "autoQuery",
           pump'[s].pc \in {"run", "idle"}, sess'[s] = sess[s],
           hist'[s].unit = hist[s].unit, hist'[s].open = hist[s].open,
           acked' = IF r.op = "DATA" /\ ok THEN acked \cup {r.row} ELSE acked,
           ended' = ended
    PROVE  Live(s)'
<1>1. Executed(s, c, r, ok, cn) /\ Answers(s, c, r, cn)
    BY ExecutedFacts, AnswersFacts
<1>2. Live(s) /\ r.op = "DATA"
    BY <1>1 DEF Answers, Awaited
<1>3. ~sess[s].inTx /\ sess[s].txClient = Null /\ ~hist[s].open
    BY <1>2 DEF Live, Unit
<1>4. /\ r.row.s = s /\ ~r.row.tx /\ ShardOf[r.row.tid] = HostOf[c]
    BY <1>1, <1>2, <1>3, DataOfSender DEF Answers
<1>5. /\ \A x \in conn'[c].work : x \in conn[c].work \/ x = r.row
      /\ \A d \in Client \ {c} : conn'[d].work = conn[d].work
    BY <1>1, RowsFrom DEF Executed, SameWork
<1>6. \A x \in conn[c].work : x.s = s => ShardOf[x.tid] = HostOf[c] /\ ~x.tx
    BY <1>2, <1>3, ClientType DEF Live, RowsRight
<1>7. \A d \in Client : \A x \in conn[d].work : x.s = s =>
        ShardOf[x.tid] = HostOf[d] /\ ~x.tx
    BY <1>2, <1>3, ClientType DEF Live, RowsRight
<1>8. \A h \in Shard : \A x \in durable'[h] : x.s = s =>
        x \in durable[h] \/ (ShardOf[x.tid] = h /\ ~x.tx)
    <2>1. \A x \in RowsCommitted(conn[c], r, ok) : x.s = s =>
            ShardOf[x.tid] = HostOf[c] /\ ~x.tx
        BY <1>4, <1>6, RowsFrom
    <2> QED
        BY <1>1, <2>1 DEF Executed
<1>9. up' /\ Unit(sess[s], pump[s], hist[s], up)'
    BY <1>2 DEF Live, Unit
<1>10. PinRight(sess[s], pump[s])' /\ NotYet(s)' /\ TxRight(conn, sess[s], pump[s], hist[s])'
    BY <1>3 DEF PinRight, NotYet, TxRight
<1>11. RowsRight(conn, s, sess[s], pump[s], hist[s])'
    BY <1>4, <1>5, <1>7 DEF RowsRight
<1>12. DurableOnShard(s)'
    BY <1>2, <1>8 DEF Live, DurableOnShard
<1>13. Ledger(s)'
    <2>1. \A x \in acked' : x.s = s /\ x.tx => x \in acked
        BY <1>4
    <2>2. \A h \in Shard : durable[h] \subseteq durable'[h]
        BY <1>1 DEF Executed
    <2>3. \A h \in Shard : \A x \in durable'[h] : x.s = s /\ x.tx => x \in durable[h]
        BY <1>8
    <2>4. Ledger(s)
        BY <1>2 DEF Live
    <2> QED
        BY <1>3, <2>1, <2>2, <2>3, <2>4, LedgerStays
<1> QED
    BY <1>9, <1>10, <1>11, <1>12, <1>13 DEF Live

\* BEGIN was executed: the statement that has caused it is answered or sent.
LEMMA BegunConnected ==
    ASSUME TypeInv, TypeInv', ConnectedInv, NEW s \in Session, NEW c \in Client,
           NEW r, NEW cn, Executes(s, c, r, TRUE, cn), r.by = "pump",
           pump[s].pc = "pinBegin", UNCHANGED <<socket, up>>,
           acked' = IF r.op = "DATA" THEN acked \cup {r.row} ELSE acked,
           NEW ss, ss = [sess[s] EXCEPT !.backendInTx = TRUE], Pinned(s, ss, cn)
    PROVE  ConnectedInv'
<1>1. Executed(s, c, r, TRUE, cn) /\ Answers(s, c, r, cn)
    BY ExecutedFacts, AnswersFacts
<1>2. r.op = "BEGIN" /\ acked' = acked
    BY <1>1 DEF Answers, Awaited
<1>3. /\ ss.txClient = sess[s].txClient /\ ss.inTx = sess[s].inTx
      /\ ss.pinnedIndex = sess[s].pinnedIndex /\ ss \in SessionState
      /\ ss.txClient \in Client \cup {Null}
    BY FieldTypes DEF SessionState
<1>4. /\ cn \in Conns /\ OthersInPlace(cn, s) /\ NoneSent(cn, s) /\ Keeps(cn, s, sess[s])
      /\ \A h \in Shard : durable[h] \subseteq durable'[h]
      /\ Connected(s) => /\ NoCleanups(cn, s) /\ cn[c].queue = << >> /\ Live(s)
                         /\ sess[s].txClient = c
    BY <1>1 DEF Executed, Answers
<1>5. c # Null /\ SameWork(cn, cn)
    BY ClientType DEF SameWork
<1>6. CASE Stmt(s).op = "begin"
    <2> DEFINE st == [ss EXCEPT !.txStatus = "T"]
    <2>1. /\ st.txClient = sess[s].txClient /\ st.inTx = sess[s].inTx
          /\ st.pinnedIndex = sess[s].pinnedIndex
        BY <1>3 DEF SessionState
    <2>2. Done(s, st, cn) /\ UNCHANGED outcome
        BY <1>6 DEF Pinned
    <2> HIDE DEF st
    <2>3. /\ sess'[s] = st /\ conn' = cn /\ pump'[s].pc = "run"
          /\ \A q \in Session \ {s} : sess'[q] = sess[q] /\ pump'[q] = pump[q]
        BY <2>2, DoneFields
    <2>4. OnlySession(s) /\ hist' = hist /\ ended' = ended
        BY <2>2, <2>3, SessionOnly
    <2>5. ASSUME Connected(s) PROVE Live(s)'
        <3>1. Serving(s, c, r, TRUE, cn)
            BY <1>4, <1>5, <2>3, <2>4, <2>5 DEF Serving
        <3> QED
            BY <1>2, <1>4, <2>1, <2>3, <2>4, <2>5, <3>1, BegunLive
    <2> QED
        BY <1>2, <2>1, <2>3, <2>4, <2>5, AnsweredConnected
<1>7. CASE Stmt(s).op = "data" /\ ss.txClient = Null
    <2>1. Throw(s, ss, cn)
        BY <1>7 DEF Pinned
    <2>2. /\ sess'[s] = ss /\ conn' = cn /\ pump'[s].pc = "idle"
          /\ OnlySession(s) /\ ended' = ended
          /\ hist'[s].unit = hist[s].unit /\ hist'[s].open = hist[s].open
        BY <2>1, ThrowFields
    <2>3. ~Connected(s)
        BY <1>3, <1>4, <1>5, <1>7
    <2> QED
        BY <1>2, <1>3, <2>2, <2>3, AnsweredConnected
<1>8. CASE Stmt(s).op = "data" /\ ss.txClient # Null
    <2> DEFINE b == ss.txClient
               row == RowOf(s, pump[s].tid)
               x == [by |-> "pump", s |-> s, op |-> "DATA", row |-> row]
               dn == Enqueue(cn, b, "pump", s, "DATA", row)
    <2>1. b \in Client /\ b # Null /\ b = ss.txClient /\ cn[b].holder = s
        BY <1>3, <1>4, <1>8 DEF Keeps
    <2>2. Await(s, ss, dn, "txQuery", Null) /\ UNCHANGED outcome
        BY <1>8 DEF Pinned
    <2>3. Queued(cn, dn, b, x) /\ SameWork(cn, dn)
        BY <1>4, <2>1, EnqueueQueues
    <2>4. /\ row.s = s /\ row.unit = hist[s].unit /\ row.tx = hist[s].open
          /\ row.tid = pump[s].tid
        BY DEF RowOf
    <2>5. x.by = "pump" /\ x.s = s /\ x.op = "DATA" /\ x.row = row
        OBVIOUS
    <2> HIDE DEF b, x, dn, row
    <2>6. /\ sess'[s] = ss /\ conn' = dn /\ pump'[s].pc = "txQuery"
          /\ \A q \in Session \ {s} : sess'[q] = sess[q] /\ pump'[q] = pump[q]
        BY <2>2, AwaitFields
    <2>7. OnlySession(s) /\ hist' = hist /\ ended' = ended
        BY <2>2, <2>6, SessionOnly
    <2>8. Awaited(x, pump'[s], hist[s])
        BY <2>4, <2>5, <2>6 DEF Awaited, Waiting
    <2>9. ASSUME Connected(s)
          PROVE  b = c /\ ShardOf[x.row.tid] = HostOf[b]
        BY <1>3, <1>4, <1>5, <2>1, <2>4, <2>5, <2>9 DEF Live, PinRight
    <2>10. Keeps(cn, s, ss)
        BY <1>3, <1>4 DEF Keeps
    <2>11. InPlace(conn', s, ss, pump'[s], hist[s], Connected(s))
        <3>1. Queued(cn, conn', b, x) /\ pump'[s].pc # "autoQuery"
            BY <2>3, <2>6
        <3>2. Connected(s) => /\ NoCleanups(cn, s) /\ ss.txClient = b
                              /\ ShardOf[x.row.tid] = HostOf[b] /\ cn[b].queue = << >>
            BY <1>4, <2>1, <2>9
        <3> QED
            BY <1>3, <1>4, <2>1, <2>5, <2>8, <2>10, <3>1, <3>2, SendInPlace
    <2>12. Connected(s)' <=> Connected(s)
        BY DEF Connected
    <2>13. InPlace(conn, s, sess[s], pump[s], hist[s], Connected(s))'
        BY <2>6, <2>7, <2>11, <2>12, InPlaceOf
    <2>14. OthersInPlace(conn', s)
        BY <1>4, <2>1, <2>3, <2>5, <2>6, OthersQueue
    <2>15. NoLostWork' /\ \A q \in Session \ {s} : SessionInv(q)'
        BY <1>2, <2>3, <2>6, <2>7, <2>14, OthersServed
    <2>16. ASSUME Connected(s)' PROVE Live(s)'
        <3>1. Serving(s, c, r, TRUE, cn)
            BY <1>4, <2>3, <2>6, <2>7, <2>12, <2>16 DEF Serving
        <3>2. sess'[s].txClient = c
            BY <1>3, <1>4, <2>6, <2>12, <2>16
        <3> QED
            BY <1>2, <1>3, <2>6, <2>7, <3>1, <3>2, BegunLive
    <2>17. ASSUME ~Connected(s)' PROVE EndedPast(s)' /\ CommitKept(s)'
        <3>1. EndedPast(s) /\ CommitKept(s)
            BY DEF ConnectedInv, SessionInv
        <3> QED
            BY <1>2, <1>4, <2>7, <3>1, PastStep
    <2> QED
        BY <2>13, <2>15, <2>16, <2>17, ActingSession
<1> QED
    BY <1>6, <1>7, <1>8 DEF Pinned

\* A data statement of a transaction was executed.
LEMMA WrittenConnected ==
    ASSUME TypeInv, TypeInv', ConnectedInv, NEW s \in Session, NEW c \in Client,
           NEW r, NEW cn, Executes(s, c, r, TRUE, cn), r.by = "pump",
           pump[s].pc = "txQuery", UNCHANGED <<socket, up>>,
           acked' = IF r.op = "DATA" THEN acked \cup {r.row} ELSE acked,
           Done(s, sess[s], cn), UNCHANGED outcome
    PROVE  ConnectedInv'
<1>1. Answers(s, c, r, cn)
    BY AnswersFacts
<1>2. acked' = acked \cup {r.row}
    BY <1>1 DEF Answers, Awaited
<1>3. /\ sess'[s] = sess[s] /\ conn' = cn /\ pump'[s].pc = "run"
      /\ \A q \in Session \ {s} : sess'[q] = sess[q] /\ pump'[q] = pump[q]
    BY DoneFields
<1>4. OnlySession(s) /\ hist' = hist /\ ended' = ended
    BY <1>3, SessionOnly
<1>5. ASSUME Connected(s) PROVE Live(s)'
    <2>1. sess[s].txClient = c
        BY <1>1, <1>5 DEF Answers
    <2>2. Serving(s, c, r, TRUE, cn)
        BY <1>3, <1>4, <1>5, <2>1 DEF Serving, SameWork
    <2> QED
        BY <1>2, <1>3, <1>4, <2>2, WrittenLive
<1> QED
    BY <1>3, <1>4, <1>5, AnsweredConnected

\* A request of a transaction failed, or its client is gone.
LEMMA FailedConnected ==
    ASSUME TypeInv, TypeInv', ConnectedInv, NEW s \in Session, NEW c \in Client,
           NEW ok \in BOOLEAN, NEW r, NEW cn, Executes(s, c, r, ok, cn), r.by = "pump",
           pump[s].pc \in {"pinBegin", "txQuery", "endQuery"},
           UNCHANGED <<socket, up>>, ~ok \/ sess[s].txClient = Null,
           acked' = IF r.op = "DATA" /\ ok THEN acked \cup {r.row} ELSE acked,
           Throw(s, sess[s], cn)
    PROVE  ConnectedInv'
<1>1. Answers(s, c, r, cn) /\ c # Null
    BY AnswersFacts, ClientType
<1>2. /\ sess'[s] = sess[s] /\ conn' = cn /\ pump'[s].pc = "idle"
      /\ OnlySession(s) /\ ended' = ended
      /\ hist'[s].unit = hist[s].unit /\ hist'[s].open = hist[s].open
      /\ ~hist'[s].clean
    BY ThrowFields
<1>3. ASSUME Connected(s) PROVE Live(s)'
    <2>1. sess[s].txClient = c /\ ok = FALSE
        BY <1>1, <1>3 DEF Answers
    <2>2. Executes(s, c, r, FALSE, cn) /\ acked' = acked
        BY <2>1
    <2>3. Serving(s, c, r, FALSE, cn)
        BY <1>2, <1>3, <2>1, <2>2 DEF Serving, SameWork
    <2> QED
        BY <1>2, <2>2, <2>3, FailedLive
<1> QED
    BY <1>2, <1>3, AnsweredConnected

\* A statement outside a transaction was answered: its client goes back to the pool.
LEMMA AutoConnectedAnswered ==
    ASSUME TypeInv, TypeInv', ConnectedInv, NEW s \in Session, NEW c \in Client,
           NEW ok \in BOOLEAN, NEW r, NEW cn, Executes(s, c, r, ok, cn), r.by = "pump",
           pump[s].pc = "autoQuery", UNCHANGED <<socket, up>>,
           acked' = IF r.op = "DATA" /\ ok THEN acked \cup {r.row} ELSE acked,
           \/ Done(s, sess[s], Release(cn, c)) /\ UNCHANGED outcome
           \/ Throw(s, sess[s], Release(cn, c))
    PROVE  ConnectedInv'
<1>1. Executed(s, c, r, ok, cn) /\ Answers(s, c, r, cn)
    BY ExecutedFacts, AnswersFacts
<1>2. cn \in Conns /\ cn[c].holder = s /\ sess[s].txClient # c
    BY <1>1 DEF Executed, Answers
<1>3. /\ sess'[s] = sess[s] /\ conn' = Release(cn, c) /\ pump'[s].pc \in {"run", "idle"}
      /\ OnlySession(s) /\ ended' = ended
      /\ hist'[s].unit = hist[s].unit /\ hist'[s].open = hist[s].open
    <2> DEFINE dn == Release(cn, c)
    <2>1. \/ Done(s, sess[s], dn) /\ UNCHANGED outcome
          \/ Throw(s, sess[s], dn)
        OBVIOUS
    <2> HIDE DEF dn
    <2>2. CASE Done(s, sess[s], dn) /\ UNCHANGED outcome
        <3>1. /\ sess'[s] = sess[s] /\ conn' = dn /\ pump'[s].pc = "run"
              /\ \A q \in Session \ {s} : sess'[q] = sess[q] /\ pump'[q] = pump[q]
            BY <2>2, DoneFields
        <3> QED
            BY <2>2, <3>1, SessionOnly DEF dn
    <2>3. CASE Throw(s, sess[s], dn)
        BY <2>3, ThrowFields DEF dn
    <2> QED
        BY <2>1, <2>2, <2>3
<1>4. SameWork(cn, conn')
    <2>1. conn' = Hold(cn, c, Null)
        BY <1>3 DEF Release, Hold
    <2> QED
        BY <1>2, <2>1, HolderHands
<1>5. ASSUME Connected(s) PROVE Live(s)'
    BY <1>3, <1>4, <1>5, AutoLive
<1>6. \E d \in Client : /\ conn' = Release(cn, d) /\ cn[d].holder = s
                        /\ sess'[s].txClient # d
    BY <1>2, <1>3
<1> QED
    BY <1>3, <1>5, <1>6, AnsweredConnected

\* COMMIT or ROLLBACK was executed: the transaction's client goes back to the pool.
LEMMA EndedConnected ==
    ASSUME TypeInv, TypeInv', ConnectedInv, NEW s \in Session, NEW c \in Client,
           NEW r, NEW cn, Executes(s, c, r, TRUE, cn), r.by = "pump",
           pump[s].pc = "endQuery", UNCHANGED <<socket, up>>,
           sess[s].txClient # Null,
           acked' = IF r.op = "DATA" THEN acked \cup {r.row} ELSE acked,
           EndTx(s, GiveBack(s, cn))
    PROVE  ConnectedInv'
<1> DEFINE ss == [Unpinned(sess[s]) EXCEPT !.txClient = Null, !.txStatus = "I"]
           b == sess[s].txClient
           told == hist[s].clean /\ socket[s] = "open"
<1>1. Executed(s, c, r, TRUE, cn) /\ Answers(s, c, r, cn)
    BY ExecutedFacts, AnswersFacts
<1>2. /\ cn \in Conns /\ b \in Client /\ cn[b].holder = s
      /\ Connected(s) => b = c
    BY <1>1, FieldTypes DEF Executed, Answers, Keeps
<1>3. r.op # "DATA"
    BY <1>1 DEF Answers, Awaited, Tag
<1>4. ss.txClient = Null /\ ~ss.inTx /\ ~ss.backendInTx
    BY FieldTypes DEF Unpinned, SessionState
<1>5. Done(s, ss, Release(cn, b))
    BY DEF EndTx, GiveBack
<1> HIDE DEF ss
<1>6. /\ sess'[s] = ss /\ conn' = Release(cn, b) /\ pump'[s].pc = "run"
      /\ \A q \in Session \ {s} : sess'[q] = sess[q] /\ pump'[q] = pump[q]
    BY <1>5, DoneFields
<1>7. /\ hist'[s].unit = hist[s].unit /\ ~hist'[s].open
      /\ \A q \in Session \ {s} : hist'[q] = hist[q]
    BY DEF EndTx, TypeInv, TypeOK, History
<1>8. ended' = IF Stmt(s).op = "commit" /\ hist[s].open
               THEN ended \cup {[s |-> s, unit |-> hist[s].unit, told |-> told]}
               ELSE ended
    BY DEF EndTx
<1>9. told => hist[s].clean /\ Connected(s)
    BY DEF Connected
<1> HIDE DEF told, b
<1>10. OnlySession(s) /\ acked' = acked
    BY <1>3, <1>6, <1>7 DEF OnlySession
<1>11. SameWork(cn, conn')
    <2>1. conn' = Hold(cn, b, Null)
        BY <1>6 DEF Release, Hold
    <2> QED
        BY <1>2, <2>1, HolderHands
<1>12. ASSUME Connected(s) PROVE Live(s)'
    <2>1. Serving(s, c, r, TRUE, cn)
        BY <1>2, <1>7, <1>10, <1>11, <1>12 DEF Serving, b
    <2> QED
        <3>1. sess'[s].txClient = Null /\ ~sess'[s].inTx /\ ~sess'[s].backendInTx
            BY <1>4, <1>6
        <3>2. pump'[s].pc = "run" /\ ~hist'[s].open /\ acked' = acked
            BY <1>6, <1>7, <1>10
        <3>3. told => hist[s].clean
            BY <1>9
        <3> QED
            BY <1>8, <2>1, <3>1, <3>2, <3>3, EndedLive
<1>13. /\ ended \subseteq ended'
       /\ \A e \in ended' : e \in ended \/ /\ e.s = s /\ e.unit = hist[s].unit
                                           /\ ~hist'[s].open
                                           /\ e.told => Connected(s)
    BY <1>7, <1>8, <1>9
<1>14. /\ sess'[s].txClient = Null
       /\ \E d \in Client : /\ conn' = Release(cn, d) /\ cn[d].holder = s
                            /\ sess'[s].txClient # d
    BY <1>2, <1>4, <1>6, ClientType
<1> QED
    BY <1>3, <1>6, <1>7, <1>10, <1>12, <1>13, <1>14, AnsweredConnected

\* cleanup() goes on after its ROLLBACK, whoever its client belongs to by now.
LEMMA CleanedConnected ==
    ASSUME TypeInv, TypeInv', ConnectedInv, NEW s \in Session, NEW c \in Client,
           NEW ok \in BOOLEAN, NEW r, NEW cn, Executes(s, c, r, ok, cn),
           r.by = "cleanup", ResumeCleanup(s, cn)
    PROVE  ConnectedInv'
<1>1. Executed(s, c, r, ok, cn) /\ ~Connected(s)
    BY ExecutedFacts, AnswersFacts
<1>2. \A h \in Shard : durable[h] \subseteq durable'[h]
    BY <1>1 DEF Executed
<1>3. CASE sess[s].txClient = Null
    BY <1>2, <1>3, CrashConnected DEF ResumeCleanup
<1>4. CASE sess[s].txClient # Null
    <2> DEFINE b == sess[s].txClient
    <2>1. /\ sess' = [sess EXCEPT ![s] = [Unpinned(@) EXCEPT !.txClient = Null]]
          /\ conn' = Release(cn, b) /\ UNCHANGED <<pump, socket, up, hist, acked, ended>>
        BY <1>4 DEF ResumeCleanup, GiveBack
    <2>2. b \in Client /\ b = sess[s].txClient
        BY <1>4, FieldTypes
    <2> HIDE DEF b
    <2>3. /\ cn \in Conns /\ OthersInPlace(cn, s)
          /\ InPlace(cn, s, sess[s], pump[s], hist[s], Connected(s))
        BY <1>1 DEF Executed
    <2>4. cn[b].holder = s
        BY <1>4, <2>2, <2>3 DEF InPlace, Keeps
    <2>5. /\ sess'[s].txClient = Null /\ OnlySession(s)
        BY <2>1, FieldTypes DEF TypeInv, TypeOK, Unpinned, SessionState, OnlySession
    <2>6. conn' = Hold(cn, b, Null)
        BY <2>1 DEF Release, Hold
    <2>7. Handed(cn, conn', b) /\ SameWork(cn, conn')
        BY <2>2, <2>3, <2>6, HolderHands
    <2>8. OthersInPlace(conn', s)
        BY <2>2, <2>3, <2>4, <2>7, OthersHand
    <2>9. NoLostWork' /\ \A q \in Session \ {s} : SessionInv(q)'
        BY <2>1, <2>5, <2>7, <2>8, OthersServed
    <2>10. ~Connected(s)'
        BY <1>1, <2>1 DEF Connected
    <2>11. InPlace(conn, s, sess[s], pump[s], hist[s], Connected(s))'
        <3>1. InPlace(conn', s, sess'[s], pump[s], hist[s], Connected(s)')
            BY <2>2, <2>3, <2>5, <2>7, <2>10, ReleaseInPlace
        <3> QED
            BY <2>1, <3>1
    <2>12. EndedPast(s)' /\ CommitKept(s)'
        <3>1. EndedPast(s) /\ CommitKept(s)
            BY DEF ConnectedInv, SessionInv
        <3> QED
            BY <1>2, <2>1, <3>1, PastStep
    <2> QED
        BY <2>9, <2>10, <2>11, <2>12, ActingSession
<1> QED
    BY <1>3, <1>4

\* Postgres executes a request.
LEMMA ServeConnected ==
    ASSUME TypeInv, TypeInv', ConnectedInv, NEW c \in Client, Serve(c)
    PROVE  ConnectedInv'
<1> DEFINE r == Head(conn[c].queue)
           s == r.s
<1>1. conn[c].queue # << >> /\ up
    BY DEF Serve
<1>2. PICK ok \in BOOLEAN :
        /\ MayAnswer(conn[c], r, ok)
        /\ durable' = [durable EXCEPT ![HostOf[c]] =
                         @ \cup RowsCommitted(conn[c], r, ok)]
        /\ \/ r.by = "pump" /\ ResumePump(s, c, r, ok, ServedConn(c, ok))
           \/ r.by = "cleanup" /\ ResumeCleanup(s, ServedConn(c, ok))
    BY DEF Serve, ServedConn
<1> DEFINE cn == ServedConn(c, ok)
<1>3. r \in Request /\ s \in Session
    <2>1. r \in Request
        BY <1>1, ServedFields
    <2> QED
        BY <2>1 DEF Request
<1>4. Executes(s, c, r, ok, cn)
    BY <1>1, <1>2 DEF Executes
<1>5. \/ r.by = "pump" /\ ResumePump(s, c, r, ok, cn)
      \/ r.by = "cleanup" /\ ResumeCleanup(s, cn)
    BY <1>2
<1> HIDE DEF r, s, cn
<1>6. CASE r.by = "cleanup" /\ ResumeCleanup(s, cn)
    BY <1>3, <1>4, <1>6, CleanedConnected
<1>7. CASE r.by = "pump" /\ ResumePump(s, c, r, ok, cn)
    <2>1. /\ UNCHANGED <<socket, up>>
          /\ acked' = IF r.op = "DATA" /\ ok THEN acked \cup {r.row} ELSE acked
        BY <1>7 DEF ResumePump
    <2> DEFINE ss == [sess[s] EXCEPT !.backendInTx = TRUE]
    <2>2. CASE pump[s].pc = "pinBegin" /\ ok /\ Pinned(s, ss, cn)
        <3>1. Executes(s, c, r, TRUE, cn)
            BY <1>4, <2>2
        <3> HIDE DEF ss
        <3>2. ss = [sess[s] EXCEPT !.backendInTx = TRUE]
            BY DEF ss
        <3> QED
            BY <1>3, <1>7, <2>1, <2>2, <3>1, <3>2, BegunConnected
    <2>3. CASE pump[s].pc = "txQuery" /\ ok /\ Done(s, sess[s], cn) /\ UNCHANGED outcome
        <3>1. Executes(s, c, r, TRUE, cn)
            BY <1>4, <2>3
        <3> QED
            BY <1>3, <1>7, <2>1, <2>3, <3>1, WrittenConnected
    <2>4. CASE /\ pump[s].pc = "autoQuery"
               /\ \/ Done(s, sess[s], Release(cn, c)) /\ UNCHANGED outcome
                  \/ Throw(s, sess[s], Release(cn, c))
        BY <1>3, <1>4, <1>7, <2>1, <2>4, AutoConnectedAnswered
    <2>5. CASE /\ pump[s].pc = "endQuery" /\ ok /\ sess[s].txClient # Null
               /\ EndTx(s, GiveBack(s, cn))
        <3>1. Executes(s, c, r, TRUE, cn)
            BY <1>4, <2>5
        <3> QED
            BY <1>3, <1>7, <2>1, <2>5, <3>1, EndedConnected
    <2>6. CASE /\ pump[s].pc \in {"pinBegin", "txQuery", "endQuery"}
               /\ ~ok \/ sess[s].txClient = Null
               /\ Throw(s, sess[s], cn)
        BY <1>3, <1>4, <1>7, <2>1, <2>6, FailedConnected
    <2> QED
        BY <1>7, <2>2, <2>3, <2>4, <2>5, <2>6 DEF ResumePump
<1> QED
    BY <1>5, <1>6, <1>7

---------------------------------------------------------------------------
(***************************************************************************)
(* Disconnects and lost backends.                                          *)
(***************************************************************************)
\* cleanup() queues its ROLLBACK behind whatever the pump has sent.
LEMMA CleanupInPlace ==
    ASSUME NEW cn \in Conns, NEW dn, NEW c \in Client, NEW r, Queued(cn, dn, c, r),
           NEW s, NEW ss, ss.txClient \in Client \cup {Null}, NEW p, NEW h, NEW on,
           InPlace(cn, s, ss, p, h, on), r.by = "cleanup", NEW off, ~off
    PROVE  InPlace(dn, s, ss, p, h, off)
<1>1. /\ Len(dn[c].queue) = Len(cn[c].queue) + 1 /\ Len(cn[c].queue) \in Nat
      /\ dn[c].queue[Len(cn[c].queue) + 1] = r
      /\ \A i \in 1..Len(cn[c].queue) : dn[c].queue[i] = cn[c].queue[i]
      /\ \A i \in Nat : i \in 1..Len(dn[c].queue)
           => i \in 1..Len(cn[c].queue) \/ i = Len(cn[c].queue) + 1
    BY QueuedSent
<1>2. \A d \in Client \ {c} : dn[d] = cn[d]
    BY DEF Queued
<1>3. ASSUME NEW d \in Client, NEW i \in Nat, Sent(dn, s, d, i)
      PROVE  Sent(cn, s, d, i) /\ dn[d].queue[i] = cn[d].queue[i]
    <2>1. CASE d = c
        <3>1. i \in 1..Len(cn[c].queue)
            BY <1>1, <1>3, <2>1 DEF Sent
        <3> QED
            BY <1>1, <1>3, <2>1, <3>1 DEF Sent
    <2> QED
        BY <1>2, <1>3, <2>1 DEF Sent
<1>4. \A d \in Client : dn[d].holder = cn[d].holder
    BY DEF Queued
<1>5. Keeps(dn, s, ss)
    BY <1>4 DEF InPlace, Keeps
<1>6. SentOnce(dn, s)
    BY <1>3 DEF InPlace, SentOnce
<1>7. SentRight(dn, s, ss, p, h, off)
    BY <1>3, <1>4 DEF InPlace, SentRight
<1> QED
    BY <1>5, <1>6, <1>7 DEF InPlace

\* A socket breaks: from now on its session is the only one that cleanup() concerns.
LEMMA SocketConnected ==
    ASSUME TypeInv, TypeInv', ConnectedInv, NEW s \in Session,
           SocketError(s) \/ SocketClose(s)
    PROVE  ConnectedInv'
<1>1. /\ Cleanup(s) /\ UNCHANGED <<pump, up, hist, durable, acked, ended>>
      /\ \A q \in Session \ {s} : socket'[q] = socket[q]
      /\ ~Connected(s)'
    BY DEF SocketError, SocketClose, Cleanup, ghosts, Connected, TypeInv, TypeOK
<1>2. sess[s].txClient \in Client \cup {Null} /\ conn \in Conns
    BY FieldTypes
<1>3. /\ InPlace(conn, s, sess[s], pump[s], hist[s], Connected(s))
      /\ OthersInPlace(conn, s) /\ EndedPast(s) /\ CommitKept(s)
    BY DEF ConnectedInv, SessionInv, OthersInPlace
<1>4. /\ OnlySession(s) /\ SameWork(conn, conn') /\ OthersInPlace(conn', s)
      /\ InPlace(conn', s, sess'[s], pump[s], hist[s], Connected(s)')
    <2>1. CASE sess[s].txClient = Null
        <3>1. conn' = conn /\ sess' = [sess EXCEPT ![s] = Unpinned(@)]
            BY <1>1, <2>1 DEF Cleanup
        <3>2. sess'[s].txClient = sess[s].txClient /\ OnlySession(s)
            BY <1>1, <3>1, FieldTypes
               DEF TypeInv, TypeOK, Unpinned, SessionState, OnlySession
        <3>3. InPlace(conn, s, sess'[s], pump[s], hist[s], Connected(s)')
            BY <1>1, <1>3, <3>2, InPlaceOf
        <3> QED
            BY <1>3, <3>1, <3>2, <3>3 DEF SameWork
    <2>2. CASE sess[s].txClient # Null
        <3> DEFINE c == sess[s].txClient
                   r == [by |-> "cleanup", s |-> s, op |-> "ROLLBACK", row |-> Null]
        <3>1. sess' = sess /\ conn' = Enqueue(conn, c, "cleanup", s, "ROLLBACK", Null)
            BY <1>1, <2>2 DEF Cleanup
        <3>2. c \in Client /\ c = sess[s].txClient /\ conn[c].holder = s
            BY <1>2, <1>3, <2>2 DEF InPlace, Keeps
        <3>3. r.by = "cleanup" /\ r.s = s
            OBVIOUS
        <3>4. Queued(conn, conn', c, r) /\ SameWork(conn, conn')
            BY <1>2, <3>1, <3>2, EnqueueQueues
        <3> HIDE DEF c, r
        <3>5. OthersInPlace(conn', s)
            BY <1>2, <1>3, <3>2, <3>3, <3>4, OthersQueue
        <3>6. InPlace(conn', s, sess[s], pump[s], hist[s], Connected(s)')
            BY <1>1, <1>2, <1>3, <3>2, <3>3, <3>4, CleanupInPlace
        <3>7. OnlySession(s)
            BY <1>1, <3>1 DEF OnlySession
        <3> QED
            BY <3>1, <3>4, <3>5, <3>6, <3>7
    <2> QED
        BY <2>1, <2>2
<1>5. NoLostWork' /\ \A q \in Session \ {s} : SessionInv(q)'
    BY <1>1, <1>4, OthersSafe
<1>6. InPlace(conn, s, sess[s], pump[s], hist[s], Connected(s))'
    BY <1>1, <1>4
<1>7. EndedPast(s)' /\ CommitKept(s)'
    BY <1>1, <1>3, PastStep
<1> QED
    BY <1>1, <1>5, <1>6, <1>7, ActingSession

\* A backend is lost while client c runs one statement, r, of session s outside a
\* transaction: the statement may have been executed, and with the connection all is
\* gone that others have left on it.
Loses(s, c, r) ==
    /\ conn' = [conn EXCEPT ![c] = IdleConn]
    /\ \E rows \in {{}, {r.row}} :
         durable' = [durable EXCEPT ![HostOf[c]] = @ \cup rows]
    /\ Throw(s, sess[s], conn')
    /\ UNCHANGED <<up, socket, acked>>
    /\ r.s = s /\ r.op = "DATA" /\ r.by = "pump" /\ pump[s].pc = "autoQuery"
    /\ conn[c].queue # << >> /\ r = Head(conn[c].queue) /\ Tail(conn[c].queue) = << >>

\* Who that concerns.
Lost(s, c, r) ==
    /\ \A q \in Session : q # s => sess[q].txClient # c
    /\ sess[s].txClient # c /\ NoneSent(conn', s) /\ OthersInPlace(conn', s)
    /\ Keeps(conn', s, sess[s]) /\ conn'[c] = IdleConn
    /\ \A d \in Client \ {c} : conn'[d] = conn[d]
    /\ r.row.s = s /\ r.row.unit = hist[s].unit /\ r.row.tx = hist[s].open
    /\ Connected(s) => NoCleanups(conn', s) /\ ShardOf[r.row.tid] = HostOf[c]
    /\ \A h \in Shard : durable[h] \subseteq durable'[h]
    /\ \A h \in Shard : \A x \in durable'[h] :
         x \in durable[h] \/ (x = r.row /\ h = HostOf[c])

LEMMA LostFacts ==
    ASSUME TypeInv, ConnectedInv, NEW s \in Session, NEW c \in Client, NEW r,
           Loses(s, c, r)
    PROVE  Lost(s, c, r)
<1>1. conn \in Conns /\ conn[c].queue \in Seq(Request) /\ conn[c].queue # << >>
    BY FieldTypes, ClientType DEF Loses
<1>2. /\ Head(conn[c].queue) = conn[c].queue[1] /\ 1 \in 1..Len(conn[c].queue)
      /\ r = Head(conn[c].queue)
    BY <1>1 DEF Loses
<1>3. Sent(conn, s, c, 1) /\ conn[c].queue[1] = r
    BY <1>2 DEF Sent, Loses
<1>4. InPlace(conn, s, sess[s], pump[s], hist[s], Connected(s)) /\ OthersInPlace(conn, s)
    BY DEF ConnectedInv, SessionInv, OthersInPlace
<1>5. /\ Awaited(r, pump[s], hist[s]) /\ conn[c].holder = s /\ sess[s].txClient # c
      /\ Connected(s) => ShardOf[r.row.tid] = HostOf[c] /\ NoCleanups(conn, s)
    BY <1>3, <1>4 DEF InPlace, SentRight, Loses
<1>6. r.row.s = s /\ r.row.unit = hist[s].unit /\ r.row.tx = hist[s].open
    BY <1>5 DEF Awaited, Loses
<1> DEFINE mid == [conn EXCEPT ![c] = [holder |-> s, queue |-> << >>, tx |-> "idle",
                                       work |-> {}]]
<1>7. mid \in Conns /\ Popped(conn, mid, c) /\ mid[c].holder = s
    BY <1>1, <1>5 DEF Conns, Connection, Popped, Loses
<1>8. Handed(mid, conn', c) /\ conn'[c] = IdleConn
    BY <1>1 DEF Handed, IdleConn, Loses, Conns
<1> HIDE DEF mid
<1>9. /\ \A d \in Client \ {c} : conn'[d] = conn[d]
      /\ \A d \in Client : mid[d].queue = conn'[d].queue
    BY <1>7, <1>8 DEF Popped, Handed
<1>10. NoneSent(mid, s)
    BY <1>1, <1>3, <1>4, <1>7, PoppedWasAll DEF InPlace
<1>11. NoneSent(conn', s)
    BY <1>9, <1>10 DEF NoneSent, Sent
<1>12. OthersInPlace(mid, s)
    BY <1>1, <1>4, <1>7, OthersPop
<1>13. OthersInPlace(conn', s)
    BY <1>7, <1>8, <1>12, OthersHand
<1>14. ASSUME NEW q \in Session, q # s PROVE sess[q].txClient # c
    BY <1>4, <1>5, <1>14, ClientType DEF OthersInPlace, InPlace, Keeps
<1>15. Keeps(conn', s, sess[s])
    BY <1>4, <1>5, <1>9, FieldTypes DEF InPlace, Keeps
<1>16. ASSUME Connected(s) PROVE NoCleanups(conn', s)
    <2>1. \A i \in Nat : i \notin 1..Len(conn'[c].queue)
        BY <1>8 DEF IdleConn
    <2> QED
        BY <1>5, <1>9, <1>16, <2>1 DEF NoCleanups
<1>17. /\ \A h \in Shard : durable[h] \subseteq durable'[h]
       /\ \A h \in Shard : \A x \in durable'[h] :
            x \in durable[h] \/ (x = r.row /\ h = HostOf[c])
    BY DEF Loses, TypeInv, TypeOK
<1> QED
    BY <1>5, <1>6, <1>8, <1>9, <1>11, <1>13, <1>14, <1>15, <1>16, <1>17 DEF Lost

\* The sessions that do not lose a statement.
LEMMA OthersLost ==
    ASSUME TypeInv, TypeInv', ConnectedInv, NEW s \in Session, NEW c \in Client, NEW r,
           Loses(s, c, r)
    PROVE  NoLostWork' /\ \A q \in Session \ {s} : SessionInv(q)'
<1>1. Lost(s, c, r)
    BY LostFacts
<1>2. UNCHANGED <<up, socket, acked>> /\ OnlySession(s) /\ ended' = ended
    BY ThrowFields DEF Loses
<1>3. NoLostWork'
    BY <1>1 DEF ConnectedInv, NoLostWork, Lost, IdleConn
<1>4. ASSUME NEW q \in Session, q # s PROVE SessionInv(q)'
    <2>1. SessionInv(q)
        BY DEF ConnectedInv
    <2>2. Untouched(q)
        <3>1. InPlace(conn', q, sess[q], pump[q], hist[q], Connected(q))
            BY <1>1, <1>4 DEF Lost, OthersInPlace
        <3> QED
            BY <1>1, <1>2, <1>4, <3>1 DEF Untouched, OnlySession, Lost
    <2>3. ASSUME Connected(q) PROVE Unharmed(q)
        <3>1. /\ TxRight(conn, sess[q], pump[q], hist[q])
              /\ RowsRight(conn, q, sess[q], pump[q], hist[q])
            BY <2>1, <2>3 DEF SessionInv, Live
        <3>2. /\ sess[q].txClient # Null => sess[q].txClient \in Client \ {c}
              /\ conn'[c].work = {}
              /\ \A d \in Client \ {c} : conn'[d] = conn[d]
            BY <1>1, <1>4, FieldTypes DEF Lost, IdleConn
        <3>3. \A h \in Shard : \A x \in durable'[h] : x.s = q => x \in durable[h]
            BY <1>1, <1>4 DEF Lost
        <3>4. TxRight(conn', sess[q], pump[q], hist[q])
            BY <3>1, <3>2 DEF TxRight
        <3>5. RowsRight(conn', q, sess[q], pump[q], hist[q])
            BY <3>1, <3>2 DEF RowsRight
        <3> QED
            BY <3>2, <3>3, <3>4, <3>5 DEF Unharmed
    <2> QED
        BY <2>1, <2>2, <2>3, UntouchedInv
<1> QED
    BY <1>3, <1>4

\* The session that loses its statement.
LEMMA LostConnected ==
    ASSUME TypeInv, TypeInv', ConnectedInv, NEW s \in Session, NEW c \in Client, NEW r,
           Loses(s, c, r)
    PROVE  ConnectedInv'
<1>1. Lost(s, c, r) /\ pump[s].pc = "autoQuery" /\ UNCHANGED <<up, socket, acked>>
    BY LostFacts DEF Loses
<1>2. /\ sess'[s] = sess[s] /\ pump'[s].pc = "idle" /\ ended' = ended
      /\ hist'[s].unit = hist[s].unit /\ hist'[s].open = hist[s].open
    BY ThrowFields DEF Loses
<1>3. NoLostWork' /\ \A q \in Session \ {s} : SessionInv(q)'
    BY OthersLost
<1>4. /\ Connected(s)' <=> Connected(s)
      /\ Connected(s) => Live(s) /\ sess[s].txClient = Null /\ ~sess[s].inTx
                         /\ ~hist[s].open
    BY <1>1 DEF Connected, ConnectedInv, SessionInv, Live, Unit
<1>5. InPlace(conn, s, sess[s], pump[s], hist[s], Connected(s))'
    <2>1. sess'[s].txClient \in Client \cup {Null}
        BY <1>2, FieldTypes
    <2>2. /\ NoneSent(conn', s) /\ Keeps(conn', s, sess'[s])
          /\ Connected(s)' => NoCleanups(conn', s) /\ sess'[s].txClient = Null
        BY <1>1, <1>2, <1>4 DEF Lost
    <2> QED
        BY <2>1, <2>2, CalmInPlace
<1>6. ASSUME ~Connected(s)' PROVE EndedPast(s)' /\ CommitKept(s)'
    <2>1. /\ EndedPast(s) /\ CommitKept(s)
          /\ \A h \in Shard : durable[h] \subseteq durable'[h]
        BY <1>1 DEF ConnectedInv, SessionInv, Lost
    <2> QED
        BY <1>1, <1>2, <2>1, PastStep
<1>7. ASSUME Connected(s)' PROVE Live(s)'
    <2>1. Live(s) /\ sess[s].txClient = Null /\ ~sess[s].inTx /\ ~hist[s].open
        BY <1>4, <1>7
    <2>2. r.row.s = s /\ ~r.row.tx /\ ShardOf[r.row.tid] = HostOf[c]
        BY <1>1, <1>4, <1>7, <2>1 DEF Lost
    <2>3. /\ \A h \in Shard : durable[h] \subseteq durable'[h]
          /\ \A h \in Shard : \A x \in durable'[h] :
               x \in durable[h] \/ (x = r.row /\ h = HostOf[c])
        BY <1>1 DEF Lost
    <2>4. up' /\ Unit(sess[s], pump[s], hist[s], up)'
        BY <1>1, <1>2, <2>1 DEF Live, Unit
    <2>5. /\ PinRight(sess[s], pump[s])' /\ NotYet(s)'
          /\ TxRight(conn, sess[s], pump[s], hist[s])'
        BY <1>2, <2>1 DEF PinRight, NotYet, TxRight
    <2>6. RowsRight(conn, s, sess[s], pump[s], hist[s])'
        <3>1. \A d \in Client : \A x \in conn[d].work : x.s = s =>
                ShardOf[x.tid] = HostOf[d] /\ ~x.tx
            BY <2>1 DEF Live, RowsRight
        <3>2. \A d \in Client : \A x \in conn'[d].work : x \in conn[d].work
            BY <1>1 DEF Lost, IdleConn
        <3> QED
            BY <3>1, <3>2 DEF RowsRight
    <2>7. DurableOnShard(s)'
        BY <2>1, <2>2, <2>3 DEF Live, DurableOnShard
    <2>8. Ledger(s)'
        <3>1. Ledger(s)
            BY <2>1 DEF Live
        <3>2. \A h \in Shard : \A x \in durable'[h] : x.s = s /\ x.tx => x \in durable[h]
            BY <2>2, <2>3
        <3> QED
            BY <1>1, <1>2, <2>1, <2>3, <3>1, <3>2, LedgerStays
    <2> QED
        BY <2>4, <2>5, <2>6, <2>7, <2>8 DEF Live
<1> QED
    BY <1>3, <1>5, <1>6, <1>7, ActingSession

\* A backend connection is lost, with one statement or with the whole process.
LEMMA BackendLostConnected ==
    ASSUME TypeInv, TypeInv', ConnectedInv, NEW c \in Client, BackendLost(c)
    PROVE  ConnectedInv'
<1> DEFINE r == Head(conn[c].queue)
<1>1. CASE /\ Autocommits(c) /\ Len(conn[c].queue) = 1
           /\ \E rows \in {{}, {r.row}} :
                durable' = [durable EXCEPT ![HostOf[c]] = @ \cup rows]
           /\ Throw(r.s, sess[r.s], [conn EXCEPT ![c] = IdleConn])
           /\ UNCHANGED <<up, buf, socket>> /\ acked' = acked
    <2>1. conn[c].queue \in Seq(Request) /\ conn[c].queue # << >>
        BY <1>1, ClientType, EmptySeq
    <2>2. r = conn[c].queue[1] /\ r \in Request /\ Tail(conn[c].queue) = << >>
        <3> DEFINE k == conn[c].queue
                   t == Tail(k)
        <3>1. k \in Seq(Request) /\ k # << >> /\ Len(k) = 1
            BY <1>1, <2>1
        <3>2. r = k[1] /\ r \in Request
            BY <3>1, HeadTailProperties
        <3> HIDE DEF k
        <3>3. t \in Seq(Request) /\ Len(t) = 0
            BY <3>1, HeadTailProperties
        <3> HIDE DEF t
        <3>4. t = << >>
            BY <3>3, EmptySeq
        <3> QED
            BY <3>2, <3>4 DEF k, t
    <2>3. r.op = "DATA" /\ pump[r.s].pc = "autoQuery"
        BY <1>1, <2>1, <2>2 DEF Autocommits
    <2>4. r.by = "pump" /\ r.s \in Session
        BY <2>2, <2>3 DEF Request
    <2> HIDE DEF r
    <2>5. r = Head(conn[c].queue)
        BY DEF r
    <2>6. conn' = [conn EXCEPT ![c] = IdleConn]
        BY <1>1, <2>4, ThrowFields
    <2>7. Throw(r.s, sess[r.s], conn')
        BY <1>1, <2>6
    <2>8. Loses(r.s, c, r)
        BY <1>1, <2>1, <2>2, <2>3, <2>4, <2>5, <2>6, <2>7 DEF Loses
    <2> QED
        BY <2>4, <2>8, LostConnected
<1>2. CASE Crash /\ UNCHANGED <<hist, durable, ended, acked>>
    BY <1>2, CrashConnected
<1> QED
    BY <1>1, <1>2 DEF BackendLost

---------------------------------------------------------------------------
(***************************************************************************)
(* The invariant, and what follows from it.                                *)
(***************************************************************************)
\* At first nothing is queued and nobody has a client.
LEMMA ConnectedInit == TypeInv /\ Init => ConnectedInv
<1> SUFFICES ASSUME TypeInv, Init PROVE ConnectedInv
    OBVIOUS
<1>1. NoLostWork
    BY DEF Init, NoLostWork, IdleConn
<1>2. ASSUME NEW q \in Session PROVE SessionInv(q)
    <2>1. /\ sess[q].txClient = Null /\ pump[q].pc = "idle" /\ ~sess[q].inTx
          /\ ~sess[q].backendInTx /\ ~hist[q].open /\ up
          /\ \A c \in Client : conn[c] = IdleConn
        BY DEF Init, NewSession, IdlePump
    <2>2. \A c \in Client, i \in Nat : i \notin 1..Len(conn[c].queue)
        BY <2>1 DEF IdleConn
    <2>3. NoneSent(conn, q) /\ NoCleanups(conn, q) /\ Keeps(conn, q, sess[q])
        BY <2>1, <2>2 DEF NoneSent, Sent, NoCleanups, Keeps
    <2>4. InPlace(conn, q, sess[q], pump[q], hist[q], Connected(q))
        BY <2>1, <2>3, CalmInPlace
    <2>5. Ledger(q) /\ DurableOnShard(q)
        BY DEF Init, Ledger, EndedPast, AckedHeld, DurableHere, DurableTogether,
               DurableEnded, CommitKept, DurableOnShard
    <2>6. /\ Unit(sess[q], pump[q], hist[q], up) /\ PinRight(sess[q], pump[q])
          /\ TxRight(conn, sess[q], pump[q], hist[q]) /\ NotYet(q)
        BY <2>1 DEF Unit, PinRight, TxRight, NotYet
    <2>7. RowsRight(conn, q, sess[q], pump[q], hist[q])
        BY <2>1 DEF RowsRight, IdleConn
    <2> QED
        BY <2>1, <2>4, <2>5, <2>6, <2>7 DEF SessionInv, Live, Ledger
<1> QED
    BY <1>1, <1>2 DEF ConnectedInv

\* A step that changes nothing.
LEMMA StutterConnected ==
    ASSUME ConnectedInv, UNCHANGED vars
    PROVE  ConnectedInv'
<1>1. /\ sess' = sess /\ pump' = pump /\ socket' = socket /\ conn' = conn /\ up' = up
      /\ hist' = hist /\ durable' = durable /\ acked' = acked /\ ended' = ended
    BY DEF vars
<1>2. NoLostWork'
    BY <1>1 DEF ConnectedInv, NoLostWork
<1>3. ASSUME NEW q \in Session PROVE SessionInv(q)'
    <2>1. SessionInv(q)
        BY DEF ConnectedInv
    <2>2. InPlace(conn, q, sess[q], pump[q], hist[q], Connected(q))'
        BY <1>1, <2>1 DEF SessionInv, Connected
    <2>3. EndedPast(q)' /\ CommitKept(q)'
        BY <1>1, <2>1 DEF SessionInv, EndedPast, CommitKept
    <2>4. ASSUME Connected(q)' PROVE Live(q)'
        <3>1. Live(q)
            BY <1>1, <2>1, <2>4 DEF SessionInv, Connected
        <3>2. up' /\ NotYet(q)' /\ DurableOnShard(q)'
            BY <1>1, <3>1 DEF Live, NotYet, DurableOnShard
        <3>3. /\ Unit(sess[q], pump[q], hist[q], up)' /\ PinRight(sess[q], pump[q])'
              /\ TxRight(conn, sess[q], pump[q], hist[q])'
              /\ RowsRight(conn, q, sess[q], pump[q], hist[q])'
            BY <1>1, <3>1 DEF Live
        <3>4. Ledger(q)'
            BY <1>1, <3>1 DEF Live, Ledger, EndedPast, AckedHeld, DurableHere,
               DurableTogether, DurableEnded, CommitKept, Current
        <3> QED
            BY <3>2, <3>3, <3>4 DEF Live
    <2> QED
        BY <2>2, <2>3, <2>4 DEF SessionInv
<1> QED
    BY <1>2, <1>3 DEF ConnectedInv

\* Every step keeps the invariant.
LEMMA ConnectedStep ==
    TypeInv /\ TypeInv' /\ ConnectedInv /\ [Next]_vars => ConnectedInv'
<1> SUFFICES ASSUME TypeInv, TypeInv', ConnectedInv, [Next]_vars PROVE ConnectedInv'
    OBVIOUS
<1>1. ASSUME NEW s \in Session, Receive(s) PROVE ConnectedInv'
    BY <1>1, ReceiveConnected
<1>2. ASSUME NEW s \in Session, TakeMessage(s) \/ FinishMessage(s) PROVE ConnectedInv'
    BY <1>2, MessagePasses, PassesConnected
<1>3. ASSUME NEW s \in Session, SetTid(s) \/ ResetTid(s) \/ Data(s) PROVE ConnectedInv'
    BY <1>3, DispatchPasses, PassesConnected
<1>4. ASSUME NEW s \in Session,
             \/ LookupFails(s) \/ ConnectFails(s)
             \/ SetLookupReply(s) \/ AutoLookupReply(s)
      PROVE  ConnectedInv'
    BY <1>4, ReplyPasses, PassesConnected
<1>5. ASSUME NEW s \in Session, Begin(s) PROVE ConnectedInv'
    BY <1>5, BeginConnected
<1>6. ASSUME NEW s \in Session, EndStatement(s) PROVE ConnectedInv'
    BY <1>6, EndStatementConnected
<1>7. ASSUME NEW s \in Session, PinLookupReply(s) PROVE ConnectedInv'
    BY <1>7, PinLookupConnected
<1>8. ASSUME NEW s \in Session, PinConnected(s) PROVE ConnectedInv'
    BY <1>8, PinConnectedConnected
<1>9. ASSUME NEW s \in Session, AutoConnected(s) PROVE ConnectedInv'
    BY <1>9, AutoConnectedConnected
<1>10. ASSUME NEW s \in Session, SocketError(s) \/ SocketClose(s) PROVE ConnectedInv'
    BY <1>10, SocketConnected
<1>11. ASSUME NEW c \in Client, Serve(c) PROVE ConnectedInv'
    BY <1>11, ServeConnected
<1>12. ASSUME NEW c \in Client, BackendLost(c) PROVE ConnectedInv'
    BY <1>12, BackendLostConnected
<1>13. ASSUME UNCHANGED vars PROVE ConnectedInv'
    BY <1>13, StutterConnected
<1> QED
    BY <1>1, <1>2, <1>3, <1>4, <1>5, <1>6, <1>7, <1>8, <1>9, <1>10, <1>11, <1>12,
       <1>13 DEF Next, Step

\* The invariant holds whatever fails.
LEMMA ConnectedInvHolds == Spec => []ConnectedInv
<1>1. Init => TypeInv
    BY TypeInit
<1>2. TypeInv /\ Init => ConnectedInv
    BY ConnectedInit
<1>3. TypeInv /\ TypeInv' /\ ConnectedInv /\ [Next]_vars => ConnectedInv'
    BY ConnectedStep
<1> QED
    BY <1>1, <1>2, <1>3, TypeInvHolds, PTL DEF Spec

\* The rows of a connected session, in a backend's transaction or durable.
LEMMA RowsOfConnected ==
    ASSUME TypeInv, ConnectedInv, NEW s \in Session, Connected(s),
           NEW h \in Shard, NEW r \in RowsAt(h), r.s = s
    PROVE  /\ ShardOf[r.tid] = h
           /\ \/ r \in durable[h]
              \/ r.tx => /\ r.unit = hist[s].unit /\ hist[s].open
                         /\ sess[s].txClient # Null /\ HostOf[sess[s].txClient] = h
<1>1. Live(s)
    BY DEF ConnectedInv, SessionInv
<1>2. CASE r \in durable[h]
    BY <1>1, <1>2 DEF Live, DurableOnShard
<1>3. CASE r \notin durable[h]
    <2>1. PICK c \in Client : HostOf[c] = h /\ r \in conn[c].work
        BY <1>3 DEF RowsAt
    <2>2. c # Null
        BY ClientType
    <2>3. /\ ShardOf[r.tid] = HostOf[c]
          /\ r.tx => /\ sess[s].txClient = c
                     /\ r.unit = hist[s].unit /\ hist[s].open
        BY <1>1, <2>1 DEF Live, RowsRight
    <2> QED
        BY <2>1, <2>2, <2>3
<1> QED
    BY <1>2, <1>3

\* What the disconnects of other clients, and what fails besides, leave of a client that
\* is still connected: its statements go where their tids are placed, a transaction is on
\* one shard, and none of it is durable early (cleanup and ensurePinned of session.ts).
THEOREM DisconnectsMoveNoRows == Spec => []ConnectedRowsRight
<1>1. TypeInv /\ ConnectedInv => ConnectedRowsRight
    <2> SUFFICES ASSUME TypeInv, ConnectedInv, NEW s \in Session, Connected(s),
                        NEW h \in Shard
                 PROVE  /\ \A r \in RowsAt(h) : r.s = s =>
                             /\ ShardOf[r.tid] = h
                             /\ \A g \in Shard : \A q \in RowsAt(g) :
                                  SameTx(r, q) => g = h
                        /\ "commit" \notin Faults =>
                             \A r \in durable[h] : r.s = s /\ r.tx =>
                                \E e \in ended : e.s = s /\ e.unit = r.unit
        BY DEF ConnectedRowsRight
    <2>1. Live(s)
        BY DEF ConnectedInv, SessionInv
    <2>2. ASSUME NEW r \in RowsAt(h), r.s = s, NEW g \in Shard, NEW q \in RowsAt(g),
                 SameTx(r, q)
          PROVE  g = h
        <3>1. q.s = s /\ r.tx /\ q.tx /\ r.unit = q.unit
            BY <2>2 DEF SameTx
        <3>2. up /\ DurableHere(s) /\ DurableTogether(s)
            BY <2>1 DEF Live, Ledger
        <3>3. \/ r \in durable[h]
              \/ /\ r.unit = hist[s].unit /\ hist[s].open
                 /\ sess[s].txClient # Null /\ HostOf[sess[s].txClient] = h
            BY <2>2, <3>1, RowsOfConnected
        <3>4. \/ q \in durable[g]
              \/ /\ q.unit = hist[s].unit /\ hist[s].open
                 /\ sess[s].txClient # Null /\ HostOf[sess[s].txClient] = g
            BY <3>1, RowsOfConnected
        <3>5. CASE r \in durable[h] /\ q \in durable[g]
            BY <2>2, <3>2, <3>5 DEF DurableTogether
        <3>6. CASE r \notin durable[h] /\ q \in durable[g]
            BY <3>1, <3>2, <3>3, <3>6 DEF DurableHere, Current
        <3>7. CASE r \in durable[h] /\ q \notin durable[g]
            BY <2>2, <3>1, <3>2, <3>4, <3>7 DEF DurableHere, Current
        <3>8. CASE r \notin durable[h] /\ q \notin durable[g]
            BY <3>3, <3>4, <3>8
        <3> QED
            BY <3>5, <3>6, <3>7, <3>8
    <2>3. "commit" \notin Faults =>
            \A r \in durable[h] : r.s = s /\ r.tx =>
               \E e \in ended : e.s = s /\ e.unit = r.unit
        BY <2>1 DEF Live, Ledger, DurableEnded
    <2> QED
        BY <2>2, <2>3, RowsOfConnected
<1> QED
    BY <1>1, TypeInvHolds, ConnectedInvHolds, PTL

\* What a client was told is committed is, whether sockets break or not: the COMMIT of a
\* client that is still connected keeps every statement it was answered.
THEOREM CommitsAreKept == Spec => []CommitKeepsAll
<1>1. TypeInv /\ ConnectedInv => CommitKeepsAll
    <2> SUFFICES ASSUME TypeInv, ConnectedInv, NEW e \in ended, e.told,
                        NEW r \in acked, r.tx, r.s = e.s, r.unit = e.unit
                 PROVE  \E h \in Shard : r \in durable[h]
        BY DEF CommitKeepsAll
    <2>1. e.s \in Session
        BY DEF TypeInv, TypeOK
    <2>2. CommitKept(e.s)
        BY <2>1 DEF ConnectedInv, SessionInv
    <2> QED
        BY <2>2 DEF CommitKept
<1> QED
    BY <1>1, TypeInvHolds, ConnectedInvHolds, PTL

\* The transaction of every client that is still there keeps its pin.
KeepsPins ==
    \A s \in Session :
         Connected(s)' /\ sess[s].pinnedIndex # Null /\ hist[s].open /\ hist'[s].open
         => sess'[s].pinnedIndex = sess[s].pinnedIndex

\* A transaction keeps its shard until it has ended or its client is gone, whatever the
\* cleanup() of other sessions does (ensurePinned of session.ts).
THEOREM PinsHold == Spec => PinHolds
<1>1. TypeInv /\ TidInv /\ ConnectedInv /\ Next => KeepsPins
    <2> SUFFICES ASSUME TypeInv, TidInv, ConnectedInv, Next PROVE KeepsPins
        OBVIOUS
    <2>1. ASSUME NEW s \in Session, Moves(s) PROVE KeepsPins
        BY <2>1 DEF Moves, Spends, KeepsPin, OnlySession, KeepsPins
    <2>2. ASSUME NEW s \in Session, Spends(s), CleanupActs(s) PROVE KeepsPins
        <3>1. ~Connected(s)'
            <4>1. ASSUME Connected(s), NEW c \in Client, conn[c].queue # << >>,
                         Head(conn[c].queue).by = "cleanup", Head(conn[c].queue).s = s
                  PROVE  FALSE
                <5>1. conn[c].queue \in Seq(Request)
                    BY ClientType
                <5>2. /\ Head(conn[c].queue) = conn[c].queue[1]
                      /\ 1 \in Nat /\ 1 \in 1..Len(conn[c].queue)
                    BY <4>1, <5>1
                <5>3. NoCleanups(conn, s)
                    BY <4>1 DEF ConnectedInv, SessionInv, InPlace
                <5> QED
                    BY <4>1, <5>2, <5>3 DEF NoCleanups
            <4> QED
                BY <2>2, <4>1 DEF CleanupActs, Connected
        <3> QED
            BY <2>2, <3>1 DEF Spends, OnlySession, KeepsPins
    <2>3. CASE Crash
        BY <2>3 DEF Crash, KeepsPins, Connected
    <2> QED
        BY <2>1, <2>2, <2>3, StepMoves
<1>2. TypeInv /\ TidInv /\ ConnectedInv /\ [Next]_vars => [KeepsPins]_vars
    BY <1>1
<1>3. [][KeepsPins]_vars => PinHolds
    BY PTL DEF PinHolds, KeepsPins
<1> QED
    BY <1>2, <1>3, TypeInvHolds, TidInvHolds, ConnectedInvHolds, PTL DEF Spec

===========================================================================
