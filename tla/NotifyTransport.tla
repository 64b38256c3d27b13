-------------------------- MODULE NotifyTransport --------------------------
(***************************************************************************)
(* LISTEN, UNLISTEN and NOTIFY over the MtddNotify coordinator             *)
(* (src/grpc-notify-client.ts), with the registry of who listens to what   *)
(* (src/notification-registry.ts) and the handlers of the commands and of  *)
(* release() (src/listen-notify-handler.ts, src/listen-notify-lifecycle.ts).*)
(*                                                                         *)
(* A target is a pool or a checked-out client.  Its commands are unary     *)
(* calls of the coordinator, its notifications come in over a Watch        *)
(* stream, and a stream that is lost is reopened after a delay, with all   *)
(* that the registry knows subscribed again.  Commands, streams, timers    *)
(* and resubscriptions of a target run concurrently.                       *)
(*                                                                         *)
(* The coordinator is external: it keeps its subscriptions in memory and   *)
(* sends a notification down every open stream of every subscriber.        *)
(***************************************************************************)
EXTENDS Naturals, Sequences, FiniteSets, SequencesExt

CONSTANTS
    Target,         \* pools and checked-out clients
    Checkout,       \* the targets that have a release()
    Caller,         \* what may issue commands on a target at the same time
    Key,            \* channels, with the tid scope they were named in
    Null,
    Command,        \* the commands callers issue in this instance
    MaxCommands,    \* bound: commands issued on a target
    MaxPublished,   \* bound: notifications published
    MaxFaults,      \* bound: broken streams and coordinator restarts
    Stream,         \* names for the Watch calls of a target open at a time
    Faults          \* what may fail in this instance

Op == {"LISTEN", "UNLISTEN", "UNLISTEN *", "NOTIFY", "RELEASE"}

ASSUME ConstantsAssumption ==
    /\ Checkout \subseteq Target
    /\ Command \subseteq Op
    /\ Null \notin Target \cup Key \cup Stream
    /\ MaxCommands \in Nat /\ MaxPublished \in Nat /\ MaxFaults \in Nat
    /\ IsFiniteSet(Stream) /\ IsFiniteSet(Target) /\ IsFiniteSet(Caller)
    /\ Faults \subseteq {"refuse", "late", "stream", "restart", "close"}

VARIABLES
    entry,      \* entry[t]: t's registry entry: "none" yet, "live" or "removed"
    channels,   \* channels[t]: the keys t listens to, as the registry has it
    watching,   \* watchCalls: the Watch call of t, or Null
    call,       \* call[t][i]: "free", "open", or "ending": its event is to come
    inbox,      \* inbox[t][i]: notifications on the way down stream i
    timers,     \* timers[t]: reconnects scheduled
    resub,      \* resub[t]: the resubscribeAll() loops of t that run
    cmd,        \* cmd[t][q]: the command of caller q in flight, or Null
    closed,     \* close() was called
    subs,       \* subs[t]: the coordinator's subscriptions of t
    published,  \* the number of notifications published
    got,        \* got[t][n]: how often t received notification n
    released,   \* released[t]: "no", "pending", "failed" or "done"
    skipped,    \* skipped[t]: since its stream was last lost, t got another one
                \*   without the resubscription, or with one that failed
    cancelled,  \* cancelled[t]: unsubscribeAll() has cancelled a call of t
    issued,     \* the number of commands issued on t
    faults      \* broken streams and restarts so far

local == <<entry, channels, watching, timers, resub, cmd, closed>>
ghosts == <<got, released, skipped, cancelled, issued, faults>>
vars == <<entry, channels, watching, call, inbox, timers, resub, cmd, closed,
          subs, published, got, released, skipped, cancelled, issued, faults>>

\* A unary call: sent, executed or refused by the coordinator, and answered.
\* "late" is a call that was executed and reported as failed (its deadline).
Progress == {"sent", "applied", "refused", "late"}
Request == [op : Op, key : Key \cup {Null}, at : Progress]

\* Null is no request.
ASSUME NullAssumption == Null \notin Request

Loop == [key : Key, rest : SUBSET Key, at : Progress]

\* Types; and a call in watchCalls is one whose end has not been handled.
TypeOK ==
    /\ entry \in [Target -> {"none", "live", "removed"}]
    /\ channels \in [Target -> SUBSET Key]
    /\ watching \in [Target -> Stream \cup {Null}]
    /\ call \in [Target -> [Stream -> {"free", "open", "ending"}]]
    /\ inbox \in [Target -> [Stream -> Seq(1..MaxPublished)]]
    /\ timers \in [Target -> Nat]
    /\ resub \in [Target -> Seq(Loop)]
    /\ cmd \in [Target -> [Caller -> Request \cup {Null}]]
    /\ closed \in BOOLEAN
    /\ subs \in [Target -> SUBSET Key]
    /\ published \in 0..MaxPublished
    /\ got \in [Target -> [1..MaxPublished -> Nat]]
    /\ released \in [Target -> {"no", "pending", "failed", "done"}]
    /\ skipped \in [Target -> BOOLEAN]
    /\ cancelled \in [Target -> BOOLEAN]
    /\ issued \in [Target -> 0..MaxCommands]
    /\ faults \in 0..MaxFaults
    /\ \A t \in Target : watching[t] # Null => call[t][watching[t]] # "free"

Init ==
    /\ entry = [t \in Target |-> "none"]
    /\ channels = [t \in Target |-> {}]
    /\ watching = [t \in Target |-> Null]
    /\ call = [t \in Target |-> [i \in Stream |-> "free"]]
    /\ inbox = [t \in Target |-> [i \in Stream |-> << >>]]
    /\ timers = [t \in Target |-> 0]
    /\ resub = [t \in Target |-> << >>]
    /\ cmd = [t \in Target |-> [q \in Caller |-> Null]]
    /\ closed = FALSE
    /\ subs = [t \in Target |-> {}]
    /\ published = 0
    /\ got = [t \in Target |-> [n \in 1..MaxPublished |-> 0]]
    /\ released = [t \in Target |-> "no"]
    /\ skipped = [t \in Target |-> FALSE]
    /\ cancelled = [t \in Target |-> FALSE]
    /\ issued = [t \in Target |-> 0]
    /\ faults = 0
---------------------------------------------------------------------------
(***************************************************************************)
(* Watch streams.                                                          *)
(***************************************************************************)
\* client.Watch(), entered in watchCalls.
OpenWatch(t) ==
    LET free == {i \in Stream : call[t][i] = "free"}
        i == CHOOSE j \in free : TRUE
    IN /\ free # {}
       /\ watching' = [watching EXCEPT ![t] = i]
       /\ call' = [call EXCEPT ![t][i] = "open"]

\* Mutant: a target that has a watch gets another.
EnsureWatch_Always(t) ==
    IF closed THEN UNCHANGED <<watching, call>> ELSE OpenWatch(t)

\* ensureWatch(): startWatch() unless there is a call already.
EnsureWatch(t) ==
    IF closed \/ watching[t] # Null THEN UNCHANGED <<watching, call>>
    ELSE OpenWatch(t)

\* Mutant: the call that ended stays in watchCalls.
Forget_Keeps(t) == watching

\* watchCalls.delete().
Forget(t) == [watching EXCEPT ![t] = Null]

\* unsubscribeAll() has been answered: the call in watchCalls is cancelled, so
\* that its 'error' is to come, and its entry deleted.
DropWatch(t) ==
    LET i == watching[t] IN
        /\ watching' = Forget(t)
        /\ cancelled' = [cancelled EXCEPT ![t] = @ \/ i # Null]
        /\ IF i = Null THEN UNCHANGED <<call, inbox>>
           ELSE /\ call' = [call EXCEPT ![t][i] = "ending"]
                /\ inbox' = [inbox EXCEPT ![t][i] = << >>]

\* Mutant: a broken stream is not reopened.
Reconnect_Never(t, w) == timers

\* The timers after scheduleWatchReconnect(), with w in watchCalls.
Reconnect(t, w) ==
    IF closed \/ w # Null THEN timers ELSE [timers EXCEPT ![t] = @ + 1]

\* 'error' or 'end' of a call: the handler deletes the target's entry of
\* watchCalls, whichever call is in it by then.  A failed stream also ends on
\* the next tick, and the second event schedules a reconnect of its own.
StreamEvent(t, i) ==
    /\ call[t][i] = "ending"
    /\ call' = [call EXCEPT ![t][i] = "free"]
    /\ watching' = Forget(t)
    /\ LET once == Reconnect(t, Null) IN
         \E extra \in IF once = timers THEN {0} ELSE {0, 1} :
           timers' = [once EXCEPT ![t] = @ + extra]
    /\ skipped' = [skipped EXCEPT ![t] = FALSE]
    /\ UNCHANGED <<entry, channels, inbox, resub, cmd, closed, subs, published,
                   got, released, cancelled, issued, faults>>

\* 'data': the notification is emitted on the target, if it is registered.
StreamData(t, i) ==
    /\ call[t][i] = "open"
    /\ inbox[t][i] # << >>
    /\ inbox' = [inbox EXCEPT ![t][i] = Tail(@)]
    /\ got' = IF entry[t] = "live" THEN [got EXCEPT ![t][Head(inbox[t][i])] = @ + 1]
              ELSE got
    /\ UNCHANGED <<local, call, subs, published, released, skipped, cancelled, issued,
                   faults>>

\* Mutant: close() is not looked at again when the delay is over.
Timer_IgnoresClose(t) ==
    /\ timers[t] > 0
    /\ timers' = [timers EXCEPT ![t] = @ - 1]
    /\ IF watching[t] # Null THEN UNCHANGED <<watching, call>> ELSE OpenWatch(t)
    /\ UNCHANGED <<entry, channels, inbox, resub, cmd, closed, subs, published,
                   ghosts>>

\* Mutant: the stream is reopened and nothing is subscribed again.
Timer_WatchOnly(t) ==
    /\ timers[t] > 0
    /\ timers' = [timers EXCEPT ![t] = @ - 1]
    /\ IF closed \/ watching[t] # Null THEN UNCHANGED <<watching, call>> ELSE OpenWatch(t)
    /\ UNCHANGED <<entry, channels, inbox, resub, cmd, closed, subs, published,
                   ghosts>>

\* The delay of a reconnect is over: startWatch(), then resubscribeAll() with
\* what the registry has at this moment.
Timer(t) ==
    /\ timers[t] > 0
    /\ timers' = [timers EXCEPT ![t] = @ - 1]
    /\ IF closed \/ watching[t] # Null THEN UNCHANGED <<watching, call, resub>>
       ELSE /\ OpenWatch(t)
            /\ IF channels[t] = {} THEN UNCHANGED resub
               ELSE \E k \in channels[t] :
                      resub' = [resub EXCEPT ![t] = Append(@,
                        [key |-> k, rest |-> channels[t] \ {k}, at |-> "sent"])]
    /\ UNCHANGED <<entry, channels, inbox, cmd, closed, subs, published, ghosts>>
---------------------------------------------------------------------------
(***************************************************************************)
(* The coordinator executes or refuses a request.                          *)
(***************************************************************************)
Outcomes == {"applied"} \cup (Faults \cap {"late"})
              \cup (IF "refuse" \in Faults THEN {"refused"} ELSE {})

\* Publish: the notification goes down every open stream of the subscribers.
Delivered(k, n) ==
    [t \in Target |-> [i \in Stream |->
       IF k \in subs[t] /\ call[t][i] = "open" THEN Append(inbox[t][i], n)
       ELSE inbox[t][i]]]

SubscriptionsAfter(t, r) ==
    [subs EXCEPT ![t] =
        IF r.op = "LISTEN" THEN @ \cup {r.key}
        ELSE IF r.op = "UNLISTEN" THEN @ \ {r.key}
        ELSE IF r.op = "NOTIFY" THEN @
        ELSE {}]

Coordinate(t, q) ==
    LET r == cmd[t][q] IN
        /\ r # Null
        /\ r.at = "sent"
        /\ \E at \in Outcomes :
             /\ cmd' = [cmd EXCEPT ![t][q].at = at]
             /\ IF at = "refused" THEN UNCHANGED <<subs, inbox, published>>
                ELSE /\ subs' = SubscriptionsAfter(t, r)
                     /\ IF r.op # "NOTIFY" THEN UNCHANGED <<inbox, published>>
                        ELSE /\ published' = published + 1
                             /\ inbox' = Delivered(r.key, published')
        /\ UNCHANGED <<entry, channels, watching, call, timers, resub, closed, ghosts>>

CoordinateLoop(t, j) ==
    /\ resub[t][j].at = "sent"
    /\ \E at \in Outcomes :
         /\ resub' = [resub EXCEPT ![t][j].at = at]
         /\ subs' = IF at = "refused" THEN subs
                    ELSE [subs EXCEPT ![t] = @ \cup {resub[t][j].key}]
    /\ UNCHANGED <<entry, channels, watching, call, inbox, timers, cmd, closed,
                   published, ghosts>>
---------------------------------------------------------------------------
(***************************************************************************)
(* The commands of a caller, and what their answers do.                    *)
(***************************************************************************)
\* getLogicalClientId(): a target is registered when it is first used.
Registered(t) == [entry EXCEPT ![t] = IF @ = "none" THEN "live" ELSE @]

\* Whose NOTIFY is in flight.
Notifying ==
    {c \in Target \X Caller : cmd[c[1]][c[2]] # Null /\ cmd[c[1]][c[2]].op = "NOTIFY"}

\* Caller q issues a command: what runs up to the unary call.  A LISTEN whose
\* ensureWatch() opens a stream leaves nothing for the reconnect to do.
Issue(t, q, op, k) ==
    /\ op \in Command \ {"RELEASE"}
    /\ ~closed
    /\ released[t] = "no"
    /\ cmd[t][q] = Null
    /\ issued[t] < MaxCommands
    /\ op = "NOTIFY" => published + Cardinality(Notifying) < MaxPublished
    /\ entry' = Registered(t)
    /\ IF op = "LISTEN" THEN EnsureWatch(t) ELSE UNCHANGED <<watching, call>>
    /\ cmd' = [cmd EXCEPT ![t][q] = [op |-> op, at |-> "sent",
                                     key |-> IF op = "UNLISTEN *" THEN Null ELSE k]]
    /\ issued' = [issued EXCEPT ![t] = @ + 1]
    /\ skipped' = [skipped EXCEPT ![t] =
                     @ \/ (op = "LISTEN" /\ watching[t] = Null /\ channels[t] # {})]
    /\ UNCHANGED <<channels, inbox, timers, resub, closed, subs, published, got,
                   released, cancelled, faults>>

\* release(): a target without subscriptions is only removed from the registry.
Release(t, q) ==
    /\ "RELEASE" \in Command
    /\ t \in Checkout
    /\ ~closed
    /\ released[t] = "no"
    /\ cmd[t][q] = Null
    /\ issued[t] < MaxCommands
    /\ issued' = [issued EXCEPT ![t] = @ + 1]
    /\ IF channels[t] = {}
       THEN /\ entry' = [entry EXCEPT ![t] = IF @ = "live" THEN "removed" ELSE @]
            /\ released' = [released EXCEPT ![t] = "done"]
            /\ UNCHANGED cmd
       ELSE /\ cmd' = [cmd EXCEPT ![t][q] =
                         [op |-> "RELEASE", key |-> Null, at |-> "sent"]]
            /\ released' = [released EXCEPT ![t] = "pending"]
            /\ UNCHANGED entry
    /\ UNCHANGED <<channels, watching, call, inbox, timers, resub, closed, subs,
                   published, got, skipped, cancelled, faults>>

\* The registry after a command, which a failed one leaves alone.
ChannelsAfter(t, r) ==
    IF entry[t] # "live" \/ r.at # "applied" THEN channels[t]
    ELSE IF r.op = "LISTEN" THEN channels[t] \cup {r.key}
    ELSE IF r.op = "UNLISTEN" THEN channels[t] \ {r.key}
    ELSE IF r.op = "NOTIFY" THEN channels[t]
    ELSE {}

Answer(t, q) ==
    LET r == cmd[t][q] IN
        /\ r # Null
        /\ r.at # "sent"
        /\ cmd' = [cmd EXCEPT ![t][q] = Null]
        /\ channels' = [channels EXCEPT ![t] = ChannelsAfter(t, r)]
        /\ IF r.op \in {"UNLISTEN *", "RELEASE"} /\ r.at = "applied" THEN DropWatch(t)
           ELSE UNCHANGED <<watching, call, inbox, cancelled>>
        /\ IF r.op # "RELEASE" THEN UNCHANGED <<entry, released>>
           ELSE IF r.at = "applied"
           THEN /\ entry' = [entry EXCEPT ![t] = "removed"]
                /\ released' = [released EXCEPT ![t] = "done"]
           ELSE /\ released' = [released EXCEPT ![t] = "failed"]
                /\ UNCHANGED entry
        /\ UNCHANGED <<timers, resub, closed, subs, published, got, skipped, issued,
                       faults>>

\* The next Subscribe of a resubscription, or its end.  A failure ends it, and
\* the reconnect that startWatch()'s caller schedules finds the watch open.
AnswerLoop(t, j) ==
    LET l == resub[t][j] IN
        /\ l.at # "sent"
        /\ IF l.at = "applied" /\ l.rest # {}
           THEN /\ \E k \in l.rest :
                     resub' = [resub EXCEPT ![t][j] =
                                 [key |-> k, rest |-> l.rest \ {k}, at |-> "sent"]]
                /\ UNCHANGED <<timers, skipped>>
           ELSE /\ resub' = [resub EXCEPT ![t] = RemoveAt(@, j)]
                /\ timers' = IF l.at = "applied" THEN timers
                             ELSE Reconnect(t, watching[t])
                /\ skipped' = [skipped EXCEPT ![t] =
                     @ \/ (l.at # "applied" /\ watching[t] # Null /\ j = Len(resub[t]))]
        /\ UNCHANGED <<entry, channels, watching, call, inbox, cmd, closed, subs,
                       published, got, released, cancelled, issued, faults>>
---------------------------------------------------------------------------
\* close(), from shutdownMtdd() or when the transport is replaced.
Close ==
    /\ "close" \in Faults
    /\ ~closed
    /\ closed' = TRUE
    /\ watching' = [t \in Target |-> Null]
    /\ call' = [t \in Target |-> [call[t] EXCEPT ![watching[t]] = "ending"]]
    /\ inbox' = [t \in Target |-> [inbox[t] EXCEPT ![watching[t]] = << >>]]
    /\ UNCHANGED <<entry, channels, timers, resub, cmd, subs, published, ghosts>>

Breaks(t, i) ==
    /\ "stream" \in Faults
    /\ faults < MaxFaults
    /\ call[t][i] = "open"
    /\ faults' = faults + 1
    /\ call' = [call EXCEPT ![t][i] = "ending"]
    /\ inbox' = [inbox EXCEPT ![t][i] = << >>]
    /\ UNCHANGED <<local, subs, published, got, released, skipped, cancelled, issued>>

\* The calls under way when the coordinator is lost fail.
Failed(at) == CASE at = "sent" -> "refused" [] at = "applied" -> "late" [] OTHER -> at

\* The coordinator restarts: its subscriptions, every stream and the answers to
\* the calls under way are gone.
Restart ==
    /\ "restart" \in Faults
    /\ faults < MaxFaults
    /\ faults' = faults + 1
    /\ subs' = [t \in Target |-> {}]
    /\ call' = [t \in Target |-> [i \in Stream |->
                  IF call[t][i] = "open" THEN "ending" ELSE call[t][i]]]
    /\ inbox' = [t \in Target |-> [i \in Stream |-> << >>]]
    /\ cmd' = [t \in Target |-> [q \in Caller |->
                 IF cmd[t][q] = Null THEN Null
                 ELSE [cmd[t][q] EXCEPT !.at = Failed(@)]]]
    /\ resub' = [t \in Target |-> [j \in 1..Len(resub[t]) |->
                   [resub[t][j] EXCEPT !.at = Failed(@)]]]
    /\ UNCHANGED <<entry, channels, watching, timers, closed, published, got,
                   released, skipped, cancelled, issued>>

Step(t) ==
    \/ \E q \in Caller : Coordinate(t, q) \/ Answer(t, q)
    \/ \E j \in 1..Len(resub[t]) : CoordinateLoop(t, j) \/ AnswerLoop(t, j)
    \/ \E i \in Stream : StreamEvent(t, i) \/ StreamData(t, i)
    \/ Timer(t)

Next ==
    \/ \E t \in Target : Step(t)
    \/ \E t \in Target, q \in Caller :
         Release(t, q) \/ \E op \in Op, k \in Key : Issue(t, q, op, k)
    \/ \E t \in Target, i \in Stream : Breaks(t, i)
    \/ Close \/ Restart

Spec == Init /\ [][Next]_vars

\* Calls are answered, stream events handled and delays end.
Fairness == \A t \in Target :
    /\ \A q \in Caller : WF_vars(Coordinate(t, q)) /\ WF_vars(Answer(t, q))
    /\ WF_vars(\E j \in 1..Len(resub[t]) : CoordinateLoop(t, j) \/ AnswerLoop(t, j))
    /\ \A i \in Stream : WF_vars(StreamEvent(t, i))
    /\ WF_vars(Timer(t))

FairSpec == Spec /\ Fairness
---------------------------------------------------------------------------
\* No command of t is in flight.
Quiet(t) == \A q \in Caller : cmd[t][q] = Null

\* However often its stream broke and was reopened, a target has one at a time
\* and no notification is emitted on it twice, unless unsubscribeAll() cancelled
\* a call, whose event then takes a newer call out of watchCalls.
AtMostOnce ==
    \A t \in Target : ~cancelled[t] =>
      /\ \A n \in 1..MaxPublished : got[t][n] <= 1
      /\ Cardinality({i \in Stream : call[t][i] = "open"}) <= 1

\* A closed transport has no stream, and no delay or answer opens one again,
\* with the same exception.
ClosedStops ==
    closed => \A t \in Target : cancelled[t] \/ \A i \in Stream : call[t][i] # "open"

\* A target that listens gets its stream back.
WatchRestored ==
    \A t \in Target :
        channels[t] # {} ~> \/ watching[t] # Null /\ call[t][watching[t]] = "open"
                            \/ channels[t] = {}
                            \/ closed

\* Whatever the registry and the coordinator have come to disagree about (a restart, an
\* UNLISTEN that was executed and reported as failed, two callers whose answers came in
\* the other order), what t listens to when its stream is lost is subscribed again,
\* unless a LISTEN took the place of the reconnect or a Subscribe of the resubscription
\* failed: those two are what Resubscribed shows to go wrong.
Restored ==
    \A t \in Target, k \in Key :
        watching[t] = Null /\ k \in channels[t] \ subs[t] /\ ~closed
          ~> k \in subs[t] \/ k \notin channels[t] \/ closed \/ skipped[t]

\* A released client holds no stream ("LISTEN/NOTIFY cleanup on checked-out
\* client.release()").
ReleasedStopsWatching ==
    \A t \in Target : released[t] = "done" => watching[t] = Null

\* Nothing of the reconnect of t is still to happen.
Settled(t) ==
    /\ Quiet(t)
    /\ watching[t] # Null
    /\ \A i \in Stream : call[t][i] # "ending"
    /\ timers[t] = 0
    /\ resub[t] = << >>

\* After a restart of the coordinator and the reconnect that follows it, what
\* the registry has is subscribed again ("Watch reconnect with re-subscribe").
Resubscribed ==
    \A t \in Target : Settled(t) /\ ~closed => channels[t] \subseteq subs[t]
============================================================================
