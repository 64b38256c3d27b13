----------------------- MODULE NotifyTransportProofs -----------------------
(***************************************************************************)
(* Proofs about NotifyTransport: types and the room for notifications, one  *)
(* stream and one copy of a notification per target, and no stream after    *)
(* close().                                                                 *)
(***************************************************************************)
EXTENDS NotifyTransport, FiniteSetTheorems, SequenceTheorems, TLAPS

\* The NOTIFYs that are yet to be published.
Unpublished ==
    {c \in Target \X Caller :
        /\ cmd[c[1]][c[2]] # Null
        /\ cmd[c[1]][c[2]].op = "NOTIFY"
        /\ cmd[c[1]][c[2]].at = "sent"}

\* There is room for them within the bound.
RoomInv == published + Cardinality(Unpublished) <= MaxPublished

\* A command that names a channel has one.
KeyInv ==
    \A t \in Target, q \in Caller :
        cmd[t][q] # Null /\ cmd[t][q].op \in {"LISTEN", "UNLISTEN", "NOTIFY"}
          => cmd[t][q].key \in Key

TypeInv == TypeOK /\ KeyInv /\ RoomInv
---------------------------------------------------------------------------
\* What is taken out of a sequence leaves a sequence over the same set.
LEMMA RemoveAtSeq ==
    ASSUME NEW S, NEW s \in Seq(S), NEW j \in 1..Len(s)
    PROVE  RemoveAt(s, j) \in Seq(S)
<1>1. SubSeq(s, 1, j - 1) \in Seq(S)
  OBVIOUS
<1>2. SubSeq(s, j + 1, Len(s)) \in Seq(S)
  OBVIOUS
<1> QED
  BY <1>1, <1>2 DEF RemoveAt

\* The commands in flight are finitely many.
LEMMA NotifyingFinite == IsFiniteSet(Notifying)
<1>1. IsFiniteSet(Target \X Caller)
  BY ConstantsAssumption, FS_Product
<1>2. Notifying \subseteq Target \X Caller
  BY DEF Notifying
<1> QED
  BY <1>1, <1>2, FS_Subset

\* The NOTIFYs to be published are NOTIFYs in flight, and finitely many.
LEMMA UnpublishedFinite ==
    /\ IsFiniteSet(Unpublished) /\ Cardinality(Unpublished) \in Nat
    /\ IsFiniteSet(Notifying) /\ Cardinality(Notifying) \in Nat
    /\ Cardinality(Unpublished) <= Cardinality(Notifying)
<1>1. Unpublished \subseteq Notifying
  BY DEF Unpublished, Notifying
<1> QED
  BY <1>1, NotifyingFinite, FS_Subset, FS_CardinalityType

\* A step that publishes nothing and adds no NOTIFY keeps the room.
LEMMA RoomKept ==
    ASSUME RoomInv, TypeOK, published' = published, Unpublished' \subseteq Unpublished
    PROVE  RoomInv'
<1>1. Cardinality(Unpublished') <= Cardinality(Unpublished) /\ Cardinality(Unpublished') \in Nat
  BY UnpublishedFinite, FS_Subset, FS_CardinalityType
<1> QED
  BY <1>1, UnpublishedFinite, ConstantsAssumption DEF RoomInv, TypeOK

\* So does one that leaves the commands alone.
LEMMA RoomSame ==
    ASSUME RoomInv, TypeOK, published' = published, cmd' = cmd
    PROVE  RoomInv'
<1>1. Unpublished' = Unpublished
  BY DEF Unpublished
<1> QED
  BY <1>1, RoomKept

\* There is room for what a NOTIFY that is yet to be published will publish.
LEMMA RoomLeft ==
    ASSUME RoomInv, TypeOK, NEW c \in Unpublished
    PROVE  /\ published + 1 \in 0..MaxPublished
           /\ published + 1 + Cardinality(Unpublished \ {c}) <= MaxPublished
<1>1. Cardinality(Unpublished \ {c}) = Cardinality(Unpublished) - 1
  BY UnpublishedFinite, FS_RemoveElement
<1>2. Cardinality(Unpublished \ {c}) \in Nat
  BY UnpublishedFinite, FS_RemoveElement, FS_CardinalityType
<1> QED
  BY <1>1, <1>2, UnpublishedFinite, ConstantsAssumption DEF RoomInv, TypeOK
---------------------------------------------------------------------------
\* The types of the calls and of watchCalls.
CallTypes ==
    /\ watching \in [Target -> Stream \cup {Null}]
    /\ call \in [Target -> [Stream -> {"free", "open", "ending"}]]
    /\ \A t \in Target : watching[t] # Null => call[t][watching[t]] # "free"

\* The types of the rest of the state.
RestTypes ==
    /\ entry \in [Target -> {"none", "live", "removed"}]
    /\ channels \in [Target -> SUBSET Key]
    /\ inbox \in [Target -> [Stream -> Seq(1..MaxPublished)]]
    /\ timers \in [Target -> Nat]
    /\ resub \in [Target -> Seq(Loop)]
    /\ cmd \in [Target -> [Caller -> Request \cup {Null}]]
    /\ closed \in BOOLEAN
    /\ subs \in [Target -> SUBSET Key]
    /\ published \in 0..MaxPublished
    /\ got \in [Target -> [1..MaxPublished -> Nat]]
    /\ released \in [Target -> {"no", "pending", "failed", "done"}]
    /\ skipped \in [Target -> BOOLEAN]
    /\ cancelled \in [Target -> BOOLEAN]
    /\ issued \in [Target -> 0..MaxCommands]
    /\ faults \in 0..MaxFaults

\* TypeOK is these two; and a step that leaves the commands alone keeps the rest.
LEMMA TypeStep ==
    ASSUME TypeInv, CallTypes', RestTypes', UNCHANGED <<cmd, published>>
    PROVE  TypeInv'
<1>1. TypeOK'
  BY DEF TypeOK, CallTypes, RestTypes
<1>2. KeyInv'
  BY DEF TypeInv, KeyInv
<1> QED
  BY <1>1, <1>2, RoomSame DEF TypeInv

\* One that changes a command, which keeps its operation and its channel or is
\* none of those that name one, keeps the rest if the room is kept.
LEMMA CommandStep ==
    ASSUME TypeInv, CallTypes', RestTypes', RoomInv',
           NEW t \in Target, NEW q \in Caller,
           \A u \in Target, p \in Caller : <<u, p>> # <<t, q>> => cmd'[u][p] = cmd[u][p],
           cmd'[t][q] # Null /\ cmd'[t][q].op \in {"LISTEN", "UNLISTEN", "NOTIFY"}
             => cmd'[t][q].key \in Key
    PROVE  TypeInv'
<1>1. TypeOK'
  BY DEF TypeOK, CallTypes, RestTypes
<1>2. KeyInv'
  BY DEF TypeInv, KeyInv
<1> QED
  BY <1>1, <1>2 DEF TypeInv

\* A new call goes to a free stream.
LEMMA OpenWatchStep ==
    ASSUME TypeOK, NEW t \in Target, OpenWatch(t)
    PROVE  \E i \in Stream :
             /\ call[t][i] = "free"
             /\ watching' = [watching EXCEPT ![t] = i]
             /\ call' = [call EXCEPT ![t][i] = "open"]
<1> DEFINE free == {i \in Stream : call[t][i] = "free"}
<1> DEFINE i == CHOOSE j \in free : TRUE
<1>1. i \in free
  BY DEF OpenWatch
<1>2. watching' = [watching EXCEPT ![t] = i] /\ call' = [call EXCEPT ![t][i] = "open"]
  BY DEF OpenWatch
<1>3. i \in Stream /\ call[t][i] = "free"
  BY <1>1
<1> QED
  BY <1>2, <1>3

\* So the types of the calls stay.
LEMMA OpenWatchTypes ==
    ASSUME TypeOK, NEW t \in Target, OpenWatch(t)
    PROVE  CallTypes'
<1>1. PICK i \in Stream : /\ watching' = [watching EXCEPT ![t] = i]
                          /\ call' = [call EXCEPT ![t][i] = "open"]
  BY OpenWatchStep
<1>2. watching' \in [Target -> Stream \cup {Null}]
  BY <1>1 DEF TypeOK
<1>3. call' \in [Target -> [Stream -> {"free", "open", "ending"}]]
  BY <1>1 DEF TypeOK
<1>4. \A u \in Target : watching'[u] # Null => call'[u][watching'[u]] # "free"
  BY <1>1 DEF TypeOK
<1> QED
  BY <1>2, <1>3, <1>4 DEF CallTypes

\* Nothing changes, nothing breaks.
LEMMA SameCallTypes ==
    ASSUME TypeOK, UNCHANGED <<watching, call>>
    PROVE  CallTypes'
  BY DEF TypeOK, CallTypes

\* A call that ends leaves the types in order, and so does deleting an entry.
LEMMA CallSetTypes ==
    ASSUME TypeOK, NEW t \in Target, NEW i \in Stream, NEW v \in {"free", "open", "ending"},
           call' = [call EXCEPT ![t][i] = v],
           watching' = [watching EXCEPT ![t] = Null] \/ (v # "free" /\ watching' = watching)
    PROVE  CallTypes'
<1>1. call' \in [Target -> [Stream -> {"free", "open", "ending"}]]
  BY DEF TypeOK
<1>2. watching' \in [Target -> Stream \cup {Null}]
  BY DEF TypeOK
<1>3. \A u \in Target : watching'[u] # Null => call'[u][watching'[u]] # "free"
  BY DEF TypeOK
<1> QED
  BY <1>1, <1>2, <1>3 DEF CallTypes
---------------------------------------------------------------------------
(***************************************************************************)
(* Types and room, one lemma for each action.                              *)
(***************************************************************************)
\* The end of a stream is handled.
LEMMA StreamEventTypes ==
    ASSUME TypeInv, NEW t \in Target, NEW i \in Stream, StreamEvent(t, i)
    PROVE  TypeInv'
<1> USE DEF TypeInv
<1>1. CallTypes'
  BY CallSetTypes DEF StreamEvent, Forget
<1>2. timers' \in [Target -> Nat]
  <2>1. Reconnect(t, Null) \in [Target -> Nat]
    BY DEF Reconnect, TypeOK
  <2>2. PICK extra \in {0, 1} : timers' = [Reconnect(t, Null) EXCEPT ![t] = @ + extra]
    BY DEF StreamEvent
  <2> QED
    BY <2>1, <2>2
<1>3. RestTypes'
  BY <1>2 DEF StreamEvent, TypeOK, RestTypes, ghosts
<1> QED
  BY <1>1, <1>3, TypeStep DEF StreamEvent

\* A notification is emitted.
LEMMA StreamDataTypes ==
    ASSUME TypeInv, NEW t \in Target, NEW i \in Stream, StreamData(t, i)
    PROVE  TypeInv'
<1> USE DEF TypeInv
<1>1. CallTypes'
  BY SameCallTypes DEF StreamData, local
<1>2. inbox[t][i] \in Seq(1..MaxPublished) /\ inbox[t][i] # << >>
  BY DEF StreamData, TypeOK
<1>3. Head(inbox[t][i]) \in 1..MaxPublished /\ Tail(inbox[t][i]) \in Seq(1..MaxPublished)
  BY <1>2, HeadTailProperties
<1>4. inbox' \in [Target -> [Stream -> Seq(1..MaxPublished)]]
  BY <1>3 DEF StreamData, TypeOK
<1>5. got' \in [Target -> [1..MaxPublished -> Nat]]
  <2>1. got' = got \/ got' = [got EXCEPT ![t][Head(inbox[t][i])] = @ + 1]
    BY DEF StreamData
  <2>2. \A n \in 1..MaxPublished : [got EXCEPT ![t][n] = @ + 1] \in [Target -> [1..MaxPublished -> Nat]]
    <3> TAKE n \in 1..MaxPublished
    <3>0. got \in [Target -> [1..MaxPublished -> Nat]]
      BY DEF TypeOK
    <3>1. got[t] \in [1..MaxPublished -> Nat]
      BY <3>0
    <3>2. [got[t] EXCEPT ![n] = @ + 1] \in [1..MaxPublished -> Nat]
      <4>1. got[t][n] \in Nat
        BY <3>1
      <4> QED
        BY <3>1, <4>1
    <3> QED
      BY <3>0, <3>2
  <2>3. got \in [Target -> [1..MaxPublished -> Nat]]
    BY DEF TypeOK
  <2> QED
    BY <1>3, <2>1, <2>2, <2>3
<1>6. RestTypes'
  BY <1>4, <1>5 DEF StreamData, TypeOK, RestTypes, local
<1> QED
  BY <1>1, <1>6, TypeStep DEF StreamData, local

\* The delay of a reconnect is over.
LEMMA TimerTypes ==
    ASSUME TypeInv, NEW t \in Target, Timer(t)
    PROVE  TypeInv'
<1> USE DEF TypeInv
<1>1. CallTypes'
  BY SameCallTypes, OpenWatchTypes DEF Timer
<1>2. timers' \in [Target -> Nat]
  BY DEF Timer, TypeOK
<1>3. resub' \in [Target -> Seq(Loop)]
  <2>1. CASE resub' = resub
    BY <2>1 DEF TypeOK
  <2>2. CASE resub' # resub
    <3>1. PICK k \in channels[t] : resub' = [resub EXCEPT ![t] =
                   Append(@, [key |-> k, rest |-> channels[t] \ {k}, at |-> "sent"])]
      BY <2>2 DEF Timer
    <3> DEFINE l == [key |-> k, rest |-> channels[t] \ {k}, at |-> "sent"]
    <3>2. l \in Loop
      BY DEF TypeOK, Loop, Progress
    <3> HIDE DEF l
    <3>3. Append(resub[t], l) \in Seq(Loop)
      BY <3>2 DEF TypeOK
    <3> QED
      BY <3>1, <3>3 DEF TypeOK, l
  <2> QED
    BY <2>1, <2>2
<1>4. RestTypes'
  BY <1>2, <1>3 DEF Timer, TypeOK, RestTypes, ghosts
<1> QED
  BY <1>1, <1>4, TypeStep DEF Timer

\* The coordinator executes or refuses a command.
LEMMA CoordinateTypes ==
    ASSUME TypeInv, NEW t \in Target, NEW q \in Caller, Coordinate(t, q)
    PROVE  TypeInv'
<1> USE DEF TypeInv
<1>0. PICK at \in Outcomes :
        /\ cmd' = [cmd EXCEPT ![t][q].at = at]
        /\ IF at = "refused" THEN UNCHANGED <<subs, inbox, published>>
           ELSE /\ subs' = SubscriptionsAfter(t, cmd[t][q])
                /\ IF cmd[t][q].op # "NOTIFY" THEN UNCHANGED <<inbox, published>>
                   ELSE /\ published' = published + 1
                        /\ inbox' = Delivered(cmd[t][q].key, published')
  BY DEF Coordinate
<1>1. /\ cmd[t][q] \in Request /\ cmd[t][q] # Null /\ cmd[t][q].at = "sent"
      /\ at \in {"applied", "refused", "late"}
      /\ cmd[t][q].op \in {"LISTEN", "UNLISTEN", "NOTIFY"} => cmd[t][q].key \in Key
  BY <1>0 DEF Coordinate, TypeOK, KeyInv, Outcomes
<1>2. CallTypes'
  BY SameCallTypes DEF Coordinate
<1>3. [cmd[t][q] EXCEPT !.at = at] \in Request
  BY <1>1 DEF Request, Progress
<1>4. /\ cmd' \in [Target -> [Caller -> Request \cup {Null}]]
      /\ cmd'[t][q] = [cmd[t][q] EXCEPT !.at = at]
      /\ \A u \in Target, p \in Caller : <<u, p>> # <<t, q>> => cmd'[u][p] = cmd[u][p]
  BY <1>0, <1>3 DEF TypeOK
<1>5. subs' \in [Target -> SUBSET Key]
  <2>1. SubscriptionsAfter(t, cmd[t][q]) \in [Target -> SUBSET Key]
    BY <1>1 DEF TypeOK, SubscriptionsAfter
  <2> QED
    BY <1>0, <2>1 DEF TypeOK
<1>6. UNCHANGED ghosts
  BY DEF Coordinate
<1>7. CASE UNCHANGED <<inbox, published>>
  <2>1. RestTypes'
    BY <1>4, <1>5, <1>6, <1>7 DEF Coordinate, TypeOK, RestTypes, ghosts
  <2>2. Unpublished' \subseteq Unpublished
    BY <1>1, <1>4 DEF Unpublished, Request
  <2>3. RoomInv'
    BY <1>7, <2>2, RoomKept
  <2> QED
    BY <1>1, <1>2, <1>4, <2>1, <2>3, CommandStep DEF Request
<1>8. CASE /\ at # "refused" /\ cmd[t][q].op = "NOTIFY" /\ published' = published + 1
           /\ inbox' = Delivered(cmd[t][q].key, published')
  <2>1. <<t, q>> \in Unpublished
    BY <1>1, <1>8 DEF Unpublished
  <2>2. published' \in 1..MaxPublished
    <3>1. published + 1 \in 0..MaxPublished
      BY <2>1, RoomLeft
    <3>2. published \in 0..MaxPublished /\ MaxPublished \in Nat
      BY ConstantsAssumption DEF TypeOK
    <3> QED
      BY <1>8, <3>1, <3>2
  <2>3. inbox' \in [Target -> [Stream -> Seq(1..MaxPublished)]]
    <3>1. \A u \in Target, i \in Stream : Append(inbox[u][i], published') \in Seq(1..MaxPublished)
      BY <2>2, AppendProperties DEF TypeOK
    <3> QED
      BY <1>8, <3>1 DEF Delivered, TypeOK
  <2>4. RestTypes'
    BY <1>4, <1>5, <1>6, <2>2, <2>3 DEF Coordinate, TypeOK, RestTypes, ghosts
  <2>5. Unpublished' \subseteq Unpublished \ {<<t, q>>}
    BY <1>1, <1>4, <1>8 DEF Unpublished, Request
  <2>6. RoomInv'
    <3>1. IsFiniteSet(Unpublished \ {<<t, q>>})
      BY UnpublishedFinite, FS_Subset
    <3>2. /\ Cardinality(Unpublished') <= Cardinality(Unpublished \ {<<t, q>>})
          /\ Cardinality(Unpublished') \in Nat
          /\ Cardinality(Unpublished \ {<<t, q>>}) \in Nat
      BY <2>5, <3>1, FS_Subset, FS_CardinalityType
    <3>3. published + 1 + Cardinality(Unpublished \ {<<t, q>>}) <= MaxPublished
      BY <2>1, RoomLeft
    <3>4. published \in Nat /\ MaxPublished \in Nat
      BY ConstantsAssumption DEF TypeOK
    <3> QED
      BY <1>8, <3>2, <3>3, <3>4 DEF RoomInv
  <2> QED
    BY <1>1, <1>2, <1>4, <2>4, <2>6, CommandStep DEF Request
<1> QED
  BY <1>0, <1>7, <1>8

\* The same for a Subscribe of a resubscription.
LEMMA CoordinateLoopTypes ==
    ASSUME TypeInv, NEW t \in Target, NEW j \in 1..Len(resub[t]), CoordinateLoop(t, j)
    PROVE  TypeInv'
<1> USE DEF TypeInv
<1>1. PICK at \in Outcomes :
        /\ resub' = [resub EXCEPT ![t][j].at = at]
        /\ subs' = IF at = "refused" THEN subs
                   ELSE [subs EXCEPT ![t] = @ \cup {resub[t][j].key}]
  BY DEF CoordinateLoop
<1>2. resub[t] \in Seq(Loop) /\ resub[t][j] \in Loop
  BY DEF TypeOK
<1>3. [resub[t][j] EXCEPT !.at = at] \in Loop
  BY <1>2 DEF Loop, Outcomes, Progress
<1>4. resub' \in [Target -> Seq(Loop)]
  BY <1>1, <1>2, <1>3 DEF TypeOK
<1>5. subs' \in [Target -> SUBSET Key]
  BY <1>1, <1>2 DEF TypeOK, Loop
<1>6. CallTypes'
  BY SameCallTypes DEF CoordinateLoop
<1>7. RestTypes'
  BY <1>4, <1>5 DEF CoordinateLoop, TypeOK, RestTypes, ghosts
<1> QED
  BY <1>6, <1>7, TypeStep DEF CoordinateLoop

\* One more command is within the bound.
LEMMA IssuedType ==
    ASSUME TypeOK, NEW t \in Target, issued[t] < MaxCommands,
           issued' = [issued EXCEPT ![t] = @ + 1]
    PROVE  issued' \in [Target -> 0..MaxCommands]
<1>1. issued[t] \in 0..MaxCommands
  BY DEF TypeOK
<1>2. issued[t] + 1 \in 0..MaxCommands
  BY <1>1, ConstantsAssumption
<1> QED
  BY <1>2 DEF TypeOK

\* A command is issued.
LEMMA IssueTypes ==
    ASSUME TypeInv, NEW t \in Target, NEW q \in Caller, NEW op \in Op, NEW k \in Key,
           Issue(t, q, op, k)
    PROVE  TypeInv'
<1> USE DEF TypeInv
<1> DEFINE r == [op |-> op, at |-> "sent", key |-> IF op = "UNLISTEN *" THEN Null ELSE k]
<1>2. r \in Request
  BY DEF Request, Progress
<1>3. /\ r.op \in {"LISTEN", "UNLISTEN", "NOTIFY"} => r.key \in Key
      /\ r.op = op
  OBVIOUS
<1>4. cmd' = [cmd EXCEPT ![t][q] = r]
  BY DEF Issue
<1> HIDE DEF r
<1>5. /\ cmd' \in [Target -> [Caller -> Request \cup {Null}]]
      /\ cmd'[t][q] = r
      /\ \A u \in Target, p \in Caller : <<u, p>> # <<t, q>> => cmd'[u][p] = cmd[u][p]
  BY <1>2, <1>4 DEF TypeOK
<1>6. CallTypes'
  BY SameCallTypes, OpenWatchTypes DEF Issue, EnsureWatch
<1>7. issued' \in [Target -> 0..MaxCommands]
  BY IssuedType DEF Issue
<1>8. RestTypes'
  BY <1>5, <1>7 DEF Issue, TypeOK, RestTypes, Registered
<1>9. RoomInv'
  <2>1. CASE op # "NOTIFY"
    <3>1. Unpublished' \subseteq Unpublished
      BY <1>3, <1>5, <2>1 DEF Unpublished
    <3> QED
      BY <3>1, RoomKept DEF Issue
  <2>2. CASE op = "NOTIFY"
    <3>1. Unpublished' \subseteq Unpublished \cup {<<t, q>>}
      BY <1>5 DEF Unpublished
    <3>2. /\ IsFiniteSet(Unpublished \cup {<<t, q>>})
          /\ Cardinality(Unpublished \cup {<<t, q>>}) <= Cardinality(Unpublished) + 1
      <4>1. IsFiniteSet(Unpublished) /\ Cardinality(Unpublished) \in Nat
        BY UnpublishedFinite
      <4>2. IsFiniteSet(Unpublished \cup {<<t, q>>})
        BY <4>1, FS_AddElement
      <4>3. Cardinality(Unpublished \cup {<<t, q>>})
              = IF <<t, q>> \in Unpublished THEN Cardinality(Unpublished)
                ELSE Cardinality(Unpublished) + 1
        BY <4>1, FS_AddElement
      <4> QED
        BY <4>1, <4>2, <4>3
    <3>3. /\ Cardinality(Unpublished') <= Cardinality(Unpublished \cup {<<t, q>>})
          /\ Cardinality(Unpublished') \in Nat
          /\ Cardinality(Unpublished \cup {<<t, q>>}) \in Nat
      BY <3>1, <3>2, FS_Subset, FS_CardinalityType
    <3>4. published + Cardinality(Notifying) < MaxPublished /\ published' = published
      BY <2>2 DEF Issue
    <3>5. published \in Nat /\ MaxPublished \in Nat
      BY ConstantsAssumption DEF TypeOK
    <3> QED
      BY <3>2, <3>3, <3>4, <3>5, UnpublishedFinite DEF RoomInv
  <2> QED
    BY <2>1, <2>2
<1> QED
  BY <1>3, <1>5, <1>6, <1>8, <1>9, CommandStep

\* release() is called.
LEMMA ReleaseTypes ==
    ASSUME TypeInv, NEW t \in Target, NEW q \in Caller, Release(t, q)
    PROVE  TypeInv'
<1> USE DEF TypeInv
<1>1. CallTypes'
  BY SameCallTypes DEF Release
<1>4. issued' \in [Target -> 0..MaxCommands]
  BY IssuedType DEF Release
<1>2. CASE UNCHANGED cmd
  <2>1. RestTypes'
    BY <1>2, <1>4 DEF Release, TypeOK, RestTypes
  <2> QED
    BY <1>1, <1>2, <2>1, TypeStep DEF Release
<1>3. CASE ~UNCHANGED cmd
  <2> DEFINE r == [op |-> "RELEASE", key |-> Null, at |-> "sent"]
  <2>1. r \in Request /\ r.op = "RELEASE"
    BY DEF Request, Progress, Op
  <2>2. cmd' = [cmd EXCEPT ![t][q] = r]
    BY <1>3 DEF Release
  <2> HIDE DEF r
  <2>3. /\ cmd' \in [Target -> [Caller -> Request \cup {Null}]]
        /\ cmd'[t][q] = r
        /\ \A u \in Target, p \in Caller : <<u, p>> # <<t, q>> => cmd'[u][p] = cmd[u][p]
    BY <2>1, <2>2 DEF TypeOK
  <2>4. RestTypes'
    <3>1. released' = [released EXCEPT ![t] = "pending"]
      BY <1>3 DEF Release
    <3>2. entry' = entry
      BY <1>3 DEF Release
    <3>3. UNCHANGED <<channels, watching, call, inbox, timers, resub, closed, subs,
                      published, got, skipped, cancelled, faults>>
      BY DEF Release
    <3> QED
      BY <1>4, <2>3, <3>1, <3>2, <3>3 DEF TypeOK, RestTypes
  <2>5. Unpublished' \subseteq Unpublished
    BY <2>1, <2>3 DEF Unpublished
  <2>6. RoomInv'
    BY <2>5, RoomKept DEF Release
  <2> QED
    BY <1>1, <2>1, <2>3, <2>4, <2>6, CommandStep
<1> QED
  BY <1>2, <1>3

\* A command is answered.
LEMMA AnswerTypes ==
    ASSUME TypeInv, NEW t \in Target, NEW q \in Caller, Answer(t, q)
    PROVE  TypeInv'
<1> USE DEF TypeInv
<1> DEFINE r == cmd[t][q]
<1>1. /\ r \in Request
      /\ r.op \in {"LISTEN", "UNLISTEN", "NOTIFY"} => r.key \in Key
  <2>1. cmd[t][q] # Null
    BY DEF Answer
  <2>2. cmd[t][q] \in Request
    BY <2>1 DEF TypeOK
  <2> QED
    BY <2>1, <2>2 DEF KeyInv
<1>2. /\ cmd' \in [Target -> [Caller -> Request \cup {Null}]]
      /\ cmd'[t][q] = Null
      /\ \A u \in Target, p \in Caller : <<u, p>> # <<t, q>> => cmd'[u][p] = cmd[u][p]
  BY DEF Answer, TypeOK
<1>3. channels' \in [Target -> SUBSET Key]
  <2>1. ChannelsAfter(t, r) \in SUBSET Key
    BY <1>1 DEF TypeOK, ChannelsAfter
  <2> QED
    BY <2>1 DEF Answer, TypeOK
<1>5. /\ CallTypes'
      /\ inbox' \in [Target -> [Stream -> Seq(1..MaxPublished)]]
      /\ cancelled' \in [Target -> BOOLEAN]
  <2>1. CASE UNCHANGED <<watching, call, inbox, cancelled>>
    BY <2>1, SameCallTypes DEF TypeOK
  <2>2. CASE DropWatch(t)
    <3>1. watching[t] \in Stream \cup {Null}
      BY DEF TypeOK
    <3>2. CASE watching[t] = Null
      <4>1. call' = call /\ inbox' = inbox /\ watching' = watching
        BY <2>2, <3>2 DEF DropWatch, Forget, TypeOK
      <4> QED
        BY <2>2, <4>1, SameCallTypes DEF DropWatch, TypeOK
    <3>3. CASE watching[t] # Null
      <4>1. CallTypes'
        BY <2>2, <3>1, <3>3, CallSetTypes DEF DropWatch, Forget
      <4>2. << >> \in Seq(1..MaxPublished)
        OBVIOUS
      <4>3. inbox' \in [Target -> [Stream -> Seq(1..MaxPublished)]]
        <5>1. inbox' = [inbox EXCEPT ![t][watching[t]] = << >>]
          BY <2>2, <3>3 DEF DropWatch
        <5>2. inbox \in [Target -> [Stream -> Seq(1..MaxPublished)]]
          BY DEF TypeOK
        <5> QED
          BY <4>2, <5>1, <5>2
      <4> QED
        BY <2>2, <4>1, <4>3 DEF DropWatch, TypeOK
    <3> QED
      BY <3>2, <3>3
  <2> QED
    BY <2>1, <2>2 DEF Answer
<1>6. /\ entry' \in [Target -> {"none", "live", "removed"}]
      /\ released' \in [Target -> {"no", "pending", "failed", "done"}]
  BY DEF Answer, TypeOK
<1>7. RestTypes'
  BY <1>2, <1>3, <1>5, <1>6 DEF Answer, TypeOK, RestTypes
<1>8. Unpublished' \subseteq Unpublished
  BY <1>2 DEF Unpublished
<1>9. RoomInv'
  BY <1>8, RoomKept DEF Answer
<1> QED
  BY <1>2, <1>5, <1>7, <1>9, CommandStep

\* A Subscribe of a resubscription is answered.
LEMMA AnswerLoopTypes ==
    ASSUME TypeInv, NEW t \in Target, NEW j \in 1..Len(resub[t]), AnswerLoop(t, j)
    PROVE  TypeInv'
<1> USE DEF TypeInv
<1>1. resub[t] \in Seq(Loop) /\ resub[t][j] \in Loop
  BY DEF TypeOK
<1>2. resub' \in [Target -> Seq(Loop)]
  <2>1. CASE resub' = [resub EXCEPT ![t] = RemoveAt(@, j)]
    BY <1>1, <2>1, RemoveAtSeq DEF TypeOK
  <2>2. CASE resub' # [resub EXCEPT ![t] = RemoveAt(@, j)]
    <3>1. PICK k \in resub[t][j].rest : resub' = [resub EXCEPT ![t][j] =
                     [key |-> k, rest |-> resub[t][j].rest \ {k}, at |-> "sent"]]
      BY <2>2 DEF AnswerLoop
    <3>2. [key |-> k, rest |-> resub[t][j].rest \ {k}, at |-> "sent"] \in Loop
      BY <1>1 DEF Loop, Progress
    <3> QED
      BY <1>1, <3>1, <3>2 DEF TypeOK
  <2> QED
    BY <2>1, <2>2
<1>3. timers' \in [Target -> Nat]
  BY DEF AnswerLoop, Reconnect, TypeOK
<1>4. CallTypes'
  BY SameCallTypes DEF AnswerLoop
<1>5. RestTypes'
  BY <1>2, <1>3 DEF AnswerLoop, TypeOK, RestTypes, ghosts
<1> QED
  BY <1>4, <1>5, TypeStep DEF AnswerLoop

\* A stream breaks.
LEMMA BreaksTypes ==
    ASSUME TypeInv, NEW t \in Target, NEW i \in Stream, Breaks(t, i)
    PROVE  TypeInv'
<1> USE DEF TypeInv
<1>1. CallTypes'
  BY CallSetTypes DEF Breaks, local
<1>2. inbox' \in [Target -> [Stream -> Seq(1..MaxPublished)]]
  <2>1. << >> \in Seq(1..MaxPublished)
    OBVIOUS
  <2> QED
    BY <2>1 DEF Breaks, TypeOK
<1>3. faults' \in 0..MaxFaults
  <2>1. faults \in 0..MaxFaults /\ faults < MaxFaults /\ faults' = faults + 1
    BY DEF Breaks, TypeOK
  <2> QED
    BY <2>1, ConstantsAssumption
<1>4. RestTypes'
  BY <1>2, <1>3 DEF Breaks, TypeOK, RestTypes, local
<1> QED
  BY <1>1, <1>4, TypeStep DEF Breaks, local

\* The transport is closed.
LEMMA CloseTypes ==
    ASSUME TypeInv, Close
    PROVE  TypeInv'
<1> USE DEF TypeInv
<1>0. << >> \in Seq(1..MaxPublished)
  OBVIOUS
<1>1. \A t \in Target : /\ [call[t] EXCEPT ![watching[t]] = "ending"]
                              \in [Stream -> {"free", "open", "ending"}]
                        /\ [inbox[t] EXCEPT ![watching[t]] = << >>]
                              \in [Stream -> Seq(1..MaxPublished)]
  <2> TAKE t \in Target
  <2>1. call[t] \in [Stream -> {"free", "open", "ending"}]
    BY DEF TypeOK
  <2>2. inbox[t] \in [Stream -> Seq(1..MaxPublished)]
    BY DEF TypeOK
  <2> QED
    BY <1>0, <2>1, <2>2
<1>2. CallTypes'
  BY <1>1 DEF Close, CallTypes
<1>3. RestTypes'
  BY <1>1 DEF Close, TypeOK, RestTypes, ghosts
<1> QED
  BY <1>2, <1>3, TypeStep DEF Close

\* A call under way that is lost has failed, and is the same call.
LEMMA FailedRequest ==
    ASSUME NEW r \in Request
    PROVE  LET f == [r EXCEPT !.at = Failed(@)]
           IN  /\ f \in Request /\ f.at # "sent"
               /\ f.at = Failed(r.at) /\ f.op = r.op /\ f.key = r.key
<1>1. r.at \in Progress /\ r.op \in Op /\ r.key \in Key \cup {Null}
  BY DEF Request
<1>2. Failed(r.at) \in Progress /\ Failed(r.at) # "sent"
  BY <1>1 DEF Failed, Progress
<1> QED
  BY <1>1, <1>2 DEF Request

\* The same of a resubscription.
LEMMA FailedLoop ==
    ASSUME NEW l \in Loop
    PROVE  [l EXCEPT !.at = Failed(@)] \in Loop
<1>1. l.at \in Progress
  BY DEF Loop
<1>2. Failed(l.at) \in Progress
  BY <1>1 DEF Failed, Progress
<1> QED
  BY <1>2 DEF Loop

\* What a restart does to the commands.
LEMMA RestartCommands ==
    ASSUME TypeOK, Restart
    PROVE  \A t \in Target, q \in Caller :
             IF cmd[t][q] = Null THEN cmd'[t][q] = Null
             ELSE /\ cmd[t][q] \in Request /\ cmd'[t][q] \in Request
                  /\ cmd'[t][q].at # "sent" /\ cmd'[t][q].at = Failed(cmd[t][q].at)
                  /\ cmd'[t][q].op = cmd[t][q].op /\ cmd'[t][q].key = cmd[t][q].key
<1> TAKE t \in Target, q \in Caller
<1>1. cmd'[t][q] = IF cmd[t][q] = Null THEN Null ELSE [cmd[t][q] EXCEPT !.at = Failed(@)]
  BY DEF Restart
<1>2. cmd[t][q] # Null => cmd[t][q] \in Request
  BY DEF TypeOK
<1> QED
  BY <1>1, <1>2, FailedRequest

\* The coordinator restarts.
LEMMA RestartTypes ==
    ASSUME TypeInv, Restart
    PROVE  TypeInv'
<1> USE DEF TypeInv
<1>4. cmd' \in [Target -> [Caller -> Request \cup {Null}]]
  <2>1. \A t \in Target, q \in Caller : cmd'[t][q] \in Request \cup {Null}
    BY RestartCommands
  <2>2. cmd' = [t \in Target |-> [q \in Caller |-> cmd'[t][q]]]
    BY DEF Restart
  <2> QED
    BY <2>1, <2>2
<1>5. resub' \in [Target -> Seq(Loop)]
  <2>1. \A t \in Target : /\ resub[t] \in Seq(Loop)
                          /\ \A j \in 1..Len(resub[t]) :
                               [resub[t][j] EXCEPT !.at = Failed(@)] \in Loop
    BY FailedLoop DEF TypeOK
  <2>2. \A t \in Target :
          [j \in 1..Len(resub[t]) |-> [resub[t][j] EXCEPT !.at = Failed(@)]] \in Seq(Loop)
    BY <2>1
  <2> QED
    BY <2>2 DEF Restart
<1>6. inbox' \in [Target -> [Stream -> Seq(1..MaxPublished)]]
  BY DEF Restart
<1>7. faults' \in 0..MaxFaults
  <2>1. faults \in 0..MaxFaults /\ faults < MaxFaults /\ faults' = faults + 1
    BY DEF Restart, TypeOK
  <2> QED
    BY <2>1, ConstantsAssumption
<1>8. CallTypes'
  BY DEF Restart, CallTypes, TypeOK
<1>9. RestTypes'
  BY <1>4, <1>5, <1>6, <1>7 DEF Restart, TypeOK, RestTypes
<1>10. TypeOK'
  BY <1>8, <1>9 DEF TypeOK, CallTypes, RestTypes
<1>11. KeyInv'
  BY RestartCommands DEF KeyInv
<1>12. RoomInv'
  <2>1. Unpublished' \subseteq Unpublished
    BY RestartCommands DEF Unpublished
  <2> QED
    BY <2>1, RoomKept DEF Restart
<1> QED
  BY <1>10, <1>11, <1>12
---------------------------------------------------------------------------
(***************************************************************************)
(* Types and room: the invariant.                                          *)
(***************************************************************************)
\* Initially there is room for everything.
LEMMA TypeInit == Init => TypeInv
<1> SUFFICES ASSUME Init PROVE TypeInv
  OBVIOUS
<1>1. TypeOK
  <2>1. << >> \in Seq(1..MaxPublished) /\ << >> \in Seq(Loop)
    OBVIOUS
  <2>2. CallTypes
    BY DEF Init, CallTypes
  <2>3. 0 \in 0..MaxPublished /\ 0 \in 0..MaxCommands /\ 0 \in 0..MaxFaults
    BY ConstantsAssumption
  <2>4. got \in [Target -> [1..MaxPublished -> Nat]]
    BY DEF Init
  <2>5. inbox \in [Target -> [Stream -> Seq(1..MaxPublished)]] /\ resub \in [Target -> Seq(Loop)]
    BY <2>1 DEF Init
  <2>6. RestTypes
    BY <2>3, <2>4, <2>5 DEF Init, RestTypes
  <2> QED
    BY <2>2, <2>6 DEF TypeOK, CallTypes, RestTypes
<1>2. KeyInv
  BY DEF Init, KeyInv
<1>3. Unpublished = {}
  BY DEF Init, Unpublished
<1>4. RoomInv
  BY <1>3, FS_EmptySet, ConstantsAssumption DEF Init, RoomInv
<1> QED
  BY <1>1, <1>2, <1>4 DEF TypeInv

\* Every step keeps the types and the room.
LEMMA TypeNext == TypeInv /\ [Next]_vars => TypeInv'
<1> SUFFICES ASSUME TypeInv, [Next]_vars PROVE TypeInv'
  OBVIOUS
<1>1. CASE UNCHANGED vars
  <2>1. CallTypes' /\ RestTypes'
    BY <1>1 DEF vars, TypeInv, TypeOK, CallTypes, RestTypes
  <2> QED
    BY <1>1, <2>1, TypeStep DEF vars
<1>2. ASSUME NEW t \in Target, Step(t) PROVE TypeInv'
  BY <1>2, CoordinateTypes, AnswerTypes, CoordinateLoopTypes, AnswerLoopTypes,
     StreamEventTypes, StreamDataTypes, TimerTypes DEF Step
<1>3. ASSUME NEW t \in Target, NEW q \in Caller, Release(t, q) PROVE TypeInv'
  BY <1>3, ReleaseTypes
<1>4. ASSUME NEW t \in Target, NEW q \in Caller, NEW op \in Op, NEW k \in Key,
             Issue(t, q, op, k)
      PROVE  TypeInv'
  BY <1>4, IssueTypes
<1>5. ASSUME NEW t \in Target, NEW i \in Stream, Breaks(t, i) PROVE TypeInv'
  BY <1>5, BreaksTypes
<1> QED
  BY <1>1, <1>2, <1>3, <1>4, <1>5, CloseTypes, RestartTypes DEF Next

\* The state has its types, and a call in watchCalls is one whose end has not
\* been handled, whatever fails.
THEOREM TypeCorrect == Spec => []TypeOK
<1>1. Spec => []TypeInv
  BY TypeInit, TypeNext, PTL DEF Spec
<1>2. TypeInv => TypeOK
  BY DEF TypeInv
<1> QED
  BY <1>1, <1>2, PTL
---------------------------------------------------------------------------
(***************************************************************************)
(* The streams of a target.                                                *)
(***************************************************************************)
\* A stream is the one in watchCalls, or has ended with close(); unless
\* unsubscribeAll() has cancelled a call.
WatchInv ==
    /\ closed => \A t \in Target : watching[t] = Null
    /\ \A t \in Target, i \in Stream : ~cancelled[t] /\ call[t][i] # "free" =>
         watching[t] = i \/ (closed /\ call[t][i] = "ending")

\* A step that changes no call keeps it.
LEMMA WatchSame ==
    ASSUME WatchInv, UNCHANGED <<watching, call, closed, cancelled>>
    PROVE  WatchInv'
  BY DEF WatchInv

\* A call that is opened by a transport that is not closed, for a target that
\* has none, is the only one.
LEMMA WatchOpens ==
    ASSUME TypeOK, WatchInv, NEW t \in Target, OpenWatch(t), ~closed, watching[t] = Null,
           UNCHANGED <<closed, cancelled>>
    PROVE  WatchInv'
<1>1. PICK i \in Stream : /\ watching' = [watching EXCEPT ![t] = i]
                          /\ call' = [call EXCEPT ![t][i] = "open"]
  BY OpenWatchStep
<1>2. \A u \in Target, j \in Stream : ~cancelled'[u] /\ call'[u][j] # "free" =>
         watching'[u] = j \/ (closed' /\ call'[u][j] = "ending")
  <2> TAKE u \in Target, j \in Stream
  <2>1. CASE u # t
    BY <1>1, <2>1 DEF TypeOK, WatchInv
  <2>2. CASE u = t /\ j = i
    BY <1>1, <2>2 DEF TypeOK
  <2>3. CASE u = t /\ j # i
    <3>1. call'[u][j] = call[t][j]
      BY <1>1, <2>3 DEF TypeOK
    <3> QED
      BY <2>3, <3>1, ConstantsAssumption DEF WatchInv
  <2> QED
    BY <2>1, <2>2, <2>3
<1> QED
  BY <1>2 DEF WatchInv

\* Every step keeps it.
LEMMA WatchNext == TypeOK /\ WatchInv /\ [Next]_vars => WatchInv'
<1> SUFFICES ASSUME TypeOK, WatchInv, [Next]_vars PROVE WatchInv'
  OBVIOUS
<1>1. CASE UNCHANGED vars
  BY <1>1, WatchSame DEF vars
<1>2. ASSUME NEW t \in Target, NEW q \in Caller, Coordinate(t, q) PROVE WatchInv'
  BY <1>2, WatchSame DEF Coordinate, ghosts
<1>3. ASSUME NEW t \in Target, NEW q \in Caller, Answer(t, q) PROVE WatchInv'
  <2>1. CASE UNCHANGED <<watching, call, inbox, cancelled>>
    BY <1>3, <2>1, WatchSame DEF Answer
  <2>2. CASE DropWatch(t)
    <3>1. closed' = closed
      BY <1>3 DEF Answer
    <3>2. CASE watching[t] = Null
      <4>1. call' = call /\ watching' = watching /\ cancelled' = cancelled
        BY <2>2, <3>2 DEF DropWatch, Forget, TypeOK
      <4> QED
        BY <3>1, <4>1, WatchSame
    <3>3. CASE watching[t] # Null
      <4>1. /\ watching' = [watching EXCEPT ![t] = Null]
            /\ cancelled' = [cancelled EXCEPT ![t] = TRUE]
            /\ call' = [call EXCEPT ![t][watching[t]] = "ending"]
        BY <2>2, <3>3 DEF DropWatch, Forget, TypeOK
      <4>2. \A u \in Target : u # t =>
              watching'[u] = watching[u] /\ call'[u] = call[u] /\ cancelled'[u] = cancelled[u]
        BY <4>1 DEF TypeOK
      <4>3. watching'[t] = Null /\ cancelled'[t]
        BY <4>1 DEF TypeOK
      <4> QED
        BY <3>1, <4>2, <4>3 DEF WatchInv
    <3> QED
      BY <3>2, <3>3
  <2> QED
    BY <1>3, <2>1, <2>2 DEF Answer
<1>4. ASSUME NEW t \in Target, NEW j \in 1..Len(resub[t]),
             CoordinateLoop(t, j) \/ AnswerLoop(t, j)
      PROVE  WatchInv'
  BY <1>4, WatchSame DEF CoordinateLoop, AnswerLoop, ghosts
<1>5. ASSUME NEW t \in Target, NEW i \in Stream, StreamEvent(t, i) PROVE WatchInv'
  <2>1. /\ call[t][i] = "ending" /\ UNCHANGED <<closed, cancelled>>
        /\ call' = [call EXCEPT ![t][i] = "free"]
        /\ watching' = [watching EXCEPT ![t] = Null]
    BY <1>5 DEF StreamEvent, Forget, ghosts
  <2>2. \A u \in Target : u # t => watching'[u] = watching[u] /\ call'[u] = call[u]
    BY <2>1 DEF TypeOK
  <2>3. watching'[t] = Null
    BY <2>1 DEF TypeOK
  <2>4. \A j \in Stream : ~cancelled[t] /\ call'[t][j] # "free" => closed /\ call'[t][j] = "ending"
    <3> TAKE j \in Stream
    <3>1. CASE j = i
      BY <2>1, <3>1 DEF TypeOK
    <3>2. CASE j # i
      <4>1. call'[t][j] = call[t][j]
        BY <2>1, <3>2 DEF TypeOK
      <4> QED
        BY <2>1, <3>2, <4>1, ConstantsAssumption DEF WatchInv
    <3> QED
      BY <3>1, <3>2
  <2> QED
    BY <2>1, <2>2, <2>3, <2>4 DEF WatchInv
<1>6. ASSUME NEW t \in Target, NEW i \in Stream, StreamData(t, i) PROVE WatchInv'
  BY <1>6, WatchSame DEF StreamData, local
<1>7. ASSUME NEW t \in Target, Timer(t) PROVE WatchInv'
  BY <1>7, WatchSame, WatchOpens DEF Timer, ghosts
<1>8. ASSUME NEW t \in Target, NEW q \in Caller, Release(t, q) PROVE WatchInv'
  BY <1>8, WatchSame DEF Release
<1>9. ASSUME NEW t \in Target, NEW q \in Caller, NEW op \in Op, NEW k \in Key,
             Issue(t, q, op, k)
      PROVE  WatchInv'
  BY <1>9, WatchSame, WatchOpens DEF Issue, EnsureWatch
<1>10. ASSUME NEW t \in Target, NEW i \in Stream, Breaks(t, i) PROVE WatchInv'
  <2>1. /\ call[t][i] = "open" /\ UNCHANGED <<watching, closed, cancelled>>
        /\ call' = [call EXCEPT ![t][i] = "ending"]
    BY <1>10 DEF Breaks, local
  <2>2. \A u \in Target, j \in Stream :
          call'[u][j] = IF u = t /\ j = i THEN "ending" ELSE call[u][j]
    BY <2>1 DEF TypeOK
  <2> QED
    BY <2>1, <2>2 DEF WatchInv
<1>11. CASE Close
  <2>1. closed' /\ ~closed /\ cancelled' = cancelled /\ \A t \in Target : watching'[t] = Null
    BY <1>11 DEF Close, ghosts
  <2>2. \A t \in Target, j \in Stream :
          call'[t][j] = IF j = watching[t] THEN "ending" ELSE call[t][j]
    BY <1>11 DEF Close, TypeOK
  <2> QED
    BY <2>1, <2>2 DEF WatchInv
<1>12. CASE Restart
  <2>1. UNCHANGED <<watching, closed, cancelled>>
    BY <1>12 DEF Restart
  <2>2. \A t \in Target, j \in Stream :
          call'[t][j] = IF call[t][j] = "open" THEN "ending" ELSE call[t][j]
    BY <1>12 DEF Restart
  <2> QED
    BY <2>1, <2>2 DEF WatchInv
<1> QED
  BY <1>1, <1>2, <1>3, <1>4, <1>5, <1>6, <1>7, <1>8, <1>9, <1>10, <1>11, <1>12 DEF Next, Step

\* A closed transport has no stream, and no delay or answer of a call that was
\* under way opens one, unless unsubscribeAll() cancelled a call of the target.
THEOREM StopsWhenClosed == Spec => []ClosedStops
<1>1. Init => WatchInv
  BY DEF Init, WatchInv
<1>2. WatchInv => ClosedStops
  BY ConstantsAssumption DEF WatchInv, ClosedStops
<1> QED
  BY <1>1, <1>2, TypeCorrect, WatchNext, PTL DEF Spec
---------------------------------------------------------------------------
(***************************************************************************)
(* One copy of a notification.                                             *)
(***************************************************************************)
\* What is on its way comes down an open stream, once, and was published.
InboxInv ==
    \A t \in Target, i \in Stream :
        /\ call[t][i] # "open" => inbox[t][i] = << >>
        /\ \A j \in 1..Len(inbox[t][i]) : inbox[t][i][j] <= published
        /\ \A j, k \in 1..Len(inbox[t][i]) : inbox[t][i][j] = inbox[t][i][k] => j = k

\* A notification was emitted once at most, and does not come again.
OnceInv ==
    \A t \in Target : ~cancelled[t] => \A n \in 1..MaxPublished :
        /\ got[t][n] <= 1
        /\ got[t][n] > 0 =>
             /\ n <= published
             /\ \A i \in Stream : \A j \in 1..Len(inbox[t][i]) : inbox[t][i][j] # n

DeliveryInv == InboxInv /\ OnceInv

\* A step in which streams go on as they are, open empty or lose what is on its
\* way, and which emits nothing.
Silent ==
    /\ UNCHANGED <<got, published>>
    /\ \A t \in Target : cancelled[t] => cancelled'[t]
    /\ \A t \in Target, i \in Stream :
         \/ inbox'[t][i] = << >>
         \/ inbox'[t][i] = inbox[t][i] /\ (call[t][i] = "open" => call'[t][i] = "open")

\* It keeps the invariant.
LEMMA SilentKeeps ==
    ASSUME TypeOK, DeliveryInv, Silent
    PROVE  DeliveryInv'
<1>1. InboxInv'
  <2> SUFFICES ASSUME NEW t \in Target, NEW i \in Stream
               PROVE  /\ call'[t][i] # "open" => inbox'[t][i] = << >>
                      /\ \A j \in 1..Len(inbox'[t][i]) : inbox'[t][i][j] <= published'
                      /\ \A j, k \in 1..Len(inbox'[t][i]) :
                           inbox'[t][i][j] = inbox'[t][i][k] => j = k
    BY DEF InboxInv
  <2>1. CASE inbox'[t][i] = << >>
    BY <2>1
  <2>2. CASE inbox'[t][i] = inbox[t][i] /\ (call[t][i] = "open" => call'[t][i] = "open")
    BY <2>2 DEF DeliveryInv, InboxInv, Silent
  <2> QED
    BY <2>1, <2>2 DEF Silent
<1>2. OnceInv'
  <2> SUFFICES ASSUME NEW t \in Target, ~cancelled'[t], NEW n \in 1..MaxPublished
               PROVE  /\ got'[t][n] <= 1
                      /\ got'[t][n] > 0 =>
                           /\ n <= published'
                           /\ \A i \in Stream : \A j \in 1..Len(inbox'[t][i]) : inbox'[t][i][j] # n
    BY DEF OnceInv
  <2>1. ~cancelled[t] /\ got'[t][n] = got[t][n] /\ published' = published
    BY DEF Silent
  <2>2. ASSUME got[t][n] > 0, NEW i \in Stream, NEW j \in 1..Len(inbox'[t][i])
        PROVE  inbox'[t][i][j] # n
    <3>1. CASE inbox'[t][i] = << >>
      BY <2>2, <3>1
    <3>2. CASE inbox'[t][i] = inbox[t][i]
      BY <2>1, <2>2, <3>2 DEF DeliveryInv, OnceInv
    <3> QED
      BY <3>1, <3>2 DEF Silent
  <2> QED
    BY <2>1, <2>2 DEF DeliveryInv, OnceInv
<1> QED
  BY <1>1, <1>2 DEF DeliveryInv

\* A stream that is opened was free, and has nothing on its way.
LEMMA OpenWatchSilent ==
    ASSUME TypeOK, NEW t \in Target, OpenWatch(t), UNCHANGED <<inbox, got, published, cancelled>>
    PROVE  Silent
<1>1. PICK i \in Stream : call[t][i] = "free" /\ call' = [call EXCEPT ![t][i] = "open"]
  BY OpenWatchStep
<1>2. \A u \in Target, j \in Stream : call[u][j] = "open" => call'[u][j] = "open"
  BY <1>1 DEF TypeOK
<1> QED
  BY <1>2 DEF Silent

\* Publishing: the new number is not yet anywhere.
LEMMA PublishKeeps ==
    ASSUME TypeOK, DeliveryInv, NEW k, published' = published + 1,
           inbox' = Delivered(k, published'), UNCHANGED <<call, got, cancelled>>
    PROVE  DeliveryInv'
<1>0. published \in Nat
  BY ConstantsAssumption DEF TypeOK
<1>1. \A t \in Target, i \in Stream : inbox[t][i] \in Seq(1..MaxPublished)
  BY DEF TypeOK
<1>2. \A t \in Target, i \in Stream :
        \/ inbox'[t][i] = inbox[t][i]
        \/ call[t][i] = "open" /\ inbox'[t][i] = Append(inbox[t][i], published + 1)
  BY DEF Delivered
<1>3. InboxInv'
  <2> SUFFICES ASSUME NEW t \in Target, NEW i \in Stream
               PROVE  /\ call'[t][i] # "open" => inbox'[t][i] = << >>
                      /\ \A j \in 1..Len(inbox'[t][i]) : inbox'[t][i][j] <= published'
                      /\ \A j, l \in 1..Len(inbox'[t][i]) :
                           inbox'[t][i][j] = inbox'[t][i][l] => j = l
    BY DEF InboxInv
  <2> DEFINE s == inbox[t][i]
  <2>1. /\ s \in Seq(1..MaxPublished)
        /\ call[t][i] # "open" => s = << >>
        /\ \A j \in 1..Len(s) : s[j] <= published /\ s[j] \in Nat
        /\ \A j, l \in 1..Len(s) : s[j] = s[l] => j = l
    <3>1. s \in Seq(1..MaxPublished)
      BY <1>1
    <3>2. \A j \in 1..Len(s) : s[j] \in Nat
      <4> HIDE DEF s
      <4>1. \A j \in 1..Len(s) : s[j] \in 1..MaxPublished
        BY <3>1, ElementOfSeq
      <4> QED
        BY <4>1
    <3>3. /\ call[t][i] # "open" => s = << >>
          /\ \A j \in 1..Len(s) : s[j] <= published
          /\ \A j, l \in 1..Len(s) : s[j] = s[l] => j = l
      BY DEF DeliveryInv, InboxInv
    <3> QED
      BY <3>1, <3>2, <3>3
  <2> HIDE DEF s
  <2>0. call' = call /\ published' = published + 1
    OBVIOUS
  <2>2. CASE inbox'[t][i] = s
    <3>1. \A j \in 1..Len(s) : s[j] <= published + 1
      BY <1>0, <2>1
    <3>2. call'[t][i] # "open" => s = << >>
      BY <2>0, <2>1
    <3>3. \A j, l \in 1..Len(s) : s[j] = s[l] => j = l
      BY <2>1
    <3> QED
      BY <2>0, <2>2, <3>1, <3>2, <3>3
  <2>3. CASE call[t][i] = "open" /\ inbox'[t][i] = Append(s, published + 1)
    <3>1. Len(inbox'[t][i]) = Len(s) + 1 /\ Len(s) \in Nat
      BY <2>1, <2>3
    <3>2. \A j \in 1..Len(s) + 1 :
            inbox'[t][i][j] = IF j = Len(s) + 1 THEN published + 1 ELSE s[j]
      BY <2>1, <2>3
    <3> DEFINE z == inbox'[t][i]
    <3>3. \A j \in 1..Len(z) : z[j] <= published + 1
      BY <1>0, <2>1, <3>1, <3>2
    <3>4. \A j, l \in 1..Len(z) : z[j] = z[l] => j = l
      <4> HIDE DEF z
      <4> TAKE j, l \in 1..Len(z)
      <4> HAVE z[j] = z[l]
      <4>1. z[j] = (IF j = Len(s) + 1 THEN published + 1 ELSE s[j])
        BY <3>1, <3>2 DEF z
      <4>2. z[l] = (IF l = Len(s) + 1 THEN published + 1 ELSE s[l])
        BY <3>1, <3>2 DEF z
      <4>3. CASE j = Len(s) + 1 /\ l # Len(s) + 1
        BY <1>0, <2>1, <3>1, <4>1, <4>2, <4>3 DEF z
      <4>4. CASE j # Len(s) + 1 /\ l = Len(s) + 1
        BY <1>0, <2>1, <3>1, <4>1, <4>2, <4>4 DEF z
      <4>5. CASE j # Len(s) + 1 /\ l # Len(s) + 1
        BY <2>1, <3>1, <4>1, <4>2, <4>5 DEF z
      <4> QED
        BY <4>3, <4>4, <4>5
    <3> QED
      BY <2>0, <2>3, <3>3, <3>4
  <2> QED
    BY <1>2, <2>2, <2>3 DEF s
<1>4. OnceInv'
  <2> SUFFICES ASSUME NEW t \in Target, ~cancelled'[t], NEW n \in 1..MaxPublished
               PROVE  /\ got'[t][n] <= 1
                      /\ got'[t][n] > 0 =>
                           /\ n <= published'
                           /\ \A i \in Stream : \A j \in 1..Len(inbox'[t][i]) : inbox'[t][i][j] # n
    BY DEF OnceInv
  <2>1. got'[t][n] <= 1 /\ (got'[t][n] > 0 => n <= published)
    BY DEF DeliveryInv, OnceInv
  <2>2. ASSUME got[t][n] > 0, NEW i \in Stream, NEW j \in 1..Len(inbox'[t][i])
        PROVE  inbox'[t][i][j] # n
    <3> DEFINE s == inbox[t][i]
    <3>1. /\ s \in Seq(1..MaxPublished) /\ n <= published
          /\ \A l \in 1..Len(s) : s[l] # n
      BY <1>1, <2>2 DEF DeliveryInv, OnceInv
    <3>2. inbox'[t][i] = s \/ inbox'[t][i] = Append(s, published + 1)
      BY <1>2
    <3> HIDE DEF s
    <3>3. Len(s) \in Nat /\ j \in 1..Len(inbox'[t][i])
      BY <2>2, <3>1
    <3>4. CASE inbox'[t][i] = Append(s, published + 1)
      <4>1. j \in 1..Len(s) + 1 /\ inbox'[t][i][j] = IF j = Len(s) + 1 THEN published + 1 ELSE s[j]
        <5> DEFINE q == Append(s, published + 1)
        <5>1. /\ Len(q) = Len(s) + 1
              /\ \A l \in 1..Len(s) + 1 :
                   q[l] = IF l = Len(s) + 1 THEN published + 1 ELSE s[l]
          BY <3>1, <3>3
        <5> HIDE DEF q
        <5>2. inbox'[t][i] = q
          BY <3>4 DEF q
        <5> QED
          BY <3>3, <5>1, <5>2
      <4> QED
        BY <1>0, <3>1, <3>3, <4>1
    <3> QED
      BY <3>1, <3>2, <3>3, <3>4
  <2> QED
    BY <1>0, <2>1, <2>2
<1> QED
  BY <1>3, <1>4 DEF DeliveryInv

\* Emitting: the notification comes out of the only open stream of its target.
LEMMA EmitKeeps ==
    ASSUME TypeOK, WatchInv, DeliveryInv, NEW t \in Target, NEW i \in Stream, StreamData(t, i)
    PROVE  DeliveryInv'
<1> DEFINE s == inbox[t][i]
           m == Head(s)
<1>1. /\ call[t][i] = "open"
      /\ inbox' = [inbox EXCEPT ![t][i] = Tail(s)]
      /\ got' = got \/ (entry[t] = "live" /\ got' = [got EXCEPT ![t][m] = @ + 1])
      /\ UNCHANGED <<call, published, cancelled>>
  BY DEF StreamData, local
<1>2. s \in Seq(1..MaxPublished) /\ s # << >>
  BY DEF StreamData, TypeOK
<1>3. /\ \A j \in 1..Len(s) : s[j] <= published
      /\ \A j, k \in 1..Len(s) : s[j] = s[k] => j = k
  BY DEF DeliveryInv, InboxInv
<1>4. \A u \in Target, j \in Stream : <<u, j>> # <<t, i>> => inbox'[u][j] = inbox[u][j]
  BY <1>1 DEF TypeOK
<1>5. inbox'[t][i] = Tail(s)
  BY <1>1 DEF TypeOK
<1> HIDE DEF s
<1>6. /\ Len(s) \in Nat \ {0}
      /\ m = s[1] /\ m \in 1..MaxPublished
      /\ Len(Tail(s)) = Len(s) - 1
      /\ \A j \in 1..Len(s) - 1 : Tail(s)[j] = s[j + 1]
  <2>1. Len(s) \in Nat \ {0}
    BY <1>2
  <2>2. m = s[1]
    BY <1>2
  <2> QED
    BY <1>2, <2>1, <2>2, HeadTailProperties
<1> HIDE DEF m
<1>7. /\ \A j \in 1..Len(Tail(s)) : Tail(s)[j] <= published /\ Tail(s)[j] # m
      /\ \A j, k \in 1..Len(Tail(s)) : Tail(s)[j] = Tail(s)[k] => j = k
  <2>1. \A j \in 1..Len(Tail(s)) : j + 1 \in 1..Len(s) /\ j + 1 # 1 /\ Tail(s)[j] = s[j + 1]
    BY <1>6
  <2>2. 1 \in 1..Len(s)
    BY <1>6
  <2>3. \A j \in 1..Len(Tail(s)) : Tail(s)[j] <= published
    BY <1>3, <2>1
  <2>4. \A j \in 1..Len(Tail(s)) : Tail(s)[j] # m
    BY <1>3, <1>6, <2>1, <2>2
  <2>5. \A j, k \in 1..Len(Tail(s)) : Tail(s)[j] = Tail(s)[k] => j = k
    <3> TAKE j, k \in 1..Len(Tail(s))
    <3> HAVE Tail(s)[j] = Tail(s)[k]
    <3>1. j + 1 = k + 1
      BY <1>3, <2>1
    <3> QED
      BY <1>6, <3>1
  <2> QED
    BY <2>3, <2>4, <2>5
<1>8. InboxInv'
  <2> SUFFICES ASSUME NEW u \in Target, NEW j \in Stream
               PROVE  /\ call'[u][j] # "open" => inbox'[u][j] = << >>
                      /\ \A k \in 1..Len(inbox'[u][j]) : inbox'[u][j][k] <= published'
                      /\ \A k, l \in 1..Len(inbox'[u][j]) :
                           inbox'[u][j][k] = inbox'[u][j][l] => k = l
    BY DEF InboxInv
  <2>1. CASE <<u, j>> = <<t, i>>
    <3>1. u = t /\ j = i
      BY <2>1
    <3>2. call'[u][j] = "open" /\ published' = published
      BY <1>1, <3>1
    <3>3. inbox'[u][j] = Tail(s)
      BY <1>5, <3>1
    <3> QED
      BY <1>7, <3>2, <3>3
  <2>2. CASE <<u, j>> # <<t, i>>
    BY <1>1, <1>4, <2>2 DEF DeliveryInv, InboxInv
  <2> QED
    BY <2>1, <2>2
<1>9. OnceInv'
  <2> SUFFICES ASSUME NEW u \in Target, ~cancelled'[u], NEW n \in 1..MaxPublished
               PROVE  /\ got'[u][n] <= 1
                      /\ got'[u][n] > 0 =>
                           /\ n <= published'
                           /\ \A j \in Stream : \A k \in 1..Len(inbox'[u][j]) : inbox'[u][j][k] # n
    BY DEF OnceInv
  <2>0. /\ ~cancelled[u] /\ published' = published
        /\ got[u][n] \in Nat /\ got[u][n] <= 1
        /\ got[u][n] > 0 =>
             /\ n <= published
             /\ \A j \in Stream : \A k \in 1..Len(inbox[u][j]) : inbox[u][j][k] # n
    <3>1. got[u][n] \in Nat
      <4>1. got[u] \in [1..MaxPublished -> Nat]
        BY DEF TypeOK
      <4> QED
        BY <4>1
    <3>2. ~cancelled[u] /\ published' = published
      BY <1>1
    <3> QED
      BY <3>1, <3>2 DEF DeliveryInv, OnceInv
  <2>1. \A j \in Stream : u = t /\ j # i => inbox'[u][j] = << >>
    <3> SUFFICES ASSUME NEW j \in Stream, u = t, j # i PROVE inbox'[u][j] = << >>
      OBVIOUS
    <3>1. call[t][j] # "open"
      BY <1>1, <2>0, ConstantsAssumption DEF WatchInv
    <3>2. inbox[t][j] = << >>
      BY <3>1 DEF DeliveryInv, InboxInv
    <3> QED
      BY <1>4, <3>2
  <2>2. CASE u = t /\ n = m
    <3>1. got[u][n] = 0
      <4>1. 1 \in 1..Len(inbox[u][i]) /\ inbox[u][i][1] = n
        BY <1>6, <2>2 DEF s
      <4> QED
        BY <2>0, <4>1
    <3>2. got'[u][n] <= 1
      BY <1>1, <1>6, <2>2, <3>1 DEF TypeOK
    <3>3. n <= published
      BY <1>3, <1>6, <2>2
    <3>4. \A j \in Stream : \A k \in 1..Len(inbox'[u][j]) : inbox'[u][j][k] # n
      <4> TAKE j \in Stream
      <4>1. CASE j = i
        BY <1>5, <1>7, <2>2, <4>1
      <4>2. CASE j # i
        BY <2>1, <2>2, <4>2
      <4> QED
        BY <4>1, <4>2
    <3> QED
      BY <2>0, <3>2, <3>3, <3>4
  <2>3. CASE ~(u = t /\ n = m)
    <3>1. got'[u][n] = got[u][n]
      <4>1. got \in [Target -> [1..MaxPublished -> Nat]]
        BY DEF TypeOK
      <4>2. CASE got' = [got EXCEPT ![t][m] = @ + 1]
        <5>1. CASE u # t
          BY <4>1, <4>2, <5>1
        <5>2. CASE u = t /\ n # m
          <6>1. got'[t] = [got[t] EXCEPT ![m] = @ + 1] /\ got[t] \in [1..MaxPublished -> Nat]
            BY <4>1, <4>2
          <6> QED
            BY <5>2, <6>1
        <5> QED
          BY <2>3, <5>1, <5>2
      <4> QED
        BY <1>1, <4>2
    <3>2. ASSUME got[u][n] > 0, NEW j \in Stream, NEW k \in 1..Len(inbox'[u][j])
          PROVE  inbox'[u][j][k] # n
      <4>1. CASE <<u, j>> = <<t, i>>
        <5>1. k + 1 \in 1..Len(s) /\ inbox'[u][j][k] = s[k + 1]
          BY <1>5, <1>6, <3>2, <4>1
        <5>2. inbox[u][j] = s
          BY <4>1 DEF s
        <5> QED
          BY <2>0, <3>2, <5>1, <5>2
      <4>2. CASE <<u, j>> # <<t, i>>
        BY <1>4, <2>0, <3>2, <4>2
      <4> QED
        BY <4>1, <4>2
    <3> QED
      BY <2>0, <3>1, <3>2
  <2> QED
    BY <2>2, <2>3
<1> QED
  BY <1>8, <1>9 DEF DeliveryInv

\* A step that leaves streams and notifications alone is silent.
LEMMA SameSilent ==
    ASSUME UNCHANGED <<call, inbox, got, published, cancelled>>
    PROVE  Silent
  BY DEF Silent

\* Every step keeps the invariant.
LEMMA DeliveryNext == TypeOK /\ WatchInv /\ DeliveryInv /\ [Next]_vars => DeliveryInv'
<1> SUFFICES ASSUME TypeOK, WatchInv, DeliveryInv, [Next]_vars PROVE DeliveryInv'
  OBVIOUS
<1>1. CASE UNCHANGED vars
  BY <1>1, SameSilent, SilentKeeps DEF vars
<1>2. ASSUME NEW t \in Target, NEW q \in Caller, Coordinate(t, q) PROVE DeliveryInv'
  <2>1. /\ UNCHANGED <<call, got, cancelled>>
        /\ \/ UNCHANGED <<inbox, published>>
           \/ /\ published' = published + 1
              /\ inbox' = Delivered(cmd[t][q].key, published')
    BY <1>2 DEF Coordinate, ghosts
  <2> QED
    BY <2>1, SameSilent, SilentKeeps, PublishKeeps
<1>3. ASSUME NEW t \in Target, NEW q \in Caller, Answer(t, q) PROVE DeliveryInv'
  <2>1. got' = got /\ published' = published
    BY <1>3 DEF Answer
  <2>2. CASE UNCHANGED <<watching, call, inbox, cancelled>>
    BY <2>1, <2>2, SameSilent, SilentKeeps
  <2>3. CASE DropWatch(t)
    <3>1. CASE watching[t] = Null
      <4>1. UNCHANGED <<call, inbox, cancelled>>
        BY <2>3, <3>1 DEF DropWatch, TypeOK
      <4> QED
        BY <2>1, <4>1, SameSilent, SilentKeeps
    <3>2. CASE watching[t] # Null
      <4> DEFINE w == watching[t]
      <4>1. /\ cancelled' = [cancelled EXCEPT ![t] = TRUE]
            /\ call' = [call EXCEPT ![t][w] = "ending"]
            /\ inbox' = [inbox EXCEPT ![t][w] = << >>]
        BY <2>3, <3>2 DEF DropWatch, TypeOK
      <4>2. w \in Stream
        BY <3>2 DEF TypeOK
      <4> HIDE DEF w
      <4>3. \A u \in Target, i \in Stream :
              IF <<u, i>> = <<t, w>> THEN inbox'[u][i] = << >>
              ELSE inbox'[u][i] = inbox[u][i] /\ call'[u][i] = call[u][i]
        BY <4>1, <4>2 DEF TypeOK
      <4>4. \A u \in Target : cancelled[u] => cancelled'[u]
        BY <4>1 DEF TypeOK
      <4>5. Silent
        BY <2>1, <4>3, <4>4 DEF Silent
      <4> QED
        BY <4>5, SilentKeeps
    <3> QED
      BY <3>1, <3>2
  <2> QED
    BY <1>3, <2>2, <2>3 DEF Answer
<1>4. ASSUME NEW t \in Target, NEW j \in 1..Len(resub[t]),
             CoordinateLoop(t, j) \/ AnswerLoop(t, j)
      PROVE  DeliveryInv'
  BY <1>4, SameSilent, SilentKeeps DEF CoordinateLoop, AnswerLoop, ghosts
<1>5. ASSUME NEW t \in Target, NEW i \in Stream, StreamEvent(t, i) PROVE DeliveryInv'
  <2>1. /\ UNCHANGED <<inbox, got, published, cancelled>>
        /\ call[t][i] = "ending" /\ call' = [call EXCEPT ![t][i] = "free"]
    BY <1>5 DEF StreamEvent, ghosts
  <2>2. \A u \in Target, j \in Stream : call[u][j] = "open" => call'[u][j] = "open"
    BY <2>1 DEF TypeOK
  <2>3. Silent
    BY <2>1, <2>2 DEF Silent
  <2> QED
    BY <2>3, SilentKeeps
<1>6. ASSUME NEW t \in Target, NEW i \in Stream, StreamData(t, i) PROVE DeliveryInv'
  BY <1>6, EmitKeeps
<1>7. ASSUME NEW t \in Target, Timer(t) PROVE DeliveryInv'
  BY <1>7, SameSilent, OpenWatchSilent, SilentKeeps DEF Timer, ghosts
<1>8. ASSUME NEW t \in Target, NEW q \in Caller, Release(t, q) PROVE DeliveryInv'
  BY <1>8, SameSilent, SilentKeeps DEF Release
<1>9. ASSUME NEW t \in Target, NEW q \in Caller, NEW op \in Op, NEW k \in Key,
             Issue(t, q, op, k)
      PROVE  DeliveryInv'
  BY <1>9, SameSilent, OpenWatchSilent, SilentKeeps DEF Issue, EnsureWatch
<1>10. ASSUME NEW t \in Target, NEW i \in Stream, Breaks(t, i) PROVE DeliveryInv'
  <2>1. /\ UNCHANGED <<got, published, cancelled>>
        /\ call' = [call EXCEPT ![t][i] = "ending"]
        /\ inbox' = [inbox EXCEPT ![t][i] = << >>]
    BY <1>10 DEF Breaks, local
  <2>2. \A u \in Target, j \in Stream :
          IF <<u, j>> = <<t, i>> THEN inbox'[u][j] = << >>
          ELSE inbox'[u][j] = inbox[u][j] /\ call'[u][j] = call[u][j]
    BY <2>1 DEF TypeOK
  <2>3. Silent
    BY <2>1, <2>2 DEF Silent
  <2> QED
    BY <2>3, SilentKeeps
<1>11. CASE Close
  <2>1. UNCHANGED <<got, published, cancelled>>
    BY <1>11 DEF Close, ghosts
  <2>2. \A t \in Target, i \in Stream :
          IF i = watching[t] THEN inbox'[t][i] = << >>
          ELSE inbox'[t][i] = inbox[t][i] /\ call'[t][i] = call[t][i]
    BY <1>11 DEF Close, TypeOK
  <2>3. Silent
    BY <2>1, <2>2 DEF Silent
  <2> QED
    BY <2>3, SilentKeeps
<1>12. CASE Restart
  <2>1. UNCHANGED <<got, published, cancelled>>
    BY <1>12 DEF Restart
  <2>2. \A t \in Target, i \in Stream : inbox'[t][i] = << >>
    BY <1>12 DEF Restart
  <2>3. Silent
    BY <2>1, <2>2 DEF Silent
  <2> QED
    BY <2>3, SilentKeeps
<1> QED
  BY <1>1, <1>2, <1>3, <1>4, <1>5, <1>6, <1>7, <1>8, <1>9, <1>10, <1>11, <1>12 DEF Next, Step

\* However often its stream broke and was reopened, a target has one stream at a
\* time and no notification is emitted on it twice, unless unsubscribeAll()
\* cancelled a call of it.
THEOREM EmittedOnce == Spec => []AtMostOnce
<1>1. Init => WatchInv /\ DeliveryInv
  BY DEF Init, WatchInv, DeliveryInv, InboxInv, OnceInv
<1>2. TypeOK /\ WatchInv /\ DeliveryInv => AtMostOnce
  <2> SUFFICES ASSUME TypeOK, WatchInv, DeliveryInv, NEW t \in Target, ~cancelled[t]
               PROVE  /\ \A n \in 1..MaxPublished : got[t][n] <= 1
                      /\ Cardinality({i \in Stream : call[t][i] = "open"}) <= 1
    BY DEF AtMostOnce
  <2>1. {i \in Stream : call[t][i] = "open"} \subseteq {watching[t]}
    BY DEF WatchInv
  <2>2. IsFiniteSet({watching[t]}) /\ Cardinality({watching[t]}) = 1
    BY FS_Singleton
  <2>3. /\ IsFiniteSet({i \in Stream : call[t][i] = "open"})
        /\ Cardinality({i \in Stream : call[t][i] = "open"}) <= Cardinality({watching[t]})
    BY <2>1, <2>2, FS_Subset
  <2> QED
    BY <2>2, <2>3 DEF DeliveryInv, OnceInv
<1> QED
  BY <1>1, <1>2, TypeCorrect, WatchNext, DeliveryNext, PTL DEF Spec
============================================================================
