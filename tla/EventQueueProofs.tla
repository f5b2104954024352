-------------------------- MODULE EventQueueProofs --------------------------
(***************************************************************************)
(* The event queue for any capacity, channel size and number of            *)
(* subscribers.  The inductive invariant adds to the properties where a    *)
(* subscriber can be that holds an event, or that took one for a client    *)
(* that was gone, and the order of the events in the places each passes:   *)
(* read, in the channel, held, in the queue.                               *)
(***************************************************************************)
EXTENDS EventQueue, Integers, TLAPS

Holding == \A s \in Subscribers : at[s] = "send" => held[s] # 0

LateOnce ==
  \A s \in Subscribers :
    /\ late[s] \in {0, 1}
    /\ late[s] = 1 => ~connected[s] /\ at[s] \in {"send", "retired"}

\* Order, part by part: Path(s) is increasing when its parts are, and each of
\* them comes before the next.  Old is the last event that left the queue.
Old == published - Len(inner)
Below(q, n) == \A i \in 1 .. Len(q) : q[i] < n
Before(q, r) == \A i \in 1 .. Len(q) : \A j \in 1 .. Len(r) : q[i] < r[j]

PartsInOrder(s) ==
  /\ Increasing(got[s]) /\ Increasing(channel[s]) /\ Before(got[s], channel[s])
  /\ Below(got[s], Old + 1) /\ Below(channel[s], Old + 1) /\ held[s] <= Old
  /\ held[s] # 0 => Below(got[s], held[s]) /\ Below(channel[s], held[s])
InOrder == \A s \in Subscribers : PartsInOrder(s)

IInv == TypeOK /\ QueueIsRecent /\ Holding /\ LateOnce

\* What Append does to length and elements.
LEMMA AppendFacts ==
  ASSUME NEW S, NEW q \in Seq(S), NEW e \in S
  PROVE  /\ Append(q, e) \in Seq(S)
         /\ Len(Append(q, e)) = Len(q) + 1
         /\ \A i \in 1 .. Len(q) : Append(q, e)[i] = q[i]
         /\ Append(q, e)[Len(q) + 1] = e
OBVIOUS

\* What Head and Tail do to a non-empty sequence.
LEMMA TailFacts ==
  ASSUME NEW S, NEW q \in Seq(S), q # <<>>
  PROVE  /\ Head(q) \in S
         /\ Tail(q) \in Seq(S)
         /\ Len(q) >= 1
         /\ Len(Tail(q)) = Len(q) - 1
         /\ \A i \in 1 .. Len(Tail(q)) : Tail(q)[i] = q[i + 1]
OBVIOUS

\* Publishing, with and without a drop.
LEMMA PushInv ==
  ASSUME IInv, push
  PROVE  IInv'
<1> USE CapacityAssumption, MaxEventsAssumption DEF IInv, TypeOK, client
<1> DEFINE kept == IF Len(inner) >= Capacity THEN Tail(inner) ELSE inner
<1>0. Len(inner) \in Nat /\ Capacity \in Nat /\ Len(inner) <= Capacity
  OBVIOUS
<1>1. /\ kept \in Seq(1 .. MaxEvents)
      /\ Len(kept) + 1 <= Capacity
      /\ \A i \in 1 .. Len(kept) : kept[i] = published - Len(kept) + i
  <2>1. CASE Len(inner) >= Capacity
    <3>1. kept = Tail(inner) /\ inner # <<>>
      BY <2>1
    <3> HIDE DEF kept
    <3>2. /\ kept \in Seq(1 .. MaxEvents)
          /\ Len(kept) = Len(inner) - 1
          /\ \A i \in 1 .. Len(kept) : kept[i] = inner[i + 1]
      BY <3>1, TailFacts
    <3> QED
      BY <1>0, <3>2, SMTT(30) DEF QueueIsRecent
  <2>2. CASE Len(inner) < Capacity
    <3>1. kept = inner
      BY <1>0, <2>2
    <3> HIDE DEF kept
    <3> QED
      BY <1>0, <2>2, <3>1 DEF QueueIsRecent
  <2> HIDE DEF kept
  <2> QED
    BY <1>0, <2>1, <2>2
<1> HIDE DEF kept
<1>2. inner' = Append(kept, published + 1) /\ published' = published + 1
  BY DEF push, kept
<1>3. published + 1 \in 1 .. MaxEvents
  BY DEF push
<1>4. /\ inner' \in Seq(1 .. MaxEvents)
      /\ Len(inner') = Len(kept) + 1
      /\ \A i \in 1 .. Len(kept) : inner'[i] = kept[i]
      /\ inner'[Len(kept) + 1] = published + 1
  BY <1>1, <1>2, <1>3, AppendFacts
<1>5. QueueIsRecent'
  BY <1>1, <1>2, <1>4 DEF QueueIsRecent
<1> QED
  BY <1>1, <1>2, <1>3, <1>4, <1>5, SMTT(30) DEF push, Holding, LateOnce

\* A subscriber takes the oldest event.
LEMMA PopInv ==
  ASSUME IInv, NEW s \in Subscribers, Pop(s)
  PROVE  IInv'
<1> USE CapacityAssumption, MaxEventsAssumption DEF IInv, TypeOK, client
<1>1. /\ Head(inner) \in 1 .. MaxEvents
      /\ Tail(inner) \in Seq(1 .. MaxEvents)
      /\ Len(Tail(inner)) = Len(inner) - 1
      /\ \A i \in 1 .. Len(Tail(inner)) : Tail(inner)[i] = inner[i + 1]
  BY TailFacts DEF Pop
<1>2. QueueIsRecent'
  BY <1>1 DEF Pop, QueueIsRecent
<1>3. late'[s] \in {0, 1} /\ (late'[s] = 1 => ~connected[s])
  <2>1. late[s] = 0
    BY Zenon DEF Pop, LateOnce
  <2>2. CASE connected[s]
    BY <2>1, <2>2 DEF Pop
  <2>3. CASE ~connected[s]
    BY <2>1, <2>3 DEF Pop
  <2> QED
    BY <2>2, <2>3
<1>4. TypeOK'
  BY <1>1, <1>3, SMTT(30) DEF Pop
<1>5. Holding'
  BY <1>1, SMTT(30) DEF Pop, Holding
<1>6. LateOnce'
  BY <1>3, Zenon DEF Pop, LateOnce
<1> QED
  BY <1>2, <1>4, <1>5, <1>6, Zenon

\* The steps of a subscriber and its client that leave the queue alone.
LEMMA OtherInv ==
  ASSUME IInv, NEW s \in Subscribers,
         \/ subscribe_events(s) \/ CheckClosed(s) \/ TimedOut(s)
         \/ blocking_send(s) \/ ClientReads(s) \/ Disconnect(s)
  PROVE  IInv'
<1> USE CapacityAssumption, MaxEventsAssumption
    DEF IInv, TypeOK, client, QueueIsRecent, Holding, LateOnce
<1>1. CASE subscribe_events(s)
  BY <1>1 DEF subscribe_events
<1>2. CASE CheckClosed(s)
  BY <1>2 DEF CheckClosed
<1>3. CASE TimedOut(s)
  BY <1>3 DEF TimedOut
<1>4. CASE blocking_send(s)
  <2>1. held[s] \in 1 .. MaxEvents
    BY <1>4 DEF blocking_send
  <2>2. /\ Append(channel[s], held[s]) \in Seq(1 .. MaxEvents)
        /\ Len(Append(channel[s], held[s])) = Len(channel[s]) + 1
    BY <2>1, AppendFacts
  <2>3. /\ channel' \in [Subscribers -> Seq(1 .. MaxEvents)]
        /\ \A t \in Subscribers : Len(channel'[t]) <= ChannelSize
    <3>1. CASE /\ Len(channel[s]) < ChannelSize
               /\ channel' = [channel EXCEPT ![s] = Append(@, held[s])]
      BY <2>2, <3>1, SMTT(30)
    <3>2. CASE UNCHANGED channel
      BY <3>2
    <3> QED
      BY <1>4, <3>1, <3>2, Zenon DEF blocking_send
  <2>4. /\ at' \in [Subscribers -> {"none", "check", "wait", "send", "retired"}]
        /\ held' \in [Subscribers -> 0 .. MaxEvents]
    <3>1. held' = [held EXCEPT ![s] = 0] /\ 0 \in 0 .. MaxEvents
      BY <1>4 DEF blocking_send
    <3>2. at' = [at EXCEPT ![s] = "check"] \/ at' = [at EXCEPT ![s] = "retired"]
      BY <1>4 DEF blocking_send
    <3> QED
      BY <3>1, <3>2, Zenon
  <2>5. LateOnce' /\ Holding'
    BY <1>4, Zenon DEF blocking_send
  <2> QED
    BY <1>4, <2>3, <2>4, <2>5, Zenon DEF blocking_send
<1>5. CASE ClientReads(s)
  <2>1. /\ Head(channel[s]) \in 1 .. MaxEvents
        /\ Tail(channel[s]) \in Seq(1 .. MaxEvents)
        /\ Len(Tail(channel[s])) = Len(channel[s]) - 1
    <3>1. channel[s] \in Seq(1 .. MaxEvents) /\ channel[s] # <<>>
      BY <1>5 DEF ClientReads
    <3> QED
      BY <3>1, TailFacts, SMTT(30)
  <2>2. Append(got[s], Head(channel[s])) \in Seq(1 .. MaxEvents)
    BY <2>1, AppendFacts
  <2>3. /\ channel' \in [Subscribers -> Seq(1 .. MaxEvents)]
        /\ \A t \in Subscribers : Len(channel'[t]) <= ChannelSize
    <3> DEFINE rest == Tail(channel[s])
    <3>1. channel' = [channel EXCEPT ![s] = rest]
      BY <1>5 DEF ClientReads
    <3>2. /\ rest \in Seq(1 .. MaxEvents) /\ Len(rest) <= ChannelSize
          /\ channel \in [Subscribers -> Seq(1 .. MaxEvents)]
          /\ \A t \in Subscribers : Len(channel[t]) <= ChannelSize
      BY <2>1
    <3> HIDE DEF rest
    <3> QED
      BY ONLY <3>1, <3>2, s \in Subscribers
  <2>4. got' \in [Subscribers -> Seq(1 .. MaxEvents)]
    BY <1>5, <2>2 DEF ClientReads
  <2> QED
    BY <1>5, <2>3, <2>4, Zenon DEF ClientReads
<1>6. CASE Disconnect(s)
  BY <1>6 DEF Disconnect
<1> QED
  BY <1>1, <1>2, <1>3, <1>4, <1>5, <1>6, Zenon

(***************************************************************************)
(* The inductive invariant holds throughout.                               *)
(***************************************************************************)
THEOREM EventInvariant == Spec => []IInv
<1>1. Init => IInv
  BY CapacityAssumption, MaxEventsAssumption DEF Init, IInv, TypeOK, QueueIsRecent, Holding, LateOnce
<1>2. IInv /\ [Next]_vars => IInv'
  <2> SUFFICES ASSUME IInv, [Next]_vars PROVE IInv'
    OBVIOUS
  <2>1. CASE UNCHANGED vars
    BY <2>1 DEF vars, IInv, TypeOK, QueueIsRecent, Holding, LateOnce
  <2> QED
    BY <2>1, PushInv, PopInv, OtherInv DEF Next, Subscriber
<1> QED
  BY <1>1, <1>2, PTL DEF Spec

(***************************************************************************)
(* Shapes and bounds, of the queue and of every channel.                   *)
(***************************************************************************)
THEOREM EventTypeCorrect == Spec => []TypeOK
<1>1. IInv => TypeOK
  BY DEF IInv
<1> QED
  BY EventInvariant, <1>1, PTL

(***************************************************************************)
(* Overflow drops the oldest events and nothing else, for any capacity.    *)
(***************************************************************************)
THEOREM QueueRecent == Spec => []QueueIsRecent
<1>1. IInv => QueueIsRecent
  BY DEF IInv
<1> QED
  BY EventInvariant, <1>1, PTL

(***************************************************************************)
(* A gone client costs the others at most one event, for any number of     *)
(* subscribers.                                                            *)
(***************************************************************************)
THEOREM GoneTakesOne == Spec => []GoneTakesAtMostOne
<1>1. IInv => GoneTakesAtMostOne
  <2> SUFFICES ASSUME IInv PROVE GoneTakesAtMostOne
    OBVIOUS
  <2>1. \A s \in Subscribers : late[s] = 0 \/ late[s] = 1
    BY Zenon DEF IInv, LateOnce
  <2>2. \A n : n = 0 \/ n = 1 => n <= 1
    OBVIOUS
  <2> QED
    BY <2>1, <2>2, Zenon DEF GoneTakesAtMostOne
<1> QED
  BY EventInvariant, <1>1, PTL

-----------------------------------------------------------------------------
(***************************************************************************)
(* Delivery.                                                               *)
(***************************************************************************)
\* An increasing sequence stays so when a later event is appended, ...
LEMMA AppendIncreasing ==
  ASSUME NEW q \in Seq(Nat), NEW e \in Nat, Increasing(q), Below(q, e)
  PROVE  Increasing(Append(q, e))
BY AppendFacts, SMTT(30) DEF Increasing, Below

\* ... when its first one is taken, ...
LEMMA TailIncreasing ==
  ASSUME NEW q \in Seq(Nat), q # <<>>, Increasing(q)
  PROVE  /\ Increasing(Tail(q))
         /\ \A i \in 1 .. Len(Tail(q)) : Head(q) < Tail(q)[i]
<1>1. Head(q) = q[1]
  OBVIOUS
<1> QED
  BY <1>1, TailFacts DEF Increasing

\* ... and when a sequence of later events follows it.
LEMMA ConcatIncreasing ==
  ASSUME NEW q \in Seq(Nat), NEW r \in Seq(Nat), Increasing(q), Increasing(r), Before(q, r)
  PROVE  Increasing(q \o r)
<1>1. /\ q \o r \in Seq(Nat)
      /\ Len(q \o r) = Len(q) + Len(r)
      /\ \A i \in 1 .. Len(q \o r) : (q \o r)[i] = IF i <= Len(q) THEN q[i] ELSE r[i - Len(q)]
  OBVIOUS
<1> SUFFICES ASSUME NEW i \in 1 .. Len(q \o r), NEW j \in 1 .. Len(q \o r), i < j
             PROVE  (q \o r)[i] < (q \o r)[j]
  BY DEF Increasing
<1>2. CASE j <= Len(q)
  BY <1>1, <1>2 DEF Increasing
<1>3. CASE i > Len(q)
  <2>1. i - Len(q) \in 1 .. Len(r) /\ j - Len(q) \in 1 .. Len(r) /\ i - Len(q) < j - Len(q)
    BY <1>1, <1>3
  <2>2. r[i - Len(q)] < r[j - Len(q)]
    BY <2>1, Zenon DEF Increasing
  <2>3. (q \o r)[i] = r[i - Len(q)] /\ (q \o r)[j] = r[j - Len(q)]
    BY <1>1, <1>3
  <2> QED
    BY <2>2, <2>3
<1>4. CASE i <= Len(q) /\ j > Len(q)
  <2>1. i \in 1 .. Len(q) /\ j - Len(q) \in 1 .. Len(r)
    BY <1>1, <1>4
  <2> QED
    BY <1>1, <1>4, <2>1 DEF Before
<1> QED
  BY <1>1, <1>2, <1>3, <1>4, SMTT(30)

\* Elements of a concatenation come from its parts.
LEMMA ConcatBefore ==
  ASSUME NEW p \in Seq(Nat), NEW q \in Seq(Nat), NEW r \in Seq(Nat), Before(p, r), Before(q, r)
  PROVE  Before(p \o q, r)
<1>1. /\ Len(p \o q) = Len(p) + Len(q)
      /\ \A i \in 1 .. Len(p \o q) : (p \o q)[i] = IF i <= Len(p) THEN p[i] ELSE q[i - Len(p)]
  OBVIOUS
<1> SUFFICES ASSUME NEW i \in 1 .. Len(p \o q), NEW j \in 1 .. Len(r) PROVE (p \o q)[i] < r[j]
  BY DEF Before
<1>2. CASE i <= Len(p)
  BY <1>1, <1>2 DEF Before
<1>3. CASE i > Len(p)
  <2>1. i - Len(p) \in 1 .. Len(q) /\ (p \o q)[i] = q[i - Len(p)]
    BY <1>1, <1>3
  <2>2. q[i - Len(p)] < r[j]
    BY <2>1, Zenon DEF Before
  <2> QED
    BY <2>1, <2>2
<1> QED
  BY <1>1, <1>2, <1>3

\* What the numbers and sequences of a subscriber are.
LEMMA PartTypes ==
  ASSUME IInv, NEW s \in Subscribers
  PROVE  /\ got[s] \in Seq(Nat) /\ channel[s] \in Seq(Nat) /\ held[s] \in Nat
         /\ inner \in Seq(Nat) /\ Old \in Int
<1>1. Seq(1 .. MaxEvents) \subseteq Seq(Nat)
  BY MaxEventsAssumption
<1> QED
  BY <1>1, MaxEventsAssumption DEF IInv, TypeOK, Old

\* The parts in order make the way of an event increasing.
LEMMA PartsMakePath ==
  ASSUME IInv, InOrder
  PROVE  DeliveredInOrder
<1> SUFFICES ASSUME NEW s \in Subscribers PROVE Increasing(Path(s))
  BY Zenon DEF DeliveredInOrder
<1> DEFINE g == got[s]
           c == channel[s]
           h == IF held[s] = 0 THEN <<>> ELSE <<held[s]>>
<1>1. g \in Seq(Nat) /\ c \in Seq(Nat) /\ inner \in Seq(Nat) /\ held[s] \in Nat /\ Old \in Int
  BY PartTypes
<1>2. PartsInOrder(s)
  BY DEF InOrder
<1>3. h \in Seq(Nat) /\ Increasing(h) /\ Before(g, h) /\ Before(c, h)
  <2>1. CASE held[s] = 0
    BY <2>1 DEF Increasing, Before
  <2>2. CASE held[s] # 0
    BY <1>1, <1>2, <2>2 DEF PartsInOrder, Increasing, Before, Below
  <2> QED
    BY <2>1, <2>2
<1>4. \A j \in 1 .. Len(inner) : inner[j] = Old + j
  BY MaxEventsAssumption DEF IInv, TypeOK, QueueIsRecent, Old
<1>5. Increasing(inner) /\ Before(g, inner) /\ Before(c, inner) /\ Before(h, inner)
  <2>1. Increasing(inner)
    BY <1>1, <1>4 DEF Increasing
  <2>2. Below(g, Old + 1) /\ Below(c, Old + 1) /\ Below(h, Old + 1)
    BY <1>1, <1>2, <1>4 DEF PartsInOrder, Below
  <2> HIDE DEF g, c, h
  <2>3. \A q \in Seq(Nat) : Below(q, Old + 1) => Before(q, inner)
    <3> SUFFICES ASSUME NEW q \in Seq(Nat), Below(q, Old + 1),
                        NEW i \in 1 .. Len(q), NEW j \in 1 .. Len(inner)
                 PROVE  q[i] < inner[j]
      BY DEF Before
    <3>1. q[i] \in Nat /\ q[i] < Old + 1
      BY DEF Below
    <3> QED
      BY <1>1, <1>4, <3>1, SMTT(30)
  <2> QED
    BY <1>1, <1>3, <2>1, <2>2, <2>3
<1>6. Increasing(g) /\ Increasing(c) /\ Before(g, c)
  BY <1>2 DEF PartsInOrder
<1> DEFINE gc == g \o c
           gch == gc \o h
<1> HIDE DEF g, c, h
<1>7. gc \in Seq(Nat) /\ Increasing(gc) /\ Before(gc, h) /\ Before(gc, inner)
  BY <1>1, <1>3, <1>5, <1>6, ConcatIncreasing, ConcatBefore
<1> HIDE DEF gc
<1>8. gch \in Seq(Nat) /\ Increasing(gch) /\ Before(gch, inner)
  BY <1>1, <1>3, <1>5, <1>7, ConcatIncreasing, ConcatBefore
<1> HIDE DEF gch
<1>9. Increasing(gch \o inner)
  BY <1>1, <1>5, <1>8, ConcatIncreasing
<1> QED
  BY <1>9 DEF Path, g, c, h, gc, gch

\* Publishing moves Old by at most one, and up.
LEMMA OldGrows ==
  ASSUME IInv, push
  PROVE  Old \in Int /\ Old' \in Int /\ Old <= Old'
<1>1. Len(inner) \in Nat /\ published \in Nat /\ published' = published + 1
  BY MaxEventsAssumption DEF IInv, TypeOK, push
<1>2. CASE Len(inner) >= Capacity
  <2>1. inner # <<>>
    BY <1>2, CapacityAssumption
  <2>2. Tail(inner) \in Seq(1 .. MaxEvents) /\ Len(Tail(inner)) = Len(inner) - 1
    BY <2>1, TailFacts DEF IInv, TypeOK
  <2>3. Len(inner') = Len(inner)
    BY <1>1, <1>2, <2>2 DEF push
  <2> QED
    BY <1>1, <2>3 DEF Old
<1>3. CASE ~(Len(inner) >= Capacity)
  <2>1. Len(inner') = Len(inner) + 1
    BY <1>1, <1>3 DEF push, IInv, TypeOK
  <2> QED
    BY <1>1, <2>1 DEF Old
<1> QED
  BY <1>2, <1>3

\* Parts that stay as they are stay in order when Old grows.
LEMMA PartsStay ==
  ASSUME IInv, NEW s \in Subscribers, PartsInOrder(s), Old \in Int, Old' \in Int, Old <= Old',
         got'[s] = got[s], channel'[s] = channel[s], held'[s] = held[s]
  PROVE  PartsInOrder(s)'
<1>1. got[s] \in Seq(Nat) /\ channel[s] \in Seq(Nat) /\ held[s] \in Nat
  BY PartTypes
<1>2. \A q \in Seq(Nat) : Below(q, Old + 1) => Below(q, Old' + 1)
  <2> SUFFICES ASSUME NEW q \in Seq(Nat), NEW i \in 1 .. Len(q), q[i] < Old + 1
               PROVE  q[i] < Old' + 1
    BY DEF Below
  <2>1. q[i] \in Nat
    OBVIOUS
  <2> QED
    BY <2>1
<1> QED
  BY <1>1, <1>2 DEF PartsInOrder

\* The event taken from the queue is the one after Old, and is then Old.
LEMMA PopOrder ==
  ASSUME IInv, InOrder, NEW s \in Subscribers, Pop(s)
  PROVE  InOrder'
<1>1. Old \in Int /\ Old' = Old + 1 /\ Head(inner) = Old + 1
  <2>1. inner \in Seq(1 .. MaxEvents) /\ inner # <<>> /\ published \in Nat
    BY MaxEventsAssumption DEF IInv, TypeOK, Pop
  <2>2. Head(inner) = inner[1] /\ Len(inner) >= 1 /\ Len(Tail(inner)) = Len(inner) - 1
    BY <2>1
  <2> QED
    BY <2>1, <2>2 DEF Pop, Old, IInv, QueueIsRecent
<1> SUFFICES ASSUME NEW t \in Subscribers PROVE PartsInOrder(t)'
  BY DEF InOrder
<1>2. PartsInOrder(t) /\ got'[t] = got[t] /\ channel'[t] = channel[t]
  BY DEF InOrder, Pop, client
<1>3. got[t] \in Seq(Nat) /\ channel[t] \in Seq(Nat) /\ held[t] \in Nat
  BY PartTypes
<1>4. CASE t # s
  <2>1. held'[t] = held[t]
    BY <1>4 DEF Pop, IInv, TypeOK
  <2> QED
    BY <1>1, <1>2, <2>1, PartsStay
<1>5. CASE t = s
  <2>1. held'[t] = Old + 1
    BY <1>1, <1>5 DEF Pop, IInv, TypeOK
  <2>2. \A q \in Seq(Nat) : Below(q, Old + 1) => Below(q, Old' + 1)
    BY <1>1 DEF Below
  <2> QED
    BY <1>1, <1>2, <1>3, <2>1, <2>2 DEF PartsInOrder
<1> QED
  BY <1>4, <1>5

\* The event held goes to the end of the channel.
LEMMA SendOrder ==
  ASSUME IInv, InOrder, NEW s \in Subscribers, blocking_send(s)
  PROVE  InOrder'
<1>1. Old' = Old /\ Old \in Int
  BY PartTypes DEF Old, blocking_send
<1> SUFFICES ASSUME NEW t \in Subscribers PROVE PartsInOrder(t)'
  BY DEF InOrder
<1>2. PartsInOrder(t) /\ got'[t] = got[t]
  BY DEF InOrder, blocking_send
<1>3. got[t] \in Seq(Nat) /\ channel[t] \in Seq(Nat) /\ held[t] \in Nat
  BY PartTypes
<1>4. CASE t # s
  <2>1. held'[t] = held[t] /\ channel'[t] = channel[t]
    BY <1>4 DEF blocking_send, IInv, TypeOK
  <2> QED
    BY <1>1, <1>2, <2>1, PartsStay
<1>5. CASE t = s
  <2>1. held'[t] = 0 /\ held[t] # 0
    BY <1>5 DEF blocking_send, IInv, TypeOK, Holding
  <2>2. 0 <= Old
    BY <1>1, <1>2, <1>3 DEF PartsInOrder
  <2>3. CASE channel'[t] = channel[t]
    BY <1>1, <1>2, <1>3, <2>1, <2>2, <2>3 DEF PartsInOrder
  <2>4. CASE channel'[t] = Append(channel[t], held[t])
    <3>1. Below(got[t], held[t]) /\ Below(channel[t], held[t]) /\ held[t] <= Old
      BY <1>2, <2>1 DEF PartsInOrder
    <3>2. Increasing(Append(channel[t], held[t]))
      BY <1>2, <1>3, <3>1, AppendIncreasing DEF PartsInOrder
    <3>3. Below(Append(channel[t], held[t]), Old + 1)
      BY <1>1, <1>2, <1>3, <3>1, AppendFacts DEF PartsInOrder, Below
    <3>4. Before(got[t], Append(channel[t], held[t]))
      BY <1>2, <1>3, <3>1, AppendFacts DEF PartsInOrder, Below, Before
    <3> QED
      BY <1>1, <1>2, <2>1, <2>2, <2>4, <3>2, <3>3, <3>4 DEF PartsInOrder
  <2> QED
    BY <1>5, <2>3, <2>4 DEF blocking_send, IInv, TypeOK
<1> QED
  BY <1>4, <1>5

\* The head of the channel is read after all that was read, and before the rest.
LEMMA ReadOrder ==
  ASSUME IInv, InOrder, NEW s \in Subscribers, ClientReads(s)
  PROVE  InOrder'
<1>1. Old' = Old /\ Old \in Int
  BY PartTypes DEF Old, ClientReads
<1> SUFFICES ASSUME NEW t \in Subscribers PROVE PartsInOrder(t)'
  BY DEF InOrder
<1>2. PartsInOrder(t) /\ held'[t] = held[t]
  BY DEF InOrder, ClientReads
<1>3. got[t] \in Seq(Nat) /\ channel[t] \in Seq(Nat) /\ held[t] \in Nat
  BY PartTypes
<1>4. CASE t # s
  <2>1. got'[t] = got[t] /\ channel'[t] = channel[t]
    BY <1>4 DEF ClientReads, IInv, TypeOK
  <2> QED
    BY <1>1, <1>2, <2>1, PartsStay
<1>5. CASE t = s
  <2> DEFINE g == got[t]
             c == channel[t]
  <2>1. got'[t] = Append(g, Head(c)) /\ channel'[t] = Tail(c) /\ c # <<>>
    BY <1>5 DEF ClientReads, IInv, TypeOK
  <2>2. /\ Increasing(g) /\ Increasing(c) /\ Before(g, c)
        /\ Below(g, Old + 1) /\ Below(c, Old + 1) /\ held[t] <= Old
        /\ held[t] # 0 => Below(g, held[t]) /\ Below(c, held[t])
    BY <1>2 DEF PartsInOrder
  <2>3. g \in Seq(Nat) /\ c \in Seq(Nat)
    BY <1>3
  <2> HIDE DEF g, c
  <2>4. /\ Head(c) \in Nat /\ Head(c) = c[1] /\ Len(c) >= 1 /\ Tail(c) \in Seq(Nat)
        /\ Len(Tail(c)) = Len(c) - 1
        /\ \A i \in 1 .. Len(Tail(c)) : Tail(c)[i] = c[i + 1]
    BY <2>1, <2>3
  <2>5. Below(g, Head(c))
    BY <2>2, <2>4 DEF Before, Below
  <2>6. Increasing(Append(g, Head(c)))
    BY <2>2, <2>3, <2>4, <2>5, AppendIncreasing
  <2>7. Increasing(Tail(c)) /\ \A i \in 1 .. Len(Tail(c)) : Head(c) < Tail(c)[i]
    BY <2>1, <2>2, <2>3, TailIncreasing
  <2>8. Before(g, Tail(c))
    <3> SUFFICES ASSUME NEW i \in 1 .. Len(g), NEW j \in 1 .. Len(Tail(c)) PROVE g[i] < Tail(c)[j]
      BY DEF Before
    <3>1. j + 1 \in 1 .. Len(c) /\ Tail(c)[j] = c[j + 1]
      BY <2>3, <2>4, SMTT(30)
    <3> QED
      BY <2>2, <3>1 DEF Before
  <2>9. Before(Append(g, Head(c)), Tail(c))
    BY <2>3, <2>4, <2>7, <2>8, AppendFacts DEF Before
  <2>10. \A n \in Int : Below(g, n) /\ Below(c, n) => Below(Append(g, Head(c)), n) /\ Below(Tail(c), n)
    <3> SUFFICES ASSUME NEW n \in Int, Below(g, n), Below(c, n)
                 PROVE  Below(Append(g, Head(c)), n) /\ Below(Tail(c), n)
      OBVIOUS
    <3>1. Head(c) < n
      BY <2>4 DEF Below
    <3>2. Below(Append(g, Head(c)), n)
      BY <2>3, <2>4, <3>1, AppendFacts DEF Below
    <3>3. Below(Tail(c), n)
      BY <2>3, <2>4 DEF Below
    <3> QED
      BY <3>2, <3>3
  <2> QED
    BY <1>1, <1>2, <1>3, <2>1, <2>2, <2>6, <2>7, <2>9, <2>10, SMTT(30) DEF PartsInOrder
<1> QED
  BY <1>4, <1>5

\* Every step keeps the parts in order.
LEMMA OrderStep ==
  ASSUME IInv, InOrder, [Next]_vars
  PROVE  InOrder'
<1>1. CASE push
  BY <1>1, OldGrows, PartsStay DEF InOrder, push, client
<1>2. ASSUME NEW s \in Subscribers, Disconnect(s) PROVE InOrder'
  <2> SUFFICES ASSUME NEW t \in Subscribers PROVE PartsInOrder(t)'
    BY DEF InOrder
  <2>1. PartsInOrder(t) /\ got'[t] = got[t] /\ held'[t] = held[t] /\ Old' = Old
    BY <1>2 DEF InOrder, Disconnect, Old
  <2>2. channel'[t] = channel[t] \/ channel'[t] = <<>>
    BY <1>2 DEF Disconnect, IInv, TypeOK
  <2>3. Increasing(<<>>) /\ Before(got[t], <<>>) /\ \A n : Below(<<>>, n)
    BY DEF Increasing, Before, Below
  <2> QED
    BY <2>1, <2>2, <2>3 DEF PartsInOrder
<1>3. ASSUME UNCHANGED <<inner, published, held, channel, got>> PROVE InOrder'
  BY <1>3 DEF InOrder, PartsInOrder, Old
<1> QED
  BY <1>1, <1>2, <1>3, PopOrder, SendOrder, ReadOrder
  DEF Next, Subscriber, subscribe_events, CheckClosed, TimedOut, client, vars

\* A subscriber has nothing that is still in the queue.
LEMMA TakenIsOld ==
  ASSUME IInv, InOrder, NEW s \in Subscribers
  PROVE  Old + 1 \notin Taken(s)
<1>1. got[s] \in Seq(Nat) /\ channel[s] \in Seq(Nat) /\ held[s] \in Nat /\ Old \in Int
  BY PartTypes
<1>2. Below(got[s], Old + 1) /\ Below(channel[s], Old + 1) /\ held[s] <= Old
  BY DEF InOrder, PartsInOrder
<1>3. \A n \in Int : n < Old + 1 => n # Old + 1
  BY <1>1
<1> QED
  BY <1>1, <1>2, <1>3 DEF Taken, Below

\* Every step keeps the subscribers' events apart.
LEMMA OneEachStep ==
  ASSUME IInv, InOrder, OneSubscriberEach, [Next]_vars
  PROVE  OneSubscriberEach'
<1>1. ASSUME \A t \in Subscribers : Taken(t)' \subseteq Taken(t) PROVE OneSubscriberEach'
  BY <1>1 DEF OneSubscriberEach
<1>2. ASSUME NEW s \in Subscribers, Pop(s) PROVE OneSubscriberEach'
  <2>1. Head(inner) = Old + 1
    <3>1. inner \in Seq(1 .. MaxEvents) /\ inner # <<>> /\ published \in Nat
      BY <1>2, MaxEventsAssumption DEF IInv, TypeOK, Pop
    <3>2. Head(inner) = inner[1] /\ Len(inner) >= 1
      BY <3>1
    <3> QED
      BY <3>1, <3>2 DEF Old, IInv, QueueIsRecent
  <2>2. Taken(s)' \subseteq Taken(s) \cup {Old + 1}
    BY <1>2, <2>1, Zenon DEF Taken, Pop, client, IInv, TypeOK
  <2>3. \A t \in Subscribers \ {s} : Taken(t)' = Taken(t)
    BY <1>2 DEF Taken, Pop, client, IInv, TypeOK
  <2> QED
    BY <2>2, <2>3, TakenIsOld DEF OneSubscriberEach
<1>3. ASSUME NEW s \in Subscribers, blocking_send(s) PROVE OneSubscriberEach'
  <2> SUFFICES ASSUME NEW t \in Subscribers PROVE Taken(t)' \subseteq Taken(t)
    BY <1>1
  <2>1. /\ got'[t] = got[t] /\ held'[t] \in {0, held[t]} /\ held[t] \in Nat
        /\ \/ channel'[t] = channel[t]
           \/ channel'[t] = Append(channel[t], held[t]) /\ held[t] # 0
    BY <1>3, PartTypes, SMTT(30) DEF blocking_send, IInv, TypeOK, Holding
  <2>2. CASE channel'[t] = channel[t]
    BY <2>1, <2>2 DEF Taken
  <2>3. CASE channel'[t] = Append(channel[t], held[t]) /\ held[t] # 0
    <3>1. /\ Len(channel'[t]) = Len(channel[t]) + 1 /\ Len(channel[t]) \in Nat
          /\ \A i \in 1 .. Len(channel[t]) : channel'[t][i] = channel[t][i]
          /\ channel'[t][Len(channel[t]) + 1] = held[t]
      BY <2>3, PartTypes, AppendFacts
    <3>2. \A i \in 1 .. Len(channel'[t]) : channel'[t][i] \in Taken(t)
      <4> SUFFICES ASSUME NEW i \in 1 .. Len(channel'[t]) PROVE channel'[t][i] \in Taken(t)
        OBVIOUS
      <4>1. CASE i \in 1 .. Len(channel[t])
        <5>1. channel'[t][i] = channel[t][i]
          BY <3>1, <4>1
        <5> QED
          BY <4>1, <5>1, Zenon DEF Taken
      <4>2. CASE i \notin 1 .. Len(channel[t])
        <5>1. channel'[t][i] = held[t] /\ held[t] # 0
          BY <2>3, <3>1, <4>2
        <5> QED
          BY <5>1, Zenon DEF Taken
      <4> QED
        BY <4>1, <4>2
    <3> QED
      BY <2>1, <3>2, Zenon DEF Taken
  <2> QED
    BY <2>1, <2>2, <2>3
<1>4. ASSUME NEW s \in Subscribers, ClientReads(s) PROVE OneSubscriberEach'
  <2> SUFFICES ASSUME NEW t \in Subscribers PROVE Taken(t)' \subseteq Taken(t)
    BY <1>1
  <2>1. CASE t # s
    BY <1>4, <2>1 DEF Taken, ClientReads, IInv, TypeOK
  <2>2. CASE t = s
    <3> DEFINE g == got[t]
               c == channel[t]
    <3>1. /\ got'[t] = Append(g, Head(c)) /\ channel'[t] = Tail(c) /\ c # <<>>
          /\ held'[t] = held[t] /\ g \in Seq(Nat) /\ c \in Seq(Nat)
      BY <1>4, <2>2, PartTypes DEF ClientReads, IInv, TypeOK
    <3>2. /\ \A i \in 1 .. Len(g) : g[i] \in Taken(t)
          /\ \A i \in 1 .. Len(c) : c[i] \in Taken(t)
      BY DEF Taken
    <3> HIDE DEF g, c
    <3>3. \A i \in 1 .. Len(Tail(c)) : Tail(c)[i] \in Taken(t)
      BY <3>1, <3>2
    <3>4. Head(c) = c[1] /\ 1 \in 1 .. Len(c)
      BY <3>1
    <3>5. \A i \in 1 .. Len(Append(g, Head(c))) : Append(g, Head(c))[i] \in Taken(t)
      BY <3>1, <3>2, <3>4
    <3> QED
      BY <3>1, <3>3, <3>5, Zenon DEF Taken
  <2> QED
    BY <2>1, <2>2
<1>5. ASSUME NEW s \in Subscribers, Disconnect(s) PROVE OneSubscriberEach'
  <2> SUFFICES ASSUME NEW t \in Subscribers PROVE Taken(t)' \subseteq Taken(t)
    BY <1>1
  <2>1. got'[t] = got[t] /\ held'[t] = held[t] /\ (channel'[t] = channel[t] \/ channel'[t] = <<>>)
    BY <1>5 DEF Disconnect, IInv, TypeOK
  <2> QED
    BY <2>1 DEF Taken
<1>6. ASSUME UNCHANGED <<held, channel, got>> PROVE OneSubscriberEach'
  <2>1. \A t \in Subscribers : Taken(t)' = Taken(t)
    BY <1>6 DEF Taken
  <2> QED
    BY <2>1 DEF OneSubscriberEach
<1> QED
  BY <1>2, <1>3, <1>4, <1>5, <1>6
  DEF Next, Subscriber, push, subscribe_events, CheckClosed, TimedOut, client, vars

(***************************************************************************)
(* Delivery for any number of subscribers, any capacity and channel size:  *)
(* a client reads events in order and once, and no two clients read, or    *)
(* have underway, the same one.                                            *)
(***************************************************************************)
THEOREM EventsDeliveredOnce == Spec => []DeliveredOnce
<1> DEFINE Apart == InOrder /\ OneSubscriberEach
<1>1. Init => Apart
  <2> SUFFICES ASSUME Init PROVE Apart
    OBVIOUS
  <2>1. \A s \in Subscribers : got[s] = <<>> /\ channel[s] = <<>> /\ held[s] = 0
    BY Zenon DEF Init
  <2>2. Increasing(<<>>) /\ Before(<<>>, <<>>) /\ \A n : Below(<<>>, n)
    BY DEF Increasing, Before, Below
  <2>3. Len(<<>>) = 0 /\ 0 - 0 = 0 /\ 1 .. 0 = {}
    OBVIOUS
  <2>4. Old = 0 /\ 0 <= 0
    <3>1. published = 0 /\ inner = <<>>
      BY DEF Init
    <3>2. Old = 0
      BY <2>3, <3>1, Zenon DEF Old
    <3> QED
      BY <3>2
  <2>5. InOrder
    BY <2>1, <2>2, <2>4, Zenon DEF InOrder, PartsInOrder
  <2>6. \A s \in Subscribers : Taken(s) = {}
    BY <2>1, <2>3, Zenon DEF Taken
  <2> QED
    BY <2>5, <2>6 DEF OneSubscriberEach
<1>2. IInv /\ Apart /\ [Next]_vars => Apart'
  BY OrderStep, OneEachStep
<1>3. IInv /\ Apart => DeliveredOnce
  BY PartsMakePath DEF DeliveredOnce
<1> HIDE DEF Apart
<1> QED
  BY EventInvariant, <1>1, <1>2, <1>3, PTL DEF Spec
=============================================================================
