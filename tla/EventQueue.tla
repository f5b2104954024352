----------------------------- MODULE EventQueue -----------------------------
(***************************************************************************)
(* The policy-match events: publish_policy_match pushes to one bounded     *)
(* queue, and every SubscribeEvents call runs a thread that takes events   *)
(* from it and sends them through a bounded channel to its client          *)
(* (crates/net_policy_events).  Subscribers compete: an event goes to one  *)
(* of them.  Events are numbered in the order of publication.              *)
(***************************************************************************)
EXTENDS Naturals, Sequences

CONSTANTS
  Subscribers,     \* SubscribeEvents calls
  Capacity,        \* EVENT_QUEUE_CAPACITY, 256 in the code
  ChannelSize,     \* bound of the mpsc channel, 16 in the code
  MaxEvents        \* bound on published events

ASSUME CapacityAssumption == Capacity \in Nat \ {0} /\ ChannelSize \in Nat \ {0}
ASSUME MaxEventsAssumption == MaxEvents \in Nat

VARIABLES
  inner,       \* the queue
  published,   \* events published so far
  at,          \* subscriber thread: none, check, wait, send or retired
  held,        \* the event a thread has popped and not yet sent; 0 if none
  channel,     \* events sent and not yet read by the client
  connected,   \* does the client hold its end of the channel?
  got,         \* what the client has read
  late         \* events popped for a client that was gone

vars == <<inner, published, at, held, channel, connected, got, late>>
client == <<channel, connected, got>>

-----------------------------------------------------------------------------
\* Changed: a full queue drops the new event.
pushDropsNewest ==
  /\ published < MaxEvents
  /\ published' = published + 1
  /\ inner' = IF Len(inner) >= Capacity THEN inner ELSE Append(inner, published + 1)
  /\ UNCHANGED <<at, held, client, late>>

\* A full queue drops its oldest event.
push ==
  /\ published < MaxEvents
  /\ published' = published + 1
  /\ inner' = Append(IF Len(inner) >= Capacity THEN Tail(inner) ELSE inner, published + 1)
  /\ UNCHANGED <<at, held, client, late>>

subscribe_events(s) ==
  /\ at[s] = "none"
  /\ at' = [at EXCEPT ![s] = "check"]
  /\ connected' = [connected EXCEPT ![s] = TRUE]
  /\ UNCHANGED <<inner, published, held, channel, got, late>>

\* Changed: the loop does not look.
CheckNothing(s) ==
  /\ at[s] = "check"
  /\ at' = [at EXCEPT ![s] = "wait"]
  /\ UNCHANGED <<inner, published, held, client, late>>

\* tx.is_closed() at the head of the loop.
CheckClosed(s) ==
  /\ at[s] = "check"
  /\ at' = [at EXCEPT ![s] = IF connected[s] THEN "wait" ELSE "retired"]
  /\ UNCHANGED <<inner, published, held, client, late>>

\* Changed: every waiting subscriber takes the event.
PopShared(s) ==
  /\ at[s] = "wait" /\ inner # <<>>
  /\ held' = [t \in Subscribers |-> IF at[t] = "wait" THEN Head(inner) ELSE held[t]]
  /\ inner' = Tail(inner)
  /\ at' = [t \in Subscribers |-> IF at[t] = "wait" THEN "send" ELSE at[t]]
  /\ UNCHANGED <<published, client, late>>

\* wait_and_pop finds the queue non-empty, at once, notified or at the timeout.
Pop(s) ==
  /\ at[s] = "wait" /\ inner # <<>>
  /\ held' = [held EXCEPT ![s] = Head(inner)]
  /\ inner' = Tail(inner)
  /\ at' = [at EXCEPT ![s] = "send"]
  /\ late' = [late EXCEPT ![s] = IF connected[s] THEN @ ELSE @ + 1]
  /\ UNCHANGED <<published, client>>

\* wait_and_pop finds the queue empty at the timeout.
TimedOut(s) ==
  /\ at[s] = "wait" /\ inner = <<>>
  /\ at' = [at EXCEPT ![s] = "check"]
  /\ UNCHANGED <<inner, published, held, client, late>>

\* Changed: a failed send goes straight back to waiting.
blocking_sendContinues(s) ==
  /\ at[s] = "send"
  /\ held' = [held EXCEPT ![s] = 0]
  /\ at' = [at EXCEPT ![s] = "wait"]
  /\ connected[s] => Len(channel[s]) < ChannelSize
  /\ channel' = IF connected[s] THEN [channel EXCEPT ![s] = Append(@, held[s])] ELSE channel
  /\ UNCHANGED <<inner, published, connected, got, late>>

\* It blocks while the channel is full, and fails when the client is gone.
blocking_send(s) ==
  /\ at[s] = "send"
  /\ held' = [held EXCEPT ![s] = 0]
  /\ \/ /\ connected[s] /\ Len(channel[s]) < ChannelSize
        /\ channel' = [channel EXCEPT ![s] = Append(@, held[s])]
        /\ at' = [at EXCEPT ![s] = "check"]
     \/ /\ ~connected[s]
        /\ at' = [at EXCEPT ![s] = "retired"]
        /\ UNCHANGED channel
  /\ UNCHANGED <<inner, published, connected, got, late>>

ClientReads(s) ==
  /\ connected[s] /\ channel[s] # <<>>
  /\ got' = [got EXCEPT ![s] = Append(@, Head(channel[s]))]
  /\ channel' = [channel EXCEPT ![s] = Tail(@)]
  /\ UNCHANGED <<inner, published, at, held, connected, late>>

\* The client goes away; what its channel holds is lost.
Disconnect(s) ==
  /\ connected[s]
  /\ connected' = [connected EXCEPT ![s] = FALSE]
  /\ channel' = [channel EXCEPT ![s] = <<>>]
  /\ UNCHANGED <<inner, published, at, held, got, late>>

-----------------------------------------------------------------------------
Init ==
  /\ inner = <<>>
  /\ published = 0
  /\ at = [s \in Subscribers |-> "none"]
  /\ held = [s \in Subscribers |-> 0]
  /\ channel = [s \in Subscribers |-> <<>>]
  /\ connected = [s \in Subscribers |-> FALSE]
  /\ got = [s \in Subscribers |-> <<>>]
  /\ late = [s \in Subscribers |-> 0]

Subscriber(s) == CheckClosed(s) \/ Pop(s) \/ TimedOut(s) \/ blocking_send(s)

Next ==
  \/ push
  \/ \E s \in Subscribers :
       subscribe_events(s) \/ Subscriber(s) \/ ClientReads(s) \/ Disconnect(s)

Spec == Init /\ [][Next]_vars

\* Subscriber threads run; nothing is assumed of publishers and clients.
FairSpec == Spec /\ \A s \in Subscribers : WF_vars(Subscriber(s))

-----------------------------------------------------------------------------
\* Every variable keeps its shape, and queue and channels their bounds.
TypeOK ==
  /\ inner \in Seq(1 .. MaxEvents) /\ Len(inner) <= Capacity
  /\ published \in 0 .. MaxEvents
  /\ at \in [Subscribers -> {"none", "check", "wait", "send", "retired"}]
  /\ held \in [Subscribers -> 0 .. MaxEvents]
  /\ channel \in [Subscribers -> Seq(1 .. MaxEvents)]
  /\ \A s \in Subscribers : Len(channel[s]) <= ChannelSize
  /\ connected \in [Subscribers -> BOOLEAN]
  /\ got \in [Subscribers -> Seq(1 .. MaxEvents)]
  /\ late \in [Subscribers -> Nat]

(***************************************************************************)
(* The queue holds the most recent events, without a gap: overflow drops   *)
(* the oldest, whatever the subscribers take meanwhile (lib.rs:40-56, and  *)
(* the test event_queue_drops_oldest_when_full).                           *)
(***************************************************************************)
QueueIsRecent ==
  \A i \in 1 .. Len(inner) : inner[i] = published - Len(inner) + i

(***************************************************************************)
(* The way of an event to a client: what it has read, then its channel,    *)
(* then the event its thread holds, then the queue.  Along it the events   *)
(* are in the order of publication, so a client reads them in order and    *)
(* never twice.                                                            *)
(***************************************************************************)
Path(s) == got[s] \o channel[s] \o (IF held[s] = 0 THEN <<>> ELSE <<held[s]>>) \o inner

Increasing(seq) == \A i, j \in 1 .. Len(seq) : i < j => seq[i] < seq[j]

DeliveredInOrder == \A s \in Subscribers : Increasing(Path(s))

(***************************************************************************)
(* Subscribers compete for events: no event is on its way to, or read by,  *)
(* two of them.                                                            *)
(***************************************************************************)
Taken(s) == {got[s][i] : i \in 1 .. Len(got[s])}
            \cup {channel[s][i] : i \in 1 .. Len(channel[s])} \cup ({held[s]} \ {0})

OneSubscriberEach ==
  \A s, t \in Subscribers : s # t => Taken(s) \cap Taken(t) = {}

(***************************************************************************)
(* Delivery as clients see it: in order, and each event to one of them     *)
(* (lib.rs:147-180).                                                       *)
(***************************************************************************)
DeliveredOnce == DeliveredInOrder /\ OneSubscriberEach

(***************************************************************************)
(* A subscriber whose client is gone takes at most one more event from the *)
(* others (lib.rs:162-171).                                                *)
(***************************************************************************)
GoneTakesAtMostOne == \A s \in Subscribers : late[s] <= 1

(***************************************************************************)
(* A subscriber whose client is gone retires, also if no event is ever     *)
(* published again (lib.rs:167-171).                                       *)
(***************************************************************************)
GoneRetires ==
  \A s \in Subscribers : (at[s] # "none" /\ ~connected[s]) ~> at[s] = "retired"
=============================================================================
