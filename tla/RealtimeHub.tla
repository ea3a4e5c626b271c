------------------------------ MODULE RealtimeHub ------------------------------
(***************************************************************************)
(* How one API process hands finalized events to its clients: the Pub/Sub  *)
(* subscriber with its reconnects, the hub with its replay history, and a  *)
(* client that comes, goes and comes back with the last id it saw.         *)
(*                                                                         *)
(* Everything runs on one event loop, so a publish is one step, but a      *)
(* client that waits in receive() is woken by the first event that is put  *)
(* and runs only later: other publishes may come between.  Clients do not  *)
(* share anything but the hub, so one of them stands for all.              *)
(***************************************************************************)
EXTENDS Integers, Sequences, SequencesExt

CONSTANTS
    ClientQueueSize,    \* client_queue_size
    ReplaySize,         \* replay_size
    MaxEvents,          \* bound: events the event workers publish
    MaxRepeats,         \* bound: events they publish once more
    MaxHubFaults        \* bound: broken connections and malformed messages

ASSUME HubSizesAssumption == ClientQueueSize \in Nat \ {0} /\ ReplaySize \in Nat \ {0}
ASSUME HubBoundsAssumption == MaxEvents \in Nat /\ MaxRepeats \in Nat /\ MaxHubFaults \in Nat

VARIABLES
    broker,     \* what the workers have published, and the faults so far
    source,     \* the subscriber task: its state and what it has not read yet
    stopping,   \* close() was called
    hub,        \* replay history and its ids; accepted: all it ever let in
    client      \* a client and its subscription

hubVars == <<broker, source, stopping, hub, client>>

Garbled == 0            \* a message the codec refuses
Sentinel == -1            \* the _CLOSED sentinel
NoGap == -1             \* no pending gap; else its dropped_events
NoId == 0               \* no last event id

EventIds == 1..MaxEvents

(* given and base tell what the client is owed: given is what it got since   *)
(* it came or since its last gap control, base how much the hub had accepted *)
(* by then.                                                                  *)
Outside == [at |-> "out", queue |-> <<>>, gap |-> NoGap, given |-> <<>>, base |-> 0]

HubTypeOK ==
    /\ broker \in [next : 1..(MaxEvents + 1), repeats : 0..MaxRepeats, faults : 0..MaxHubFaults]
    /\ source.state \in {"STARTING", "ONLINE", "OFFLINE", "STOPPED"}
    /\ Len(source.wire) <= 1
    /\ stopping \in BOOLEAN
    /\ hub.closed \in BOOLEAN
    /\ Len(hub.history) <= ReplaySize
    /\ client.sub.at \in {"out", "ready", "waiting"}
    /\ Len(client.sub.queue) <= ClientQueueSize
    /\ client.last \in {NoId} \cup EventIds

HubInit ==
    /\ broker = [next |-> 1, repeats |-> 0, faults |-> 0]
    /\ source = [state |-> "STARTING", wire |-> <<>>]
    /\ stopping = FALSE
    /\ hub = [history |-> <<>>, ids |-> {}, accepted |-> <<>>, closed |-> FALSE]
    /\ client = [sub |-> Outside, last |-> NoId]

HubFault ==
    /\ broker.faults < MaxHubFaults
    /\ broker' = [broker EXCEPT !.faults = @ + 1]

Highest(a, b) == IF a > b THEN a ELSE b
------------------------------------------------------------------------------
(* Variants of the definitions below that a slip in the code would give.     *)
BugMarkGap(gap, dropped) == dropped

BugShutClient(sub) ==
    [sub EXCEPT !.queue = IF @ = <<>> THEN @ ELSE <<Sentinel>>]
------------------------------------------------------------------------------
(* The subscription.                                                         *)

MarkGap(gap, dropped) == Highest(gap, 0) + dropped

(* offer() for each event in turn: the oldest make room and are counted.     *)
Offer(sub, events) ==
    LET all == sub.queue \o events
        dropped == Highest(Len(all) - ClientQueueSize, 0)
    IN  [sub EXCEPT !.queue = SubSeq(all, dropped + 1, Len(all)),
                    !.gap = IF dropped = 0 THEN @ ELSE MarkGap(@, dropped)]

Subscribed == client.sub.at # "out"

(* subscribe(): a known last id replays what came after it, another one is   *)
(* answered with a gap.                                                      *)
Subscription(last) ==
    LET n == Len(hub.accepted)
        from == SelectLastInSeq(hub.history, LAMBDA e : e = last)
        later == SubSeq(hub.history, from + 1, Len(hub.history))
        fresh == [Outside EXCEPT !.at = "ready", !.base = n]
    IN  IF last = NoId THEN fresh
        ELSE IF from = 0 THEN [fresh EXCEPT !.gap = MarkGap(NoGap, 0)]
        ELSE Offer([fresh EXCEPT !.base = n - Len(later)], later)

(* The server takes no new connection once it is shutting down.              *)
Subscribe ==
    /\ ~Subscribed
    /\ ~stopping
    /\ \E last \in {NoId, client.last} : client' = [client EXCEPT !.sub = Subscription(last)]
    /\ UNCHANGED <<broker, source, stopping, hub>>

Leave ==
    /\ Subscribed
    /\ client' = [client EXCEPT !.sub = Outside]
    /\ UNCHANGED <<broker, source, stopping, hub>>

(* receive() with a gap pending.  The client reads the history over REST and *)
(* goes on from there.                                                       *)
ReceiveGap ==
    /\ client.sub.at = "ready"
    /\ client.sub.gap # NoGap
    /\ client' = [client EXCEPT !.sub.gap = NoGap, !.sub.given = <<>>,
                                !.sub.base = Len(hub.accepted) - Len(client.sub.queue)]
    /\ UNCHANGED <<broker, source, stopping, hub>>

Wait ==
    /\ client.sub.at = "ready"
    /\ client.sub.gap = NoGap
    /\ client.sub.queue = <<>>
    /\ client' = [client EXCEPT !.sub.at = "waiting"]
    /\ UNCHANGED <<broker, source, stopping, hub>>

(* The head of the queue: at once, or for a client that was waiting for it,  *)
(* which does not look at the gap again.                                     *)
ReceiveItem ==
    /\ \/ client.sub.at = "waiting"
       \/ client.sub.at = "ready" /\ client.sub.gap = NoGap
    /\ client.sub.queue # <<>>
    /\ LET next == Head(client.sub.queue)
       IN IF next = Sentinel THEN client' = [client EXCEPT !.sub = Outside]
          ELSE client' = [client EXCEPT !.last = next, !.sub.at = "ready",
                                        !.sub.queue = Tail(@), !.sub.given = Append(@, next)]
    /\ UNCHANGED <<broker, source, stopping, hub>>

(* The wait times out: a heartbeat is sent.                                  *)
Heartbeat ==
    /\ client.sub.at = "waiting"
    /\ client' = [client EXCEPT !.sub.at = "ready"]
    /\ UNCHANGED <<broker, source, stopping, hub>>
------------------------------------------------------------------------------
(* The hub.                                                                  *)

(* The ids that are left once the history has made room for e.               *)
ExpiredIds ==
    IF Len(hub.history) >= ReplaySize THEN hub.ids \ {Head(hub.history)} ELSE hub.ids

Remembered(e) ==
    [hub EXCEPT !.history = Append(IF Len(@) >= ReplaySize THEN Tail(@) ELSE @, e),
                !.ids = ExpiredIds \cup {e},
                !.accepted = Append(@, e)]

HubPublish(e) ==
    IF e \in hub.ids THEN UNCHANGED <<hub, client>>
    ELSE /\ hub' = Remembered(e)
         /\ client' = IF Subscribed THEN [client EXCEPT !.sub = Offer(@, <<e>>)] ELSE client

(* A closed subscription keeps nothing but the sentinel.                     *)
ShutClient(sub) == [sub EXCEPT !.queue = <<Sentinel>>]
------------------------------------------------------------------------------
(* The event workers publish to whoever is subscribed at that moment.        *)

OnWire(message) ==
    source' = IF source.state = "ONLINE" THEN [source EXCEPT !.wire = Append(@, message)]
                                         ELSE source

Notify ==
    /\ broker.next \in EventIds
    /\ source.wire = <<>>
    /\ broker' = [broker EXCEPT !.next = @ + 1]
    /\ OnWire(broker.next)
    /\ UNCHANGED <<stopping, hub, client>>

(* A redelivered stream message is published again.                          *)
NotifyAgain ==
    /\ broker.repeats < MaxRepeats
    /\ source.wire = <<>>
    /\ broker' = [broker EXCEPT !.repeats = @ + 1]
    /\ \E e \in 1..(broker.next - 1) : OnWire(e)
    /\ UNCHANGED <<stopping, hub, client>>

NotifyGarbled ==
    /\ source.wire = <<>>
    /\ HubFault
    /\ OnWire(Garbled)
    /\ UNCHANGED <<stopping, hub, client>>
------------------------------------------------------------------------------
(* _run_source and close().                                                  *)

ConnectSource ==
    /\ source.state = "STARTING"
    /\ \/ /\ source' = [source EXCEPT !.state = "ONLINE"]
          /\ UNCHANGED broker
       \/ /\ HubFault
          /\ source' = [source EXCEPT !.state = "OFFLINE"]
    /\ UNCHANGED <<stopping, hub, client>>

ReceiveMessage ==
    /\ source.state = "ONLINE"
    /\ source.wire # <<>>
    /\ source' = [source EXCEPT !.wire = Tail(@)]
    /\ IF Head(source.wire) = Garbled THEN UNCHANGED <<hub, client>>
       ELSE HubPublish(Head(source.wire))
    /\ UNCHANGED <<broker, stopping>>

LoseConnection ==
    /\ source.state = "ONLINE"
    /\ HubFault
    /\ source' = [state |-> "OFFLINE", wire |-> <<>>]
    /\ UNCHANGED <<stopping, hub, client>>

Reconnect ==
    /\ source.state = "OFFLINE"
    /\ ~stopping
    /\ source' = [source EXCEPT !.state = "STARTING"]
    /\ UNCHANGED <<broker, stopping, hub, client>>

BeginShutdown ==
    /\ ~stopping
    /\ stopping' = TRUE
    /\ UNCHANGED <<broker, source, hub, client>>

(* The task sees the stop event within one poll or is cancelled; then the    *)
(* hub closes its subscriptions.                                             *)
StopSource ==
    /\ stopping
    /\ source.state # "STOPPED"
    /\ source' = [state |-> "STOPPED", wire |-> <<>>]
    /\ UNCHANGED <<broker, stopping, hub, client>>

CloseHub ==
    /\ source.state = "STOPPED"
    /\ ~hub.closed
    /\ hub' = [hub EXCEPT !.closed = TRUE]
    /\ client' = IF Subscribed THEN [client EXCEPT !.sub = ShutClient(@)] ELSE client
    /\ UNCHANGED <<broker, source, stopping>>

Receive == ReceiveGap \/ Wait \/ ReceiveItem

HubNext ==
    \/ Subscribe \/ Leave \/ Receive \/ Heartbeat
    \/ Notify \/ NotifyAgain \/ NotifyGarbled
    \/ ConnectSource \/ ReceiveMessage \/ LoseConnection \/ Reconnect
    \/ BeginShutdown \/ StopSource \/ CloseHub

(* The loop runs what is ready; nobody has to come, publish or shut down.    *)
HubFairness == WF_hubVars(Receive) /\ WF_hubVars(StopSource) /\ WF_hubVars(CloseHub)

HubSpec == HubInit /\ [][HubNext]_hubVars /\ HubFairness
------------------------------------------------------------------------------
(* Nothing is lost silently: what a client was given since it came (or since *)
(* its last gap control) and what still waits for it is everything the hub   *)
(* has accepted since, in that order and once; if it is not, a gap control   *)
(* is pending that counts exactly what is missing, however often the queue   *)
(* has overflowed and whatever replay was asked for.                         *)
GapsAreHonest ==
    (Subscribed /\ ~hub.closed) =>
        LET due == SubSeq(hub.accepted, client.sub.base + 1, Len(hub.accepted))
            got == client.sub.given \o client.sub.queue
        IN  IF client.sub.gap = NoGap THEN got = due
            ELSE client.sub.gap = Len(due) - Len(got)

(* Every client's loop ends when the service closes, a client that waits for *)
(* an event included: shutdown does not hang on it.                          *)
SubscriptionsEnd == hub.closed ~> ~Subscribed
==============================================================================
