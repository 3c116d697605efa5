---------------------------- MODULE EventStream ----------------------------
(***************************************************************************)
(* Hub, SSE handler and browser: internal/stream/hub.go and sse.go with    *)
(* the fold of frontend/src/fleet/state.ts behind frontend/src/stream/     *)
(* live.ts.                                                                *)
(*                                                                         *)
(* The hub retains the last event of every slot (a vehicle's lifecycle,    *)
(* one telemetry family of a vehicle, one connection's acquisition status) *)
(* and sends commands to whoever listens, retaining none.  A value is the  *)
(* number of its publication: what the properties tell apart is only       *)
(* whether a browser has the last one.                                     *)
(***************************************************************************)
EXTENDS Integers, Sequences, FiniteSets, SequencesExt

CONSTANTS
    Slots,         \* what the hub retains the last event of
    Vehicles,      \* vehicles that commands are sent to
    Browsers,      \* connected pages
    Queue,         \* Hub.queue: headroom beyond the bootstrap
    MaxPub,        \* bound: publications
    MaxLoss,       \* bound: connections the network drops
    MaxEpoch       \* bound: lifetimes of the backend process

ASSUME QueueAssumption == Queue \in Nat \ {0}
ASSUME StreamAssumption == Slots \cap Vehicles = {} /\ IsFiniteSet(Slots)
ASSUME StreamBounds == MaxPub \in Nat /\ MaxLoss \in Nat /\ MaxEpoch \in Nat \ {0}

VARIABLES
    pub,         \* publications so far
    retained,    \* Hub.fleet, Hub.telemetry and Hub.acquisition, 0 when absent
    command,     \* the last command snapshot broadcast for each vehicle
    sub,         \* a page's subscription: "none", "live" or "closed" by the hub
    queue,       \* subscriber.events
    capacity,    \* cap(subscriber.events)
    connected,   \* FleetState.connected of each page
    view,        \* the page's fold of the retained slots
    shown,       \* FleetState.commands of each page
    stale,       \* FleetState.commandsStale of each page
    losses, epoch

hub == <<pub, retained, command>>
subscription == <<sub, queue, capacity>>
page == <<connected, view, shown, stale>>
vars == <<hub, subscription, page, losses, epoch>>

Event(of, value) == [of |-> of, value |-> value]

Init ==
    /\ pub = 0 /\ retained = [s \in Slots |-> 0] /\ command = [v \in Vehicles |-> 0]
    /\ sub = [b \in Browsers |-> "none"] /\ queue = [b \in Browsers |-> <<>>]
    /\ capacity = [b \in Browsers |-> 0]
    /\ connected = [b \in Browsers |-> FALSE]
    /\ view = [b \in Browsers |-> [s \in Slots |-> 0]]
    /\ shown = [b \in Browsers |-> [v \in Vehicles |-> 0]]
    /\ stale = [b \in Browsers |-> {}]
    /\ losses = 0 /\ epoch = 1

-----------------------------------------------------------------------------
(* The hub. *)

Full(b) == Len(queue[b]) >= capacity[b]
\* A subscriber without room leaves the map and its channel is closed; what the
\* channel holds can still be read.
Dropped(b) == "closed"

\* deliver: every live subscriber that has room.
Delivered(event) ==
    /\ queue' = [b \in Browsers |-> IF sub[b] = "live" /\ ~Full(b)
                                    THEN Append(queue[b], event) ELSE queue[b]]
    /\ sub' = [b \in Browsers |-> IF sub[b] = "live" /\ Full(b) THEN Dropped(b) ELSE sub[b]]
    /\ UNCHANGED capacity

\* record and PublishAcquisition.
Publish(s) ==
    /\ pub < MaxPub /\ pub' = pub + 1
    /\ retained' = [retained EXCEPT ![s] = pub + 1]
    /\ Delivered(Event(s, pub + 1))
    /\ UNCHANGED <<command, page, losses, epoch>>

\* broadcast.
PublishCommand(v) ==
    /\ pub < MaxPub /\ pub' = pub + 1
    /\ command' = [command EXCEPT ![v] = pub + 1]
    /\ Delivered(Event(v, pub + 1))
    /\ UNCHANGED <<retained, page, losses, epoch>>

SnapshotOf(values) ==
    LET present == SetToSeq({s \in Slots : values[s] # 0}) IN
    [i \in DOMAIN present |-> Event(present[i], values[present[i]])]
SnapshotUnlessAlone == IF Len(SnapshotOf(retained)) > 1 THEN SnapshotOf(retained) ELSE <<>>
\* snapshot: one event for every slot the hub retains.
Snapshot == SnapshotOf(retained)

\* Subscribe registers and primes the subscription under one lock.
Subscribe(b) ==
    /\ sub[b] = "none" /\ ~connected[b]
    /\ sub' = [sub EXCEPT ![b] = "live"]
    /\ queue' = [queue EXCEPT ![b] = Snapshot]
    /\ capacity' = [capacity EXCEPT ![b] = Len(Snapshot) + Queue]
    /\ UNCHANGED <<hub, page, losses, epoch>>

-----------------------------------------------------------------------------
(* The page. *)

\* The headers arrive: EventSource opens.
Open(b) ==
    /\ sub[b] # "none" /\ ~connected[b]
    /\ connected' = [connected EXCEPT ![b] = TRUE]
    /\ UNCHANGED <<hub, subscription, view, shown, stale, losses, epoch>>

\* applyStreamEvent: the last value of a slot wins; a command that arrives is current.
\* A position observed no later than the last one of its vehicle is a duplicate the hub
\* retained, and leaves the track as it is: its value is the one the view holds already.
Receive(b) ==
    /\ connected[b] /\ queue[b] # <<>>
    /\ queue' = [queue EXCEPT ![b] = Tail(@)]
    /\ LET e == Head(queue[b]) IN
       IF e.of \in Slots
       THEN view' = [view EXCEPT ![b][e.of] = e.value] /\ UNCHANGED <<shown, stale>>
       ELSE /\ shown' = [shown EXCEPT ![b][e.of] = e.value]
            /\ stale' = [stale EXCEPT ![b] = @ \ {e.of}]
            /\ UNCHANGED view
    /\ UNCHANGED <<hub, sub, capacity, connected, losses, epoch>>

StaleKept(b) == stale[b]
\* staleKeys: every command on the page.
StaleKeys(b) == {v \in Vehicles : shown[b][v] # 0}

\* EventSource reports an error; a command the page shows may be out of date from now on.
Disconnected(b) ==
    /\ connected' = [connected EXCEPT ![b] = FALSE]
    /\ stale' = [stale EXCEPT ![b] = StaleKeys(b)]
    /\ sub' = [sub EXCEPT ![b] = "none"]
    /\ queue' = [queue EXCEPT ![b] = <<>>]
    /\ UNCHANGED <<hub, capacity, view, shown>>

EndedNever(b) == FALSE
Ended(b) == sub[b] = "closed" /\ queue[b] = <<>>
\* The handler has written everything a closed channel held, and returns.
StreamEnds(b) ==
    /\ connected[b] /\ Ended(b)
    /\ Disconnected(b) /\ UNCHANGED <<losses, epoch>>

\* The network loses the connection and whatever was on its way.
ConnectionLost(b) ==
    /\ sub[b] # "none" /\ losses < MaxLoss /\ losses' = losses + 1
    /\ Disconnected(b) /\ UNCHANGED epoch

\* The backend closes its hub or dies, and restarts with an empty one; every page is
\* disconnected.
Restart ==
    /\ epoch < MaxEpoch /\ epoch' = epoch + 1
    /\ retained' = [s \in Slots |-> 0]
    /\ sub' = [b \in Browsers |-> "none"] /\ queue' = [b \in Browsers |-> <<>>]
    /\ connected' = [b \in Browsers |-> FALSE]
    /\ stale' = [b \in Browsers |-> StaleKeys(b)]
    /\ UNCHANGED <<pub, command, capacity, view, shown, losses>>

BrowserStep(b) == Subscribe(b) \/ Open(b) \/ Receive(b) \/ StreamEnds(b)
Next ==
    \/ \E s \in Slots : Publish(s)
    \/ \E v \in Vehicles : PublishCommand(v)
    \/ \E b \in Browsers : BrowserStep(b) \/ ConnectionLost(b)
    \/ Restart

Spec == Init /\ [][Next]_vars
\* A page reconnects and reads, and the handler writes.
FairSpec == Spec /\ \A b \in Browsers : WF_vars(BrowserStep(b))

-----------------------------------------------------------------------------
(* Properties. *)

\* Every variable keeps its type, and no channel holds more than its capacity.
TypeOK ==
    /\ pub \in 0..MaxPub /\ retained \in [Slots -> 0..MaxPub] /\ command \in [Vehicles -> 0..MaxPub]
    /\ sub \in [Browsers -> {"none", "live", "closed"}]
    /\ queue \in [Browsers -> Seq([of : Slots \cup Vehicles, value : 1..MaxPub])]
    /\ capacity \in [Browsers -> Nat]
    /\ \A b \in Browsers : Len(queue[b]) <= capacity[b]
    /\ connected \in [Browsers -> BOOLEAN]
    /\ view \in [Browsers -> [Slots -> 0..MaxPub]] /\ shown \in [Browsers -> [Vehicles -> 0..MaxPub]]
    /\ stale \in [Browsers -> SUBSET Vehicles]
    /\ losses \in 0..MaxLoss /\ epoch \in 1..MaxEpoch

\* Reading q leaves a page with value for something it now has as now: the last event
\* about it in q carries value, or q has none and now is value.
EndsWith(q, of, now, value) ==
    LET about == {i \in DOMAIN q : q[i].of = of} IN
    \/ about = {} /\ now = value
    \/ \E i \in about : q[i].value = value /\ \A j \in about : j <= i

\* The state has its types, no channel holds more than its capacity, and a subscriber
\* the hub still serves misses nothing: bootstrap and live events leave no
\* gap, whatever was published around Subscribe (Subscribe: under one lock).
InSync ==
    /\ TypeOK
    /\ \A b \in Browsers : sub[b] = "live" =>
        \A s \in Slots : retained[s] # 0 => EndsWith(queue[b], s, view[b][s], retained[s])

\* A command on a page that still listens is the last one published for its vehicle, or
\* the page marks it: commands missed while away are never passed off as current.
HonestCommands ==
    \A b \in Browsers : sub[b] # "closed" =>
        \A v \in Vehicles : shown[b][v] # 0 =>
            v \in stale[b] \/ EndsWith(queue[b], v, shown[b][v], command[v])

\* However often a page is dropped, it ends with what the hub retains.
Converges == <>[](\A b \in Browsers : \A s \in Slots : retained[s] # 0 => view[b][s] = retained[s])
=============================================================================
