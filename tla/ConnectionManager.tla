------------------------- MODULE ConnectionManager -------------------------
(***************************************************************************)
(* The acquisition manager of internal/connection/manager.go: connections  *)
(* opened and released by operators, by the startup policy and by the      *)
(* sweep, one pump goroutine per session, and the bridge that reads the    *)
(* shared event channel.                                                   *)
(*                                                                         *)
(* The mutex ops is held for the whole of Connect, Disconnect, the sweep   *)
(* and the body of Close, so one variable, op, is its holder.  The mutex   *)
(* mu is held for short sections: each is a step.  DeleteProfile and Close *)
(* do part of their work without ops.                                      *)
(*                                                                         *)
(* A session is named by its generation.  Its one channel carries a label  *)
(* with the generation in it, so a link is named by the generation too.    *)
(***************************************************************************)
EXTENDS Integers, FiniteSets

CONSTANTS
    Profiles,      \* connection ids that are saved profiles
    Devices,       \* connection ids opened directly by device id
    Vehicles,      \* (system, component) identities heard on the links
    MaxGen,        \* bound: sessions opened by one process
    MaxOps,        \* bound: operations of one process
    MaxEpoch       \* bound: process lifetimes

Conns == Profiles \cup Devices
ASSUME ConnsAssumption == Profiles \cap Devices = {} /\ Conns # {}
ASSUME ManagerBounds == MaxGen \in Nat \ {0} /\ MaxOps \in Nat /\ MaxEpoch \in Nat \ {0}

VARIABLES
    epoch,       \* the process lifetime
    intent,      \* the profile file: the intent of each profile, or "DELETED"
    listed,      \* Manager.entries: the connections in the map
    state,       \* entry.status.State
    keys,        \* entry.status.VehicleKeys
    fresh,       \* the connections whose LastFrameAtMs is recent
    session,     \* entry.session: a generation, or None
    generation,  \* Manager.generation of the sessions attached so far
    links,       \* Manager.links: the generations WriteTo can reach
    sightings,   \* Manager.sightings: owner, link and age of each vehicle's last frame
    called,      \* Close has been called
    closing,     \* Manager.closing is closed
    closed,      \* Manager.closed
    done,        \* Manager.done is closed
    op, opNo,    \* the holder of ops, and how many there have been
    startup,     \* goroutines of resolveProfilesAtStartup still waiting for ops
    \* by generation
    owner,       \* the connection of the session
    port,        \* session.source: "unused", "open" or "closed"
    channel,     \* the channel in session.channels: "none", "open" or "gone"
    stop,        \* session.stop is closed
    pump,        \* where the pump goroutine is
    hand,        \* the event the pump is sending on Manager.events
    \* the bridge at the other end of Manager.events
    routes,      \* generations the bridge has frames of and no close
    retired      \* generations whose close the bridge has received

entries == <<listed, state, keys, fresh, session>>
attribution == <<links, sightings>>
life == <<called, closing, closed, done>>
calls == <<op, opNo, startup>>
sessions == <<owner, port, channel, stop, pump, hand, generation>>
bridge == <<routes, retired>>
vars == <<epoch, intent, entries, attribution, life, calls, sessions, bridge>>

None == 0
Gens == 1..MaxGen
Usable == {"AWAITING", "REPORTING", "INTERRUPTED"}
States == Usable \cup {"IDLE", "OPENING", "ACCESS_FAILED",
          "DEVICE_MISSING", "AMBIGUOUS", "TRANSPORT_FAILED", "DEVICE_LOST", "RELEASED"}
Nobody == [kind |-> "none", conn |-> None, pc |-> "free", todo |-> {}]
Unseen == [owner |-> None, link |-> None, old |-> FALSE]
Intents == {"IDLE", "CONNECTED", "RELEASED", "DELETED"}

Saved(c) == c \in Profiles /\ intent[c] # "DELETED"

Init ==
    /\ epoch = 1 /\ intent = [c \in Profiles |-> "IDLE"]
    /\ listed = Profiles /\ state = [c \in Conns |-> "IDLE"]
    /\ keys = [c \in Conns |-> {}] /\ fresh = {} /\ session = [c \in Conns |-> None]
    /\ generation = 0 /\ links = {} /\ sightings = [v \in Vehicles |-> Unseen]
    /\ called = FALSE /\ closing = FALSE /\ closed = FALSE /\ done = FALSE
    /\ op = Nobody /\ opNo = 0 /\ startup = {}
    /\ owner = [g \in Gens |-> None] /\ port = [g \in Gens |-> "unused"]
    /\ channel = [g \in Gens |-> "none"] /\ stop = [g \in Gens |-> FALSE]
    /\ pump = [g \in Gens |-> "off"] /\ hand = [g \in Gens |-> "empty"]
    /\ routes = {} /\ retired = {}

-----------------------------------------------------------------------------
(* Pieces the operations share. *)

Takes(kind, c, pc) ==
    /\ op = Nobody /\ opNo < MaxOps /\ opNo' = opNo + 1
    /\ op' = [kind |-> kind, conn |-> c, pc |-> pc, todo |-> {}]
Returns == op' = Nobody

\* forgetSightings: only attribution still owned by these links goes.
Forgotten(gs) == {v \in Vehicles : sightings[v].link \in gs}
SightingsWithout(vs) == [v \in Vehicles |-> IF v \in vs THEN Unseen ELSE sightings[v]]
KeysWithout(vs) == [c \in Conns |-> keys[c] \ {v \in vs : sightings[v].owner = c}]

\* stopSession up to the join: writes stop, the pump is told, the port is closed.
StopSession(c) ==
    LET g == session[c] IN
    IF g = None THEN UNCHANGED <<session, links, sightings, keys, stop, port>>
    ELSE /\ session' = [session EXCEPT ![c] = None]
         /\ links' = links \ {g}
         /\ LET vs == IF g \in links THEN Forgotten({g}) ELSE {} IN
               sightings' = SightingsWithout(vs) /\ keys' = KeysWithout(vs)
         /\ stop' = [stop EXCEPT ![g] = TRUE]
         /\ port' = [port EXCEPT ![g] = "closed"]
\* The end of stopSession: the pumps that were told to stop have returned.
Joined(c) == \A g \in Gens : owner[g] = c /\ stop[g] => pump[g] = "off"

-----------------------------------------------------------------------------
(* Connect, ConnectProfile and the startup goroutines. *)

Acquire(kind, c) ==
    /\ Takes(kind, c, IF c \in listed THEN "join" ELSE "join-new")
    /\ StopSession(c)

IntentForgotten(c) == intent
IntentBeforeOpen(c) == IF c \in Profiles THEN [intent EXCEPT ![c] = "CONNECTED"] ELSE intent

\* The connection has a usable session already.
InUse(c) == c \in listed /\ session[c] # None /\ state[c] \in Usable

\* An operator opens a connection that is not usable; a profile's intent is
\* persisted first.  (Missing or ambiguous devices and a failed write change nothing.)
Connect(c) ==
    /\ ~closed
    /\ c \in Profiles => Saved(c)
    /\ ~InUse(c)
    /\ intent' = IntentBeforeOpen(c)
    /\ Acquire("connect", c)
    /\ UNCHANGED <<epoch, listed, state, fresh, life, startup, owner, channel, pump, hand, generation, bridge>>

\* The caller has gone when acquire begins: only the intent is written.
ConnectCancelled(c) ==
    /\ ~closed /\ Saved(c) /\ ~InUse(c)
    /\ op = Nobody /\ opNo < MaxOps /\ opNo' = opNo + 1
    /\ intent' = IntentBeforeOpen(c)
    /\ UNCHANGED <<epoch, entries, attribution, life, op, startup, sessions, bridge>>

\* connectResolved: the choice was made when the process started.
StartupConnect(c) ==
    /\ c \in startup /\ startup' = startup \ {c}
    /\ IF closed THEN UNCHANGED <<op, opNo, session, links, sightings, keys, stop, port>>
       ELSE Acquire("connect", c)
    /\ UNCHANGED <<epoch, intent, listed, state, fresh, life, owner, channel, pump, hand, generation, bridge>>

\* acquire publishes Opening and lets go of mu to open the port.
AcquireOpening ==
    /\ op.kind = "connect" /\ op.pc \in {"join", "join-new"} /\ Joined(op.conn)
    /\ listed' = IF op.pc = "join-new" THEN listed \cup {op.conn} ELSE listed
    /\ state' = [state EXCEPT ![op.conn] = "OPENING"]
    /\ keys' = [keys EXCEPT ![op.conn] = {}]
    /\ fresh' = fresh \ {op.conn}
    /\ op' = [op EXCEPT !.pc = "open"]
    /\ UNCHANGED <<epoch, intent, session, attribution, life, opNo, startup, sessions, bridge>>

AcquireOpened ==
    /\ op.kind = "connect" /\ op.pc = "open" /\ generation < MaxGen
    /\ LET g == generation + 1 IN
       /\ generation' = g
       /\ owner' = [owner EXCEPT ![g] = op.conn]
       /\ port' = [port EXCEPT ![g] = "open"]
       /\ pump' = [pump EXCEPT ![g] = "run"]
       /\ session' = [session EXCEPT ![op.conn] = g]
       /\ state' = [state EXCEPT ![op.conn] = "AWAITING"]
    /\ Returns
    /\ UNCHANGED <<epoch, intent, listed, keys, fresh, attribution, life, opNo, startup, channel, stop, hand, bridge>>

\* What becomes of a connection whose port does not open.
FailureStates == {"ACCESS_FAILED", "DEVICE_MISSING"}
AcquireFailed ==
    /\ op.kind = "connect" /\ op.pc = "open"
    /\ \E failure \in FailureStates : state' = [state EXCEPT ![op.conn] = failure]
    /\ Returns
    /\ UNCHANGED <<epoch, intent, listed, keys, fresh, session, attribution, life, opNo, startup, sessions, bridge>>

-----------------------------------------------------------------------------
(* Disconnect, profiles and the sweep. *)

Disconnect(c) ==
    /\ c \in listed
    /\ Takes("disconnect", c, "join") /\ StopSession(c)
    /\ UNCHANGED <<epoch, intent, listed, state, fresh, life, startup, owner, channel, pump, hand, generation, bridge>>

DisconnectReleased ==
    /\ op.kind = "disconnect" /\ op.pc = "join" /\ Joined(op.conn)
    /\ state' = [state EXCEPT ![op.conn] = "RELEASED"]
    /\ keys' = [keys EXCEPT ![op.conn] = {}]
    /\ IF Saved(op.conn) THEN op' = [op EXCEPT !.pc = "persist"] ELSE Returns
    /\ UNCHANGED <<epoch, intent, listed, fresh, session, attribution, life, opNo, startup, sessions, bridge>>

\* The intent is written after the port is released, and the write may fail.
DisconnectPersist ==
    /\ op.kind = "disconnect" /\ op.pc = "persist"
    /\ \/ UNCHANGED intent
       \/ Saved(op.conn) /\ intent' = [intent EXCEPT ![op.conn] = "RELEASED"]
    /\ Returns
    /\ UNCHANGED <<epoch, entries, attribution, life, opNo, startup, sessions, bridge>>

\* DeleteProfile does not wait for ops.
DeleteProfile(c) ==
    /\ Saved(c)
    /\ intent' = [intent EXCEPT ![c] = "DELETED"]
    /\ listed' = IF session[c] = None THEN listed \ {c} ELSE listed
    /\ UNCHANGED <<epoch, state, keys, fresh, session, attribution, life, calls, sessions, bridge>>

\* The last frame of every vehicle and connection is now older than its limit.
Age ==
    /\ fresh # {} /\ fresh' = {}
    /\ sightings' = [v \in Vehicles |-> IF sightings[v] = Unseen THEN Unseen
                                        ELSE [sightings[v] EXCEPT !.old = TRUE]]
    /\ UNCHANGED <<epoch, intent, listed, state, keys, session, links, life, calls, sessions, bridge>>

\* The sweep expires attribution, marks silent connections, and lists the
\* connections whose device has left the inventory.
Sweep ==
    /\ ~closing /\ op = Nobody /\ opNo < MaxOps /\ opNo' = opNo + 1
    /\ LET vs == {v \in Vehicles : sightings[v].old}
       IN \E gone \in SUBSET {c \in listed : session[c] # None} :
            /\ sightings' = SightingsWithout(vs) /\ keys' = KeysWithout(vs)
            /\ state' = [c \in Conns |-> IF c \in listed \ (gone \cup fresh) /\ state[c] = "REPORTING"
                                         THEN "INTERRUPTED" ELSE state[c]]
            /\ op' = IF gone = {} THEN op
                     ELSE [kind |-> "sweep", conn |-> None, pc |-> "next", todo |-> gone]
    /\ UNCHANGED <<epoch, intent, listed, fresh, session, links, life, startup, sessions, bridge>>

SweepStop ==
    /\ op.kind = "sweep" /\ op.pc = "next"
    /\ \E c \in op.todo :
          /\ StopSession(c)
          /\ op' = [op EXCEPT !.conn = c, !.pc = "join", !.todo = @ \ {c}]
    /\ UNCHANGED <<epoch, intent, listed, state, fresh, life, opNo, startup, owner, channel, pump, hand, generation, bridge>>

SweepLost ==
    /\ op.kind = "sweep" /\ op.pc = "join" /\ Joined(op.conn)
    /\ state' = [state EXCEPT ![op.conn] = "DEVICE_LOST"]
    /\ keys' = [keys EXCEPT ![op.conn] = {}]
    /\ IF op.todo = {} THEN Returns ELSE op' = [op EXCEPT !.pc = "next"]
    /\ UNCHANGED <<epoch, intent, listed, fresh, session, attribution, life, opNo, startup, sessions, bridge>>

-----------------------------------------------------------------------------
(* Close. *)

Close ==
    /\ ~called /\ called' = TRUE
    /\ UNCHANGED <<epoch, intent, entries, attribution, closing, closed, done, calls, sessions, bridge>>

CloseBehindOps ==
    /\ called /\ ~closing /\ op = Nobody /\ closing' = TRUE
    /\ UNCHANGED <<epoch, intent, entries, attribution, called, closed, done, calls, sessions, bridge>>
\* The pumps are released before Close waits for ops.
CloseBegin ==
    /\ called /\ ~closing /\ closing' = TRUE
    /\ UNCHANGED <<epoch, intent, entries, attribution, called, closed, done, calls, sessions, bridge>>

\* Close gets ops: no operation starts from here on.
CloseLock ==
    /\ closing /\ ~closed /\ op = Nobody
    /\ closed' = TRUE
    /\ op' = [kind |-> "close", conn |-> None, pc |-> "next", todo |-> {c \in listed : session[c] # None}]
    /\ UNCHANGED <<epoch, intent, entries, attribution, called, closing, done, opNo, startup, sessions, bridge>>

CloseStop ==
    /\ op.kind = "close" /\ op.pc = "next"
    /\ \E c \in op.todo :
          /\ StopSession(c)
          /\ op' = [op EXCEPT !.conn = c, !.pc = "join", !.todo = @ \ {c}]
    /\ UNCHANGED <<epoch, intent, listed, state, fresh, life, opNo, startup, owner, channel, pump, hand, generation, bridge>>

CloseJoin ==
    /\ op.kind = "close"
    /\ \/ op.pc = "join" /\ Joined(op.conn) /\ op' = [op EXCEPT !.pc = "next"]
       \/ op.pc = "next" /\ op.todo = {} /\ Returns
    /\ UNCHANGED <<epoch, intent, entries, attribution, life, opNo, startup, sessions, bridge>>

\* wg.Wait: every pump and startup goroutine has returned.
CloseDone ==
    /\ closed /\ ~done /\ op = Nobody /\ startup = {}
    /\ \A g \in Gens : pump[g] = "off"
    /\ done' = TRUE
    /\ UNCHANGED <<epoch, intent, entries, attribution, called, closing, closed, calls, sessions, bridge>>

-----------------------------------------------------------------------------
(* The pump of one session. *)

ObservesAny(g) == TRUE
\* observe refuses a session that is no longer its connection's.
Observes(g) == session[owner[g]] = g
\* The pump may have taken its next event before the port was closed.
Running(g) == pump[g] = "run" /\ hand[g] = "empty"
PumpFrame == UNCHANGED <<epoch, intent, listed, fresh, session, life, calls, owner, port, stop, generation, bridge>>

\* An event of a session that has been replaced or stopped ends its pump.
PumpStale(g) ==
    /\ Running(g) /\ ~Observes(g)
    /\ pump' = [pump EXCEPT ![g] = "retire"]
    /\ UNCHANGED <<state, keys, attribution, channel, hand>> /\ PumpFrame

ObserveOpen(g) ==
    /\ Running(g) /\ Observes(g) /\ channel[g] = "none"
    /\ channel' = [channel EXCEPT ![g] = "open"]
    /\ links' = links \cup {g}
    /\ hand' = [hand EXCEPT ![g] = "open"]
    /\ UNCHANGED <<state, keys, sightings, pump>> /\ PumpFrame

KeysKept(c, v) == [keys EXCEPT ![c] = @ \cup {v}]
\* A vehicle moves to the connection it was last heard on.
KeysAfterFrame(c, v) ==
    [d \in Conns |-> IF d = c THEN keys[d] \cup {v}
                     ELSE IF d = sightings[v].owner THEN keys[d] \ {v} ELSE keys[d]]

ObserveFrame(g, v) ==
    /\ Running(g) /\ Observes(g) /\ channel[g] = "open" /\ g \in links
    /\ state' = [state EXCEPT ![owner[g]] = "REPORTING"]
    /\ keys' = KeysAfterFrame(owner[g], v)
    /\ sightings' = [sightings EXCEPT ![v] = [owner |-> owner[g], link |-> g, old |-> FALSE]]
    /\ fresh' = fresh \cup {owner[g]}
    /\ hand' = [hand EXCEPT ![g] = "frame"]
    /\ UNCHANGED <<epoch, intent, listed, session, links, life, calls, owner, port, channel, stop,
                   pump, generation, bridge>>

\* The serial transport breaks: its channel is closed with an error.
ObserveClose(g) ==
    /\ Running(g) /\ Observes(g) /\ channel[g] = "open" /\ g \in links
    /\ links' = links \ {g}
    /\ sightings' = SightingsWithout(Forgotten({g}))
    /\ state' = [state EXCEPT ![owner[g]] = "TRANSPORT_FAILED"]
    /\ keys' = [KeysWithout(Forgotten({g})) EXCEPT ![owner[g]] = {}]
    /\ hand' = [hand EXCEPT ![g] = "close"]
    /\ UNCHANGED <<channel, pump>> /\ PumpFrame

\* failed: the transport's event stream has ended.
PumpFailed(g) ==
    /\ Running(g)
    /\ IF Observes(g)
       THEN /\ state' = [state EXCEPT ![owner[g]] = "TRANSPORT_FAILED"]
            /\ keys' = [keys EXCEPT ![owner[g]] = {}]
       ELSE UNCHANGED <<state, keys>>
    /\ pump' = [pump EXCEPT ![g] = "retire"]
    /\ UNCHANGED <<attribution, channel, hand>> /\ PumpFrame

\* The bridge receives what the pump holds.
Deliver(g) ==
    /\ pump[g] = "run" /\ hand[g] # "empty"
    /\ hand' = [hand EXCEPT ![g] = "empty"]
    /\ channel' = IF hand[g] = "close" THEN [channel EXCEPT ![g] = "gone"] ELSE channel
    /\ routes' = CASE hand[g] = "frame" -> routes \cup {g}
                   [] hand[g] = "close" -> routes \ {g}
                   [] OTHER -> routes
    /\ retired' = IF hand[g] = "close" THEN retired \cup {g} ELSE retired
    /\ UNCHANGED <<epoch, intent, entries, attribution, life, calls, owner, port, stop, pump, generation>>

\* stop or closing wins the select, between two events or while one is in hand.
PumpStop(g) ==
    /\ pump[g] = "run" /\ (stop[g] \/ closing)
    /\ pump' = [pump EXCEPT ![g] = "retire"]
    /\ hand' = [hand EXCEPT ![g] = "empty"]
    /\ UNCHANGED <<state, keys, attribution, channel>> /\ PumpFrame

RetiresUnstopped(g) == channel[g] = "open" /\ ~stop[g]
\* The deferred part of the pump retires the channel it still has.
Retires(g) == channel[g] = "open"
PumpRetire(g) ==
    /\ pump[g] = "retire"
    /\ LET vs == IF channel[g] = "open" THEN Forgotten({g}) ELSE {} IN
          sightings' = SightingsWithout(vs) /\ keys' = KeysWithout(vs)
    /\ links' = links \ {g}
    /\ pump' = [pump EXCEPT ![g] = IF Retires(g) THEN "closing" ELSE "off"]
    /\ UNCHANGED <<state, channel, hand>> /\ PumpFrame

DeliverClose(g) ==
    /\ pump[g] = "closing" /\ pump' = [pump EXCEPT ![g] = "off"]
    /\ routes' = routes \ {g} /\ retired' = retired \cup {g}
    /\ UNCHANGED <<epoch, intent, entries, attribution, life, calls, owner, port, channel, stop, hand, generation>>
PumpAbandon(g) ==
    /\ pump[g] = "closing" /\ closing /\ pump' = [pump EXCEPT ![g] = "off"]
    /\ UNCHANGED <<state, keys, attribution, channel, hand>> /\ PumpFrame

-----------------------------------------------------------------------------
\* The process dies, or exits after Close, and starts again: resolveProfilesAtStartup
\* lists every profile and chooses the connected ones that match one device.
Restart ==
    /\ epoch < MaxEpoch /\ epoch' = epoch + 1
    /\ \E match \in [{c \in Profiles : intent[c] = "CONNECTED"} -> {"OPENING", "DEVICE_MISSING", "AMBIGUOUS"}] :
          /\ startup' = {c \in DOMAIN match : match[c] = "OPENING"}
          /\ state' = [c \in Conns |-> CASE c \in DOMAIN match -> match[c]
                         [] c \in Profiles /\ intent[c] = "RELEASED" -> "RELEASED"
                         [] OTHER -> "IDLE"]
    /\ listed' = {c \in Profiles : intent[c] # "DELETED"}
    /\ keys' = [c \in Conns |-> {}] /\ fresh' = {} /\ session' = [c \in Conns |-> None]
    /\ generation' = 0 /\ links' = {} /\ sightings' = [v \in Vehicles |-> Unseen]
    /\ called' = FALSE /\ closing' = FALSE /\ closed' = FALSE /\ done' = FALSE
    /\ op' = Nobody /\ opNo' = 0
    /\ owner' = [g \in Gens |-> None] /\ port' = [g \in Gens |-> "unused"]
    /\ channel' = [g \in Gens |-> "none"] /\ stop' = [g \in Gens |-> FALSE]
    /\ pump' = [g \in Gens |-> "off"] /\ hand' = [g \in Gens |-> "empty"]
    /\ routes' = {} /\ retired' = {}
    /\ UNCHANGED intent

Acquiring == AcquireOpening \/ AcquireOpened \/ AcquireFailed
Releasing == DisconnectReleased \/ DisconnectPersist
Sweeping == SweepStop \/ SweepLost
Closing == CloseBegin \/ CloseLock \/ CloseStop \/ CloseJoin \/ CloseDone
Source(g) == ObserveOpen(g) \/ (\E v \in Vehicles : ObserveFrame(g, v)) \/ ObserveClose(g) \/ PumpFailed(g)
PumpEnds(g) == PumpStale(g) \/ PumpStop(g) \/ PumpRetire(g) \/ PumpAbandon(g)
Receives(g) == Deliver(g) \/ DeliverClose(g)

Next ==
    \/ \E c \in Conns : Connect(c) \/ ConnectCancelled(c) \/ StartupConnect(c) \/ Disconnect(c) \/ DeleteProfile(c)
    \/ Acquiring \/ Releasing \/ Age \/ Sweep \/ Sweeping \/ Close \/ Closing
    \/ \E g \in Gens : Source(g) \/ PumpEnds(g) \/ Receives(g)
    \/ Restart

Spec == Init /\ [][Next]_vars

\* Goroutines are scheduled, opening a port returns, and a mutex is not lost for
\* ever to later callers.  Nothing is assumed of the bridge: it may have stalled.
FairSpec ==
    /\ Spec
    /\ WF_vars(Acquiring) /\ WF_vars(Releasing) /\ WF_vars(Sweeping)
    /\ WF_vars(Closing) /\ SF_vars(CloseLock) /\ \A c \in Conns : SF_vars(StartupConnect(c))
    /\ \A g \in Gens : WF_vars(PumpEnds(g))

-----------------------------------------------------------------------------
(* Properties. *)

\* Every variable of the manager and of its sessions keeps its type.
TypeOK ==
    /\ epoch \in 1..MaxEpoch /\ intent \in [Profiles -> Intents]
    /\ listed \subseteq Conns /\ state \in [Conns -> States] /\ keys \in [Conns -> SUBSET Vehicles]
    /\ fresh \subseteq Conns /\ session \in [Conns -> Gens \cup {None}] /\ generation \in 0..MaxGen
    /\ links \subseteq Gens
    /\ sightings \in [Vehicles -> [owner : Conns \cup {None}, link : Gens \cup {None}, old : BOOLEAN]]
    /\ {called, closing, closed, done} \subseteq BOOLEAN
    /\ op \in [kind : {"none", "connect", "disconnect", "sweep", "close"}, conn : Conns \cup {None},
               pc : {"free", "join", "join-new", "open", "persist", "next"}, todo : SUBSET Conns]
    /\ opNo \in 0..MaxOps /\ startup \subseteq Profiles
    /\ owner \in [Gens -> Conns \cup {None}] /\ port \in [Gens -> {"unused", "open", "closed"}]
    /\ channel \in [Gens -> {"none", "open", "gone"}] /\ stop \in [Gens -> BOOLEAN]
    /\ pump \in [Gens -> {"off", "run", "retire", "closing"}]
    /\ hand \in [Gens -> {"empty", "open", "frame", "close"}]
    /\ routes \subseteq Gens /\ retired \subseteq Gens

\* The state has its types, and a vehicle is shown under one connection, the one that
\* heard it last (observe).
OneOwner == TypeOK /\ \A c \in Conns : \A v \in keys[c] : sightings[v].owner = c

\* WriteTo reaches only the port a connection holds now, and a late event of an old
\* session never revives a connection that was released or lost.
StoppedIsSilent ==
    /\ \A g \in links : session[owner[g]] = g /\ port[g] = "open"
    /\ \A c \in Conns : state[c] \in {"RELEASED", "DEVICE_LOST"} =>
          session[c] = None /\ keys[c] = {}

\* The close of a channel is the last event of it the bridge sees, and a pump that
\* has returned has told the bridge, so that no dead route is left behind.
RetiredInOrder ==
    /\ routes \cap retired = {}
    /\ \A g \in routes : pump[g] = "off" => closing

\* A profile whose port an operator has opened is remembered as connected: a failed write
\* never leaves an acquisition running unrecorded (ConnectProfile).  A later process is
\* left out: connectResolved does not read the intent again, so a Disconnect that gets
\* ops before a startup goroutine is overridden by it.
HeldIsRecorded ==
    \A g \in Gens : port[g] = "open" /\ Saved(owner[g]) /\ epoch = 1 => intent[owner[g]] = "CONNECTED"

\* Close returns although the bridge no longer reads and an operation holds ops, and it
\* has cancelled all producers: no port is held any more (Close).
CloseReturns == called ~> done /\ \A g \in Gens : port[g] # "open"
=============================================================================
