------------------------------- MODULE Bridge -------------------------------
(***************************************************************************)
(* The receive pipeline: internal/bridge/bridge.go with the vehicle fold   *)
(* (internal/vehicle), the route table (internal/routes) and the rate      *)
(* requester (internal/bridge/rates.go), fed by links that come and go and *)
(* read by HTTP goroutines that resolve routes.                            *)
(*                                                                         *)
(* A key is a (system, component).  A frame is a heartbeat with a mode, or *)
(* anything else.  Links are those of serial sessions, whose names carry a *)
(* generation and are used once.  The last fleet event emitted for a key   *)
(* is what the hub retains of it and every browser shows, unless the       *)
(* requester, which is ahead of the hub among the sinks, ends the bridge.  *)
(***************************************************************************)
EXTENDS Integers, FiniteSets

CONSTANTS
    Keys,          \* vehicles' components
    Autopilots,    \* the ones with the autopilot's component id
    Links,         \* links that are ever opened
    TTL,           \* HeartbeatTTL, the route TTL and MinConflictInterval, in ticks
    MaxTime        \* bound: ticks of the clock

ASSUME AutopilotsAssumption == Autopilots \subseteq Keys
ASSUME TTLAssumption == TTL \in Nat \ {0}
ASSUME TimeBound == MaxTime \in Nat

VARIABLES
    clock,
    link,        \* "new", "open", "closing" (no longer writable) or "gone" for the bridge
    route,       \* Table.entries: link and time of each key's last frame
    known,       \* State.Known
    lost,        \* State.Lost
    mode,        \* the operator-visible part of the last heartbeat
    seen,        \* State.LastSeenMs
    src,         \* State.LastSrcAddr
    fleet,       \* the type of the last fleet event emitted for the key
    lastConflict,\* RateRequester.lastConflictMs
    asking,      \* the vehicle whose rates are about to be requested
    asked,       \* the links a vehicle was sent the whole policy on since it was last lost
    throttled,   \* a source change of the vehicle was kept from the requester since
    ended        \* why Run returned, or "no"

None == "none"
Never == -1
NoRoute == [link |-> None, seen |-> Never]
\* A link's or a vehicle's name is never empty.
ASSUME NamesAssumption == None \notin Links \cup Keys
Modes == 0..1
state == <<known, lost, mode, seen, src, fleet>>
rates == <<lastConflict, asking, asked, throttled>>
vars == <<clock, link, route, state, rates, ended>>

Init ==
    /\ clock = 0 /\ link = [l \in Links |-> "new"] /\ route = [k \in Keys |-> NoRoute]
    /\ known = [k \in Keys |-> FALSE] /\ lost = [k \in Keys |-> FALSE]
    /\ mode = [k \in Keys |-> 0] /\ seen = [k \in Keys |-> Never]
    /\ src = [k \in Keys |-> None] /\ fleet = [k \in Keys |-> None]
    /\ lastConflict = [k \in Keys |-> Never] /\ asking = None
    /\ asked = [k \in Keys |-> {}] /\ throttled = [k \in Keys |-> FALSE]
    /\ ended = "no"

Idle == asking = None /\ ended = "no"

-----------------------------------------------------------------------------
(* The fold of one frame. *)

Expired(k) == known[k] /\ clock - seen[k] > TTL
\* The outage that this frame ends is found before LastSeenMs advances.
Silent(k) == lost[k] \/ Expired(k)

RecoversIfReported(k) == known[k] /\ lost[k]
Recovers(k) == known[k] /\ Silent(k)

Conflict(k, l) == src[k] # None /\ src[k] # l
\* allowConflict.
Allowed(k) == lastConflict[k] = Never \/ clock - lastConflict[k] >= TTL

\* The last event of lifecycle for a heartbeat with mode m.
FleetAfterHeartbeat(k, m) ==
    CASE ~known[k] -> "DISCOVERED"
      [] Recovers(k) -> "RECOVERED"
      [] ~Recovers(k) /\ known[k] /\ m # mode[k] -> "UPDATED"
      [] OTHER -> fleet[k]

OnDiscovery(k) == ~known[k]
\* The fleet events that trigger a request.
OnFleet(k) == ~known[k] \/ Recovers(k)

\* sourceConflict and RateRequester.trigger.  Two triggers of one frame address the
\* same link one after the other: one request stands for both.
Triggers(k, l, heartbeat) ==
    /\ src' = [src EXCEPT ![k] = l]
    /\ LET conflict == k \in Autopilots /\ Conflict(k, l) IN
       /\ lastConflict' = IF conflict /\ Allowed(k) THEN [lastConflict EXCEPT ![k] = clock] ELSE lastConflict
       /\ throttled' = IF conflict /\ ~Allowed(k) THEN [throttled EXCEPT ![k] = TRUE] ELSE throttled
       /\ asking' = IF k \in Autopilots /\ ((heartbeat /\ OnFleet(k)) \/ (conflict /\ Allowed(k)))
                    THEN k ELSE None
    /\ asked' = IF Expired(k) THEN [asked EXCEPT ![k] = {}] ELSE asked

\* frame: the route is recorded before the fold's events are published.
Upserted(k, l) == [route EXCEPT ![k] = [link |-> l, seen |-> clock]]
Received(k, l) ==
    /\ Idle /\ link[l] \in {"open", "closing"}
    /\ route' = Upserted(k, l)
    /\ seen' = [seen EXCEPT ![k] = clock]
    /\ UNCHANGED <<clock, link, ended>>

Heartbeat(k, l, m) ==
    /\ Received(k, l)
    /\ fleet' = [fleet EXCEPT ![k] = FleetAfterHeartbeat(k, m)]
    /\ lost' = [lost EXCEPT ![k] = Silent(k) /\ ~Recovers(k)]
    /\ known' = [known EXCEPT ![k] = TRUE]
    /\ mode' = [mode EXCEPT ![k] = m]
    /\ Triggers(k, l, TRUE)

\* Traffic keeps a vehicle alive, but only a heartbeat discovers or recovers it.
Telemetry(k, l) ==
    /\ Received(k, l)
    /\ fleet' = IF Expired(k) /\ ~lost[k] THEN [fleet EXCEPT ![k] = "LOST"] ELSE fleet
    /\ lost' = [lost EXCEPT ![k] = Silent(k)]
    /\ UNCHANGED <<known, mode>>
    /\ Triggers(k, l, FALSE)

-----------------------------------------------------------------------------
(* RateRequester.Publish. *)

StaleAtLimit(k, now) == route[k] # NoRoute /\ now - route[k].seen >= TTL
\* expired.
Stale(k, now) == route[k] # NoRoute /\ now - route[k].seen > TTL
Without(ks) == [k \in Keys |-> IF k \in ks THEN NoRoute ELSE route[k]]

\* A link that is closed while it is asked is ordinary lifecycle.
OnUnknownLink == "no"

AskRates ==
    /\ asking # None /\ asking' = None
    /\ LET k == asking
           l == route[k].link IN
       CASE l = None \/ Stale(k, clock) -> ended' = "no route" /\ UNCHANGED <<asked, throttled>>
         [] l # None /\ ~Stale(k, clock) /\ link[l] # "open" ->
               ended' = OnUnknownLink /\ UNCHANGED <<asked, throttled>>
         [] OTHER -> /\ asked' = [asked EXCEPT ![k] = @ \cup {l}]
                     /\ throttled' = [throttled EXCEPT ![k] = FALSE]
                     /\ UNCHANGED ended
    /\ UNCHANGED <<clock, link, route, state, lastConflict>>

\* A write that fails in any other way ends the bridge.
AskFails ==
    /\ asking # None /\ asking' = None
    /\ link[route[asking].link] = "open" /\ ended' = "write failed"
    /\ UNCHANGED <<clock, link, route, state, lastConflict, asked, throttled>>

-----------------------------------------------------------------------------
(* The sweep, the route table and the links. *)

\* VEHICLE_LOST is emitted once for an outage.
Expire(k) == Expired(k) /\ ~lost[k]
\* sweepOnce: Expire for every vehicle, then Evict.
Sweep ==
    /\ Idle
    /\ lost' = [k \in Keys |-> lost[k] \/ Expire(k)]
    /\ fleet' = [k \in Keys |-> IF Expire(k) THEN "LOST" ELSE fleet[k]]
    /\ asked' = [k \in Keys |-> IF Expire(k) THEN {} ELSE asked[k]]
    /\ route' = Without({k \in Keys : Stale(k, clock)})
    /\ UNCHANGED <<clock, link, known, mode, seen, src, lastConflict, asking, throttled, ended>>

\* An HTTP goroutine resolves a target: a stale route is removed on the way.
Lookup(k) ==
    /\ Stale(k, clock) /\ route' = Without({k})
    /\ UNCHANGED <<clock, link, state, rates, ended>>

OpenLink(l) ==
    /\ link[l] = "new" /\ link' = [link EXCEPT ![l] = "open"]
    /\ UNCHANGED <<clock, route, state, rates, ended>>
\* The manager stops writes to a link before its close reaches the bridge.
CloseLink(l) ==
    /\ link[l] = "open" /\ link' = [link EXCEPT ![l] = "closing"]
    /\ UNCHANGED <<clock, route, state, rates, ended>>

ForgetLink(l) == Without({k \in Keys : route[k].link = l})
ChannelClose(l) ==
    /\ Idle /\ link[l] = "closing"
    /\ link' = [link EXCEPT ![l] = "gone"]
    /\ route' = ForgetLink(l)
    /\ UNCHANGED <<clock, state, rates, ended>>

\* The events of a frame are published within a TTL of it.
Tick ==
    /\ clock < MaxTime /\ clock' = clock + 1
    /\ asking # None => clock < seen[asking] + TTL
    /\ UNCHANGED <<link, route, state, rates, ended>>

Next ==
    \/ \E k \in Keys, l \in Links : Telemetry(k, l) \/ \E m \in Modes : Heartbeat(k, l, m)
    \/ AskRates \/ AskFails \/ Sweep \/ Tick
    \/ \E k \in Keys : Lookup(k)
    \/ \E l \in Links : OpenLink(l) \/ CloseLink(l) \/ ChannelClose(l)

Spec == Init /\ [][Next]_vars

-----------------------------------------------------------------------------
(* Properties. *)

\* Every variable keeps its type.
TypeOK ==
    /\ clock \in 0..MaxTime /\ link \in [Links -> {"new", "open", "closing", "gone"}]
    /\ route \in [Keys -> {NoRoute} \cup [link : Links, seen : 0..MaxTime]]
    /\ known \in [Keys -> BOOLEAN] /\ lost \in [Keys -> BOOLEAN] /\ mode \in [Keys -> Modes]
    /\ seen \in [Keys -> 0..MaxTime \cup {Never}] /\ src \in [Keys -> Links \cup {None}]
    /\ fleet \in [Keys -> {None, "DISCOVERED", "LOST", "RECOVERED", "UPDATED"}]
    /\ lastConflict \in [Keys -> 0..MaxTime \cup {Never}] /\ asking \in Autopilots \cup {None}
    /\ asked \in [Keys -> SUBSET Links] /\ throttled \in [Keys -> BOOLEAN]
    /\ ended \in {"no", "write failed", "no route", "unknown link"}

\* The state has its types, and while the bridge runs, what browsers are told last agrees
\* with the fold: a vehicle is shown as lost exactly while the fold holds it lost, whether the sweep or a late frame
\* found the outage, and nothing is shown of one without a heartbeat (lifecycle, Expire).
ShownAsHeld ==
    /\ TypeOK
    /\ ended = "no" => \A k \in Keys : (known[k] <=> fleet[k] # None) /\ (lost[k] <=> fleet[k] = "LOST")

\* No route leads to a link whose close the bridge has handled (ForgetLink).
NoDeadRoute == \A k \in Keys : route[k] # NoRoute => link[route[k].link] # "gone"

\* Reachability is aligned with liveness (routeTTLMs): a vehicle heard within the TTL has
\* a route over the link it was last heard on, as long as the bridge has that link.
ReachableWhileHeard ==
    \A k \in Keys : seen[k] # Never /\ clock - seen[k] <= TTL /\ link[src[k]] # "gone" =>
        route[k].link = src[k]

\* A route leads where the vehicle is heard, for as long as it is and no longer.
RoutesFollowLinks == NoDeadRoute /\ ReachableWhileHeard

\* A vehicle on a writable link was sent the policy on that link since it was last lost,
\* unless the conflict interval kept a source change from the requester (trigger).  Only a
\* failed write ends the asking, and the bridge with it: neither a link that closes
\* meanwhile nor a route that goes missing under the requester does (Publish).
AskedUnlessThrottled ==
    /\ ended \in {"no", "write failed"}
    /\ ended = "no" => \A k \in Autopilots :
        known[k] /\ ~lost[k] /\ asking # k /\ link[src[k]] = "open" =>
            src[k] \in asked[k] \/ throttled[k]
=============================================================================
