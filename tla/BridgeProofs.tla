---------------------------- MODULE BridgeProofs ----------------------------
(***************************************************************************)
(* The safety properties of the receive bridge, for every set of vehicles  *)
(* and links, every TTL and every length of time.                          *)
(***************************************************************************)
EXTENDS Bridge, TLAPS

(* The inductive invariant. *)

\* The fold and what it last told the hub, whether or not the bridge still runs.
Held ==
    \A k \in Keys :
        /\ lost[k] => known[k]
        /\ known[k] => seen[k] # Never
        /\ known[k] <=> fleet[k] # None
        /\ lost[k] <=> fleet[k] = "LOST"

\* A vehicle was last heard in the past, over a link that had been opened.
Heard ==
    \A k \in Keys :
        /\ seen[k] <= clock
        /\ seen[k] = Never <=> src[k] = None
        /\ src[k] # None => link[src[k]] # "new"

\* The route table holds nothing but what the fold last saw.
Routed ==
    \A k \in Keys : route[k] # NoRoute =>
        /\ src[k] # None /\ link[src[k]] # "gone"
        /\ route[k].link = src[k] /\ route[k].seen = seen[k]

\* While the requester is busy its vehicle's route stays and stays fresh.
Pending ==
    asking # None =>
        /\ ended = "no"
        /\ seen[asking] # Never /\ clock - seen[asking] <= TTL
        /\ route[asking] # NoRoute

BridgeInv ==
    TypeOK /\ Held /\ Heard /\ Routed /\ ReachableWhileHeard /\ Pending /\ AskedUnlessThrottled

-----------------------------------------------------------------------------
(* The steps. *)

USE NamesAssumption, AutopilotsAssumption, TTLAssumption, TimeBound

LEMMA InitInv ==
    ASSUME Init
    PROVE  BridgeInv
<1>1. TypeOK
  BY DEF Init, TypeOK, NoRoute, None, Never, Modes
<1>2. Held /\ Heard /\ Routed /\ ReachableWhileHeard /\ Pending
  BY DEF Init, Held, Heard, Routed, ReachableWhileHeard, Pending, None, Never
<1>3. AskedUnlessThrottled
  BY DEF Init, AskedUnlessThrottled
<1> QED
  BY <1>1, <1>2, <1>3 DEF BridgeInv

\* A frame of k over l: what is heard, and that nothing else of the tables changes.
FrameFacts(k, l) ==
    /\ UNCHANGED <<clock, link, ended>> /\ ended = "no" /\ asking = None
    /\ link[l] \in {"open", "closing"} /\ l # None
    /\ route' \in [Keys -> {NoRoute} \cup [link : Links, seen : 0..MaxTime]]
    /\ route'[k] = [link |-> l, seen |-> clock] /\ route'[k] # NoRoute
    /\ seen' \in [Keys -> 0..MaxTime \cup {Never}] /\ seen'[k] = clock
    /\ src' \in [Keys -> Links \cup {None}] /\ src'[k] = l
    /\ lastConflict' \in [Keys -> 0..MaxTime \cup {Never}]
    /\ asking' \in {k, None} /\ asking' \in Autopilots \cup {None}
    /\ asked' \in [Keys -> SUBSET Links] /\ throttled' \in [Keys -> BOOLEAN]
    /\ \A j \in Keys \ {k} : /\ route'[j] = route[j] /\ seen'[j] = seen[j] /\ src'[j] = src[j]
                             /\ asked'[j] = asked[j] /\ throttled'[j] = throttled[j]

\* A frame's types, whatever the fold makes of it.
LEMMA FrameTypes ==
    ASSUME BridgeInv, NEW k \in Keys, NEW l \in Links, NEW h \in BOOLEAN,
           Received(k, l), Triggers(k, l, h)
    PROVE  FrameFacts(k, l)
<1>0. TypeOK
  BY DEF BridgeInv
<1>1. /\ UNCHANGED <<clock, link, ended>> /\ ended = "no" /\ asking = None
      /\ link[l] \in {"open", "closing"} /\ l # None
  BY DEF Received, Idle
<1>2. /\ route' \in [Keys -> {NoRoute} \cup [link : Links, seen : 0..MaxTime]]
      /\ route'[k] = [link |-> l, seen |-> clock]
      /\ seen' \in [Keys -> 0..MaxTime \cup {Never}] /\ seen'[k] = clock
      /\ \A j \in Keys \ {k} : route'[j] = route[j] /\ seen'[j] = seen[j]
  BY <1>0 DEF TypeOK, Received, Upserted
<1>3. route'[k] # NoRoute
  BY <1>1, <1>2 DEF NoRoute
<1>4. src' \in [Keys -> Links \cup {None}] /\ src'[k] = l /\ \A j \in Keys \ {k} : src'[j] = src[j]
  BY <1>0 DEF TypeOK, Triggers
<1>5. lastConflict' \in [Keys -> 0..MaxTime \cup {Never}]
  BY <1>0 DEF TypeOK, Triggers
<1>6. asking' \in {k, None} /\ asking' \in Autopilots \cup {None}
  BY DEF Triggers
<1>7. asked' \in [Keys -> SUBSET Links] /\ \A j \in Keys \ {k} : asked'[j] = asked[j]
  BY <1>0 DEF TypeOK, Triggers
<1>8. throttled' \in [Keys -> BOOLEAN] /\ \A j \in Keys \ {k} : throttled'[j] = throttled[j]
  BY <1>0 DEF TypeOK, Triggers
<1> QED
  BY <1>1, <1>2, <1>3, <1>4, <1>5, <1>6, <1>7, <1>8 DEF FrameFacts

\* What a frame does to the tables of links and routes.
LEMMA FrameRoutes ==
    ASSUME BridgeInv, NEW k \in Keys, NEW l \in Links, NEW h \in BOOLEAN,
           Received(k, l), Triggers(k, l, h)
    PROVE  Heard' /\ Routed' /\ ReachableWhileHeard' /\ Pending'
<1>0. TypeOK /\ Heard /\ Routed /\ ReachableWhileHeard
  BY DEF BridgeInv
<1>f. FrameFacts(k, l)
  BY FrameTypes
<1>1. Heard'
  BY <1>0, <1>f DEF FrameFacts, Heard, TypeOK, Never
<1>2. Routed'
  BY <1>0, <1>f DEF FrameFacts, Routed
<1>3. ReachableWhileHeard'
  BY <1>0, <1>f DEF FrameFacts, ReachableWhileHeard
<1>4. Pending'
  BY <1>0, <1>f DEF FrameFacts, Pending, TypeOK, Never
<1> QED
  BY <1>1, <1>2, <1>3, <1>4

\* A frame moves a vehicle that is shown as alive to another link only by asking
\* for its rates there, or by noting that the interval forbade it.
LEMMA FrameAsked ==
    ASSUME BridgeInv, NEW k \in Keys, NEW l \in Links, NEW h \in BOOLEAN,
           Received(k, l), Triggers(k, l, h),
           \A j \in Keys \ {k} : known'[j] = known[j] /\ lost'[j] = lost[j],
           known'[k] /\ ~lost'[k] /\ k \in Autopilots /\ asking' # k =>
               known[k] /\ ~lost[k] /\ ~Expired(k)
    PROVE  AskedUnlessThrottled'
<1>0. TypeOK /\ Held /\ Heard /\ AskedUnlessThrottled
  BY DEF BridgeInv
<1>f. FrameFacts(k, l)
  BY FrameTypes
<1>1. ended' \in {"no", "write failed"}
  BY <1>0, <1>f DEF FrameFacts, AskedUnlessThrottled
<1>2. ASSUME NEW j \in Autopilots, known'[j] /\ ~lost'[j] /\ asking' # j /\ link'[src'[j]] = "open"
      PROVE  src'[j] \in asked'[j] \/ throttled'[j]
  <2>1. CASE j # k
    BY <1>0, <1>f, <1>2, <2>1 DEF FrameFacts, AskedUnlessThrottled
  <2>2. CASE j = k
    <3>1. known[k] /\ ~lost[k] /\ ~Expired(k) /\ src[k] # None
      BY <1>0, <1>2, <2>2 DEF Held, Heard
    <3>2. CASE src[k] = l
      <4>1. asked' = asked
        BY <3>1 DEF Triggers
      <4>2. throttled' = throttled
        BY <3>2 DEF Triggers, Conflict
      <4> QED
        BY <1>0, <1>f, <1>2, <2>2, <3>1, <3>2, <4>1, <4>2 DEF FrameFacts, AskedUnlessThrottled
    <3>3. CASE src[k] # l
      <4>1. Conflict(k, l) /\ k \in Autopilots
        BY <2>2, <3>1, <3>3 DEF Conflict
      <4>2. ~Allowed(k)
        BY <1>2, <2>2, <4>1 DEF Triggers
      <4>3. throttled' = [throttled EXCEPT ![k] = TRUE]
        BY <4>1, <4>2 DEF Triggers
      <4> QED
        BY <1>0, <2>2, <4>3 DEF TypeOK
    <3> QED
      BY <3>2, <3>3
  <2> QED
    BY <2>1, <2>2
<1> QED
  BY <1>1, <1>2 DEF AskedUnlessThrottled

LEMMA HeartbeatInv ==
    ASSUME BridgeInv, NEW k \in Keys, NEW l \in Links, NEW m \in Modes, Heartbeat(k, l, m)
    PROVE  BridgeInv'
<1>0. TypeOK /\ Held /\ Heard
  BY DEF BridgeInv
<1>1. Received(k, l) /\ Triggers(k, l, TRUE)
  BY DEF Heartbeat
<1>2. FrameFacts(k, l)
  BY <1>1, FrameTypes
<1>3. /\ known' \in [Keys -> BOOLEAN] /\ known'[k] = TRUE
      /\ \A j \in Keys \ {k} : known'[j] = known[j]
  BY <1>0 DEF Heartbeat, TypeOK
<1>4. lost' = [lost EXCEPT ![k] = FALSE]
  <2>1. lost[k] \in BOOLEAN /\ (lost[k] => known[k])
    BY <1>0 DEF TypeOK, Held
  <2>2. (Silent(k) /\ ~Recovers(k)) = FALSE
    BY <2>1 DEF Silent, Recovers, Expired
  <2> QED
    BY <2>2 DEF Heartbeat
<1>5. lost' \in [Keys -> BOOLEAN] /\ ~lost'[k] /\ \A j \in Keys \ {k} : lost'[j] = lost[j]
  BY <1>0, <1>4 DEF TypeOK
<1>6. /\ FleetAfterHeartbeat(k, m) \in {"DISCOVERED", "RECOVERED", "UPDATED", fleet[k]}
      /\ FleetAfterHeartbeat(k, m) = fleet[k] => (known[k] /\ ~Recovers(k)) \/ fleet[k] \in {"DISCOVERED", "RECOVERED", "UPDATED"}
  BY DEF FleetAfterHeartbeat
<1>7. FleetAfterHeartbeat(k, m) \notin {None, "LOST"}
  <2>1. known[k] /\ ~Recovers(k) => fleet[k] # None /\ fleet[k] # "LOST"
    BY <1>0 DEF Held, Recovers, Silent
  <2> QED
    BY <1>6, <2>1 DEF None
<1>8. /\ fleet' \in [Keys -> {None, "DISCOVERED", "LOST", "RECOVERED", "UPDATED"}]
      /\ fleet'[k] \notin {None, "LOST"} /\ \A j \in Keys \ {k} : fleet'[j] = fleet[j]
  BY <1>0, <1>6, <1>7 DEF Heartbeat, TypeOK
<1>9. mode' \in [Keys -> Modes]
  BY <1>0 DEF Heartbeat, TypeOK
<1>10. TypeOK'
  BY <1>0, <1>2, <1>3, <1>5, <1>8, <1>9 DEF FrameFacts, TypeOK
<1>11. Held'
  BY <1>0, <1>2, <1>3, <1>5, <1>8 DEF Held, FrameFacts, TypeOK, Never
<1>12. k \in Autopilots /\ asking' # k => known[k] /\ ~lost[k] /\ ~Expired(k)
  <2>1. k \in Autopilots /\ OnFleet(k) => asking' = k
    BY <1>1 DEF Triggers
  <2> QED
    BY <2>1 DEF OnFleet, Recovers, Silent
<1>13. AskedUnlessThrottled'
  BY <1>1, <1>3, <1>5, <1>12, FrameAsked
<1>14. Heard' /\ Routed' /\ ReachableWhileHeard' /\ Pending'
  BY <1>1, FrameRoutes
<1> QED
  BY <1>10, <1>11, <1>13, <1>14 DEF BridgeInv

LEMMA TelemetryInv ==
    ASSUME BridgeInv, NEW k \in Keys, NEW l \in Links, Telemetry(k, l)
    PROVE  BridgeInv'
<1>0. TypeOK /\ Held /\ Heard
  BY DEF BridgeInv
<1>1. Received(k, l) /\ Triggers(k, l, FALSE) /\ known' = known /\ mode' = mode
  BY DEF Telemetry
<1>2. FrameFacts(k, l)
  BY <1>1, FrameTypes
<1>3. Silent(k) \in BOOLEAN
  <2>1. lost[k] \in BOOLEAN
    BY <1>0 DEF TypeOK
  <2> QED
    BY <2>1 DEF Silent, Expired
<1>4. /\ lost' \in [Keys -> BOOLEAN] /\ \A j \in Keys \ {k} : lost'[j] = lost[j]
      /\ lost'[k] <=> Silent(k)
  BY <1>0, <1>3 DEF Telemetry, TypeOK
<1>5. /\ fleet' \in [Keys -> {None, "DISCOVERED", "LOST", "RECOVERED", "UPDATED"}]
      /\ \A j \in Keys \ {k} : fleet'[j] = fleet[j]
      /\ fleet'[k] = IF Expired(k) /\ ~lost[k] THEN "LOST" ELSE fleet[k]
  BY <1>0 DEF Telemetry, TypeOK
<1>6. TypeOK'
  BY <1>0, <1>1, <1>2, <1>4, <1>5 DEF FrameFacts, TypeOK
<1>7. Held'
  <2>1. ASSUME NEW j \in Keys \ {k}
        PROVE  /\ lost'[j] => known'[j]
               /\ known'[j] => seen'[j] # Never
               /\ known'[j] <=> fleet'[j] # None
               /\ lost'[j] <=> fleet'[j] = "LOST"
    BY <1>0, <1>1, <1>2, <1>4, <1>5 DEF Held, FrameFacts
  <2>2. /\ lost'[k] => known'[k]
        /\ known'[k] <=> fleet'[k] # None
        /\ lost'[k] <=> fleet'[k] = "LOST"
    BY <1>0, <1>1, <1>4, <1>5 DEF Held, Silent, Expired, None
  <2>3. seen'[k] # Never
    BY <1>0, <1>2 DEF FrameFacts, TypeOK, Never
  <2> QED
    BY <2>1, <2>2, <2>3 DEF Held
<1>8. known'[k] /\ ~lost'[k] => known[k] /\ ~lost[k] /\ ~Expired(k)
  BY <1>1, <1>4 DEF Silent
<1>9. AskedUnlessThrottled'
  BY <1>1, <1>4, <1>8, FrameAsked
<1>10. Heard' /\ Routed' /\ ReachableWhileHeard' /\ Pending'
  BY <1>1, FrameRoutes
<1> QED
  BY <1>6, <1>7, <1>9, <1>10 DEF BridgeInv

-----------------------------------------------------------------------------

\* Routes only go away, each of them stale or over a link that is gone.
LEMMA WithoutRoutes ==
    ASSUME TypeOK, NEW ks \in SUBSET Keys
    PROVE  /\ Without(ks) \in [Keys -> {NoRoute} \cup [link : Links, seen : 0..MaxTime]]
           /\ \A k \in Keys : /\ Without(ks)[k] # NoRoute => k \notin ks /\ Without(ks)[k] = route[k]
                              /\ k \notin ks => Without(ks)[k] = route[k]
  BY DEF TypeOK, Without

LEMMA Times ==
    ASSUME TypeOK
    PROVE  clock \in 0..MaxTime /\ clock \in Nat /\ \A k \in Keys : seen[k] \in Int
<1>1. clock \in 0..MaxTime /\ \A k \in Keys : seen[k] \in 0..MaxTime \cup {Never}
  BY DEF TypeOK
<1>2. clock \in Nat /\ Never \in Int
  BY <1>1 DEF Never
<1> QED
  BY <1>1, <1>2

\* What a removal of stale routes keeps.
LEMMA EvictedRoutes ==
    ASSUME BridgeInv, NEW ks \in SUBSET Keys, \A k \in ks : Stale(k, clock),
           route' = Without(ks), UNCHANGED <<clock, link, seen, src, asking, ended>>
    PROVE  /\ route' \in [Keys -> {NoRoute} \cup [link : Links, seen : 0..MaxTime]]
           /\ Heard' /\ Routed' /\ ReachableWhileHeard' /\ Pending'
<1>0. TypeOK /\ Heard /\ Routed /\ ReachableWhileHeard /\ Pending
  BY DEF BridgeInv
<1>1. /\ route' \in [Keys -> {NoRoute} \cup [link : Links, seen : 0..MaxTime]]
      /\ \A k \in Keys : /\ route'[k] # NoRoute => k \notin ks /\ route'[k] = route[k]
                         /\ k \notin ks => route'[k] = route[k]
  BY <1>0, WithoutRoutes
<1>2. \A k \in ks : clock - seen[k] > TTL
  BY <1>0 DEF Routed, Stale
<1>3. Heard'
  BY <1>0 DEF Heard
<1>4. Routed'
  BY <1>0, <1>1 DEF Routed
<1>5. ReachableWhileHeard'
  <2>1. \A k \in Keys : clock - seen[k] <= TTL => k \notin ks
    BY <1>0, <1>2, Times
  <2> QED
    BY <1>0, <1>1, <2>1 DEF ReachableWhileHeard
<1>6. Pending'
  <2>1. asking # None => asking \in Keys /\ asking \notin ks
    BY <1>0, <1>2 DEF TypeOK, Pending, Never
  <2> QED
    BY <1>0, <1>1, <2>1 DEF Pending
<1> QED
  BY <1>1, <1>3, <1>4, <1>5, <1>6

LEMMA SweepInv ==
    ASSUME BridgeInv, Sweep
    PROVE  BridgeInv'
<1>0. TypeOK /\ Held /\ AskedUnlessThrottled
  BY DEF BridgeInv
<1> DEFINE ks == {k \in Keys : Stale(k, clock)}
<1>1. /\ route' \in [Keys -> {NoRoute} \cup [link : Links, seen : 0..MaxTime]]
      /\ Heard' /\ Routed' /\ ReachableWhileHeard' /\ Pending'
  <2>1. /\ ks \in SUBSET Keys /\ \A k \in ks : Stale(k, clock)
        /\ route' = Without(ks) /\ UNCHANGED <<clock, link, seen, src, asking, ended>>
    BY DEF Sweep
  <2> QED
    BY <2>1, EvictedRoutes
<1>2. \A k \in Keys : lost[k] \in BOOLEAN /\ Expire(k) \in BOOLEAN
  BY <1>0 DEF TypeOK, Expire, Expired
<1>3. lost' \in [Keys -> BOOLEAN] /\ \A k \in Keys : lost'[k] <=> lost[k] \/ Expire(k)
  BY <1>0, <1>2 DEF Sweep
<1>4. /\ fleet' \in [Keys -> {None, "DISCOVERED", "LOST", "RECOVERED", "UPDATED"}]
      /\ \A k \in Keys : fleet'[k] = IF Expire(k) THEN "LOST" ELSE fleet[k]
  BY <1>0 DEF Sweep, TypeOK
<1>5. /\ asked' \in [Keys -> SUBSET Links]
      /\ \A k \in Keys : ~Expire(k) => asked'[k] = asked[k]
  BY <1>0 DEF Sweep, TypeOK
<1>6. UNCHANGED <<clock, link, known, mode, seen, src, lastConflict, asking, throttled, ended>>
  BY DEF Sweep
<1>7. TypeOK'
  BY <1>0, <1>1, <1>3, <1>4, <1>5, <1>6 DEF TypeOK
<1>8. Held'
  BY <1>0, <1>3, <1>4, <1>6 DEF Held, Expire, Expired, None
<1>9. AskedUnlessThrottled'
  BY <1>0, <1>3, <1>5, <1>6 DEF AskedUnlessThrottled
<1> QED
  BY <1>1, <1>7, <1>8, <1>9 DEF BridgeInv

LEMMA LookupInv ==
    ASSUME BridgeInv, NEW k \in Keys, Lookup(k)
    PROVE  BridgeInv'
<1>0. TypeOK /\ Held /\ AskedUnlessThrottled
  BY DEF BridgeInv
<1>1. /\ Stale(k, clock) /\ route' = Without({k})
      /\ UNCHANGED <<clock, link, known, lost, mode, seen, src, fleet>>
      /\ UNCHANGED <<lastConflict, asking, asked, throttled, ended>>
  BY DEF Lookup, state, rates
<1>2. /\ route' \in [Keys -> {NoRoute} \cup [link : Links, seen : 0..MaxTime]]
      /\ Heard' /\ Routed' /\ ReachableWhileHeard' /\ Pending'
  <2>1. {k} \in SUBSET Keys /\ \A j \in {k} : Stale(j, clock)
    BY <1>1
  <2> QED
    BY <1>1, <2>1, EvictedRoutes
<1>3. TypeOK' /\ Held' /\ AskedUnlessThrottled'
  BY <1>0, <1>1, <1>2 DEF TypeOK, Held, AskedUnlessThrottled
<1> QED
  BY <1>2, <1>3 DEF BridgeInv

\* The requester's vehicle has a fresh route, over the link it was last heard on.
LEMMA AskedRoute ==
    ASSUME BridgeInv, asking # None
    PROVE  /\ asking \in Keys /\ src[asking] # None /\ src[asking] \in Links
           /\ route[asking].link = src[asking] /\ ~Stale(asking, clock) /\ ended = "no"
<1>0. TypeOK /\ Heard /\ Routed /\ Pending
  BY DEF BridgeInv
<1>1. asking \in Keys
  BY <1>0 DEF TypeOK
<1>2. /\ ended = "no" /\ route[asking] # NoRoute /\ clock - seen[asking] <= TTL
  BY <1>0 DEF Pending
<1>3. /\ src[asking] # None /\ route[asking].link = src[asking] /\ route[asking].seen = seen[asking]
  BY <1>0, <1>1, <1>2 DEF Routed
<1>4. src[asking] \in Links
  BY <1>0, <1>1, <1>3 DEF TypeOK
<1>5. clock \in Int /\ seen[asking] \in Int
  BY <1>0, <1>1, Times
<1> QED
  BY <1>1, <1>2, <1>3, <1>4, <1>5 DEF Stale

LEMMA AskRatesInv ==
    ASSUME BridgeInv, AskRates
    PROVE  BridgeInv'
<1>0. TypeOK /\ Held /\ Heard /\ Routed /\ ReachableWhileHeard /\ AskedUnlessThrottled
  BY DEF BridgeInv
<1>1. /\ asking # None /\ asking' = None
      /\ UNCHANGED <<clock, link, route, known, lost, mode, seen, src, fleet, lastConflict>>
  BY DEF AskRates, state
<1> DEFINE k == asking
           l == src[k]
<1>2. /\ k \in Keys /\ l # None /\ l \in Links
      /\ route[k].link = l /\ ~Stale(k, clock) /\ ended = "no"
  BY <1>1, AskedRoute
<1>3. /\ ended' = "no"
      /\ \/ link[l] # "open" /\ UNCHANGED <<asked, throttled>>
         \/ /\ asked' = [asked EXCEPT ![k] = @ \cup {l}]
            /\ throttled' = [throttled EXCEPT ![k] = FALSE]
  BY <1>2 DEF AskRates, OnUnknownLink
<1>4. /\ asked' \in [Keys -> SUBSET Links] /\ throttled' \in [Keys -> BOOLEAN]
      /\ \A j \in Keys \ {k} : asked'[j] = asked[j] /\ throttled'[j] = throttled[j]
      /\ link[l] = "open" => l \in asked'[k]
  <2>1. asked \in [Keys -> SUBSET Links] /\ throttled \in [Keys -> BOOLEAN]
    BY <1>0 DEF TypeOK
  <2>2. CASE link[l] # "open" /\ UNCHANGED <<asked, throttled>>
    BY <2>1, <2>2
  <2>3. CASE /\ asked' = [asked EXCEPT ![k] = @ \cup {l}]
             /\ throttled' = [throttled EXCEPT ![k] = FALSE]
    <3>1. asked[k] \cup {l} \in SUBSET Links
      BY <1>2, <2>1
    <3> QED
      BY <1>2, <2>1, <2>3, <3>1
  <2> QED
    BY <1>3, <2>2, <2>3
<1>5. TypeOK'
  BY <1>0, <1>1, <1>3, <1>4 DEF TypeOK
<1>6. Held' /\ Heard' /\ Routed' /\ ReachableWhileHeard' /\ Pending'
  BY <1>0, <1>1 DEF Held, Heard, Routed, ReachableWhileHeard, Pending
<1>7. AskedUnlessThrottled'
  BY <1>0, <1>1, <1>2, <1>3, <1>4 DEF AskedUnlessThrottled
<1> QED
  BY <1>5, <1>6, <1>7 DEF BridgeInv

LEMMA AskFailsInv ==
    ASSUME BridgeInv, AskFails
    PROVE  BridgeInv'
<1>0. TypeOK /\ Held /\ Heard /\ Routed /\ ReachableWhileHeard
  BY DEF BridgeInv
<1>1. /\ asking' = None /\ ended' = "write failed"
      /\ UNCHANGED <<clock, link, route, known, lost, mode, seen, src, fleet>>
      /\ UNCHANGED <<lastConflict, asked, throttled>>
  BY DEF AskFails, state
<1>2. TypeOK' /\ Held'
  BY <1>0, <1>1 DEF TypeOK, Held
<1>3. Heard' /\ Routed' /\ ReachableWhileHeard' /\ Pending' /\ AskedUnlessThrottled'
  BY <1>0, <1>1 DEF Heard, Routed, ReachableWhileHeard, Pending, AskedUnlessThrottled
<1> QED
  BY <1>2, <1>3 DEF BridgeInv

LEMMA TickInv ==
    ASSUME BridgeInv, Tick
    PROVE  BridgeInv'
<1>0. TypeOK /\ Held /\ Heard /\ Routed /\ ReachableWhileHeard /\ Pending /\ AskedUnlessThrottled
  BY DEF BridgeInv
<1>1. /\ clock < MaxTime /\ clock' = clock + 1
      /\ asking # None => clock < seen[asking] + TTL
      /\ UNCHANGED <<link, route, known, lost, mode, seen, src, fleet>>
      /\ UNCHANGED <<lastConflict, asking, asked, throttled, ended>>
  BY DEF Tick, state, rates
<1>2. clock \in 0..MaxTime /\ clock \in Nat /\ \A k \in Keys : seen[k] \in Int
  BY <1>0, Times
<1>3. TypeOK'
  <2>1. clock' \in 0..MaxTime
    BY <1>1, <1>2
  <2> QED
    BY <1>0, <1>1, <2>1 DEF TypeOK
<1>4. Held' /\ Routed' /\ AskedUnlessThrottled'
  BY <1>0, <1>1 DEF Held, Routed, AskedUnlessThrottled
<1>5. Heard' /\ ReachableWhileHeard'
  BY <1>0, <1>1, <1>2 DEF Heard, ReachableWhileHeard
<1>6. Pending'
  <2>1. asking # None => seen[asking] \in Int
    BY <1>0, <1>2 DEF TypeOK
  <2> QED
    BY <1>0, <1>1, <1>2, <2>1 DEF Pending
<1> QED
  BY <1>3, <1>4, <1>5, <1>6 DEF BridgeInv

\* A link is opened once, and never writable again once it closes.
LEMMA LinkInv ==
    ASSUME BridgeInv, NEW l \in Links, OpenLink(l) \/ CloseLink(l)
    PROVE  BridgeInv'
<1>0. TypeOK /\ Held /\ Heard /\ Routed /\ ReachableWhileHeard /\ Pending /\ AskedUnlessThrottled
  BY DEF BridgeInv
<1>1. /\ UNCHANGED <<clock, route, known, lost, mode, seen, src, fleet>>
      /\ UNCHANGED <<lastConflict, asking, asked, throttled, ended>>
  BY DEF OpenLink, CloseLink, state, rates
<1>2. /\ link' \in [Links -> {"new", "open", "closing", "gone"}]
      /\ \A j \in Links : /\ link'[j] = "gone" <=> link[j] = "gone"
                          /\ link'[j] = "new" => link[j] = "new"
                          /\ link'[j] = "open" => link[j] \in {"new", "open"}
  BY <1>0 DEF OpenLink, CloseLink, TypeOK
<1>3. \A k \in Keys : src[k] \in Links \cup {None}
  BY <1>0 DEF TypeOK
<1>4. TypeOK' /\ Held' /\ Pending'
  BY <1>0, <1>1, <1>2 DEF TypeOK, Held, Pending
<1>5. Heard' /\ Routed'
  BY <1>0, <1>1, <1>2, <1>3 DEF Heard, Routed
<1>6. ReachableWhileHeard'
  BY <1>0, <1>1, <1>2, <1>3 DEF Heard, ReachableWhileHeard
<1>7. AskedUnlessThrottled'
  BY <1>0, <1>1, <1>2, <1>3 DEF Held, Heard, AskedUnlessThrottled
<1> QED
  BY <1>4, <1>5, <1>6, <1>7 DEF BridgeInv

LEMMA ChannelCloseInv ==
    ASSUME BridgeInv, NEW l \in Links, ChannelClose(l)
    PROVE  BridgeInv'
<1>0. TypeOK /\ Held /\ Heard /\ Routed /\ ReachableWhileHeard /\ AskedUnlessThrottled
  BY DEF BridgeInv
<1>1. /\ asking = None /\ route' = ForgetLink(l)
      /\ UNCHANGED <<clock, known, lost, mode, seen, src, fleet>>
      /\ UNCHANGED <<lastConflict, asking, asked, throttled, ended>>
  BY DEF ChannelClose, Idle, state, rates
<1>2. /\ link' \in [Links -> {"new", "open", "closing", "gone"}] /\ link'[l] = "gone"
      /\ \A j \in Links \ {l} : link'[j] = link[j]
  BY <1>0 DEF ChannelClose, TypeOK
<1> DEFINE ks == {k \in Keys : route[k].link = l}
<1>3. /\ route' \in [Keys -> {NoRoute} \cup [link : Links, seen : 0..MaxTime]]
      /\ \A k \in Keys : /\ route'[k] # NoRoute => k \notin ks /\ route'[k] = route[k]
                         /\ k \notin ks => route'[k] = route[k]
  <2>1. ks \in SUBSET Keys /\ route' = Without(ks)
    BY <1>1 DEF ForgetLink
  <2> QED
    BY <1>0, <2>1, WithoutRoutes
<1>4. \A k \in Keys : src[k] \in Links \cup {None}
  BY <1>0 DEF TypeOK
<1>5. TypeOK' /\ Held' /\ Pending'
  BY <1>0, <1>1, <1>2, <1>3 DEF TypeOK, Held, Pending
<1>6. Heard'
  BY <1>0, <1>1, <1>2, <1>4 DEF Heard
<1>7. Routed'
  BY <1>0, <1>1, <1>2, <1>3, <1>4 DEF Routed
<1>8. ReachableWhileHeard'
  <2>1. ASSUME NEW k \in Keys, seen[k] # Never, clock - seen[k] <= TTL, link'[src[k]] # "gone"
        PROVE  route'[k].link = src[k]
    <3>1. src[k] \in Links /\ src[k] # l
      BY <1>0, <1>2, <1>4, <2>1 DEF Heard
    <3>2. route[k].link = src[k]
      BY <1>0, <1>2, <2>1, <3>1 DEF ReachableWhileHeard
    <3> QED
      BY <1>3, <3>1, <3>2
  <2> QED
    BY <1>1, <2>1 DEF ReachableWhileHeard
<1>9. AskedUnlessThrottled'
  <2>1. \A k \in Keys : known[k] /\ link'[src[k]] = "open" => link[src[k]] = "open"
    BY <1>0, <1>2, <1>4 DEF Held, Heard
  <2> QED
    BY <1>0, <1>1, <2>1 DEF AskedUnlessThrottled
<1> QED
  BY <1>5, <1>6, <1>7, <1>8, <1>9 DEF BridgeInv

-----------------------------------------------------------------------------
(* The theorems. *)

LEMMA StepInv ==
    BridgeInv /\ [Next]_vars => BridgeInv'
<1> SUFFICES ASSUME BridgeInv, [Next]_vars
             PROVE  BridgeInv'
  OBVIOUS
<1>1. CASE \E k \in Keys, l \in Links : Telemetry(k, l) \/ \E m \in Modes : Heartbeat(k, l, m)
  BY <1>1, TelemetryInv, HeartbeatInv
<1>2. CASE AskRates
  BY <1>2, AskRatesInv
<1>3. CASE AskFails
  BY <1>3, AskFailsInv
<1>4. CASE Sweep
  BY <1>4, SweepInv
<1>5. CASE Tick
  BY <1>5, TickInv
<1>6. CASE \E k \in Keys : Lookup(k)
  BY <1>6, LookupInv
<1>7. CASE \E l \in Links : OpenLink(l) \/ CloseLink(l) \/ ChannelClose(l)
  BY <1>7, LinkInv, ChannelCloseInv
<1>8. CASE UNCHANGED vars
  BY <1>8 DEF vars, state, rates, BridgeInv, TypeOK, Held, Heard, Routed, ReachableWhileHeard,
              Pending, AskedUnlessThrottled
<1> QED
  BY <1>1, <1>2, <1>3, <1>4, <1>5, <1>6, <1>7, <1>8 DEF Next

LEMMA BridgeInvariance ==
    Spec => []BridgeInv
  BY InitInv, StepInv, PTL DEF Spec

\* Whatever frames arrive over whatever links, what browsers are told of a vehicle is
\* what the fold of internal/vehicle holds of it.
THEOREM ShownAsHeldAlways ==
    Spec => []ShownAsHeld
<1>1. BridgeInv => ShownAsHeld
  BY DEF BridgeInv, ShownAsHeld, Held
<1> QED
  BY <1>1, BridgeInvariance, PTL

\* The route table never leads to a link that the bridge saw close, and holds the link
\* of every vehicle heard within the TTL, although a sweep, a lookup and the close of a
\* channel each remove routes.
THEOREM RoutesFollowLinksAlways ==
    Spec => []RoutesFollowLinks
<1>1. BridgeInv => RoutesFollowLinks
  BY DEF BridgeInv, RoutesFollowLinks, NoDeadRoute, Routed
<1> QED
  BY <1>1, BridgeInvariance, PTL

\* The requester addresses every vehicle that is shown as alive on the link it is heard
\* on, and neither a closing link nor a missing route ends the bridge under it.
THEOREM AskedUnlessThrottledAlways ==
    Spec => []AskedUnlessThrottled
<1>1. BridgeInv => AskedUnlessThrottled
  BY DEF BridgeInv
<1> QED
  BY <1>1, BridgeInvariance, PTL
=============================================================================
