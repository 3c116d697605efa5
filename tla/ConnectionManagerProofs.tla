---------------------- MODULE ConnectionManagerProofs ----------------------
(***************************************************************************)
(* Proofs about ConnectionManager, for every set of profiles, devices and  *)
(* vehicles and every bound.                                               *)
(***************************************************************************)
EXTENDS ConnectionManager, TLAPS

\* A port is open exactly while its session is its connection's; the sessions past
\* generation have not been used.
SessionsOwn ==
    /\ \A g \in Gens :
        /\ generation < g => /\ port[g] = "unused" /\ channel[g] = "none" /\ pump[g] = "off"
                             /\ g \notin routes \cup retired
        /\ port[g] = "open" => owner[g] \in Conns /\ session[owner[g]] = g
        /\ pump[g] # "off" => owner[g] \in Conns
    /\ \A c \in Conns : session[c] # None => owner[session[c]] = c /\ port[session[c]] = "open"

\* The holder of ops has taken the session of the connection it works on.
OpsOwn ==
    /\ op.kind \in {"connect", "disconnect"} => op.conn \in Conns /\ session[op.conn] = None
    /\ op.kind \in {"sweep", "close"} /\ op.pc = "join" => op.conn \in Conns /\ session[op.conn] = None

\* WriteTo reaches open ports; a connection that was released or lost is empty.
Reached == \A g \in links : session[owner[g]] = g /\ port[g] = "open"
Emptied ==
    \A c \in Conns : state[c] \in {"RELEASED", "DEVICE_LOST"} => session[c] = None /\ keys[c] = {}

\* What the pump holds is of an open channel, and so is what the bridge routes; a
\* retired channel is gone or its pump has returned.
Told ==
    \A g \in Gens :
        /\ hand[g] # "empty" => channel[g] = "open"
        /\ g \in routes => channel[g] = "open" /\ (pump[g] = "off" => closing)
        /\ g \in retired => channel[g] = "gone" \/ pump[g] = "off"
        /\ g \in routes => g \notin retired

\* In the first process every acquisition, running or done, has been recorded.
Recorded ==
    epoch = 1 =>
        /\ startup = {}
        /\ op.kind = "connect" /\ Saved(op.conn) => intent[op.conn] = "CONNECTED"
        /\ \A g \in Gens : port[g] = "open" /\ Saved(owner[g]) => intent[owner[g]] = "CONNECTED"

\* A vehicle is shown under the connection that heard it last.
Attributed == \A c \in Conns : \A v \in keys[c] : sightings[v].owner = c

ManagerInv == OneOwner /\ SessionsOwn /\ OpsOwn /\ Reached /\ Emptied /\ Told /\ Recorded

LEMMA NoneIsNoGen == None \notin Gens
  BY DEF None, Gens

Sighting == [owner : Conns \cup {None}, link : Gens \cup {None}, old : BOOLEAN]

\* Forgetting some vehicles takes each from the connection that shows it.
LEMMA ForgetFacts ==
    ASSUME TypeOK, NEW vs
    PROVE  /\ SightingsWithout(vs) \in [Vehicles -> Sighting]
           /\ KeysWithout(vs) \in [Conns -> SUBSET Vehicles]
           /\ \A c \in Conns : KeysWithout(vs)[c] \subseteq keys[c]
           /\ OneOwner => \A c \in Conns : \A v \in KeysWithout(vs)[c] : SightingsWithout(vs)[v].owner = c
<1>1. Unseen \in Sighting
  BY DEF Unseen, Sighting
<1>2. sightings \in [Vehicles -> Sighting] /\ keys \in [Conns -> SUBSET Vehicles]
  BY DEF TypeOK, Sighting
<1>3. SightingsWithout(vs) \in [Vehicles -> Sighting]
  BY <1>1, <1>2 DEF SightingsWithout
<1>4. \A c \in Conns : KeysWithout(vs)[c] = keys[c] \ {v \in vs : sightings[v].owner = c}
  BY DEF KeysWithout
<1>5. KeysWithout(vs) \in [Conns -> SUBSET Vehicles]
  BY <1>2 DEF KeysWithout
<1>6. ASSUME OneOwner, NEW c \in Conns, NEW v \in KeysWithout(vs)[c]
      PROVE  SightingsWithout(vs)[v].owner = c
  <2>1. v \in Vehicles /\ v \in keys[c] /\ sightings[v].owner = c /\ v \notin vs
    BY <1>2, <1>4, <1>6 DEF OneOwner
  <2> QED
    BY <2>1 DEF SightingsWithout
<1> QED
  BY <1>3, <1>4, <1>5, <1>6

\* stopSession, whether or not the connection has a session.
LEMMA StopFacts ==
    ASSUME TypeOK, NEW c \in Conns, StopSession(c)
    PROVE  /\ session' \in [Conns -> Gens \cup {None}] /\ session'[c] = None
           /\ \A d \in Conns \ {c} : session'[d] = session[d]
           /\ links' = links \ {session[c]}
           /\ port' \in [Gens -> {"unused", "open", "closed"}] /\ stop' \in [Gens -> BOOLEAN]
           /\ \A g \in Gens : port'[g] = IF g = session[c] THEN "closed" ELSE port[g]
           /\ \E vs : sightings' = SightingsWithout(vs) /\ keys' = KeysWithout(vs)
<1>0. /\ session \in [Conns -> Gens \cup {None}] /\ links \subseteq Gens
      /\ port \in [Gens -> {"unused", "open", "closed"}] /\ stop \in [Gens -> BOOLEAN]
      /\ sightings = [v \in Vehicles |-> sightings[v]] /\ keys = [d \in Conns |-> keys[d]]
  BY DEF TypeOK
<1>1. CASE session[c] = None
  <2>1. SightingsWithout({}) = sightings /\ KeysWithout({}) = keys
    BY <1>0 DEF SightingsWithout, KeysWithout
  <2>2. UNCHANGED <<session, links, sightings, keys, stop, port>>
    BY <1>1 DEF StopSession
  <2>3. sightings' = SightingsWithout({}) /\ keys' = KeysWithout({})
    BY <2>1, <2>2
  <2>4. \E vs : sightings' = SightingsWithout(vs) /\ keys' = KeysWithout(vs)
    BY <2>3
  <2> QED
    BY <1>0, <1>1, <2>2, <2>4, NoneIsNoGen
<1>2. CASE session[c] # None
  <2>1. \E vs : sightings' = SightingsWithout(vs) /\ keys' = KeysWithout(vs)
    BY <1>2 DEF StopSession
  <2>2. /\ session' = [session EXCEPT ![c] = None] /\ links' = links \ {session[c]}
        /\ stop' = [stop EXCEPT ![session[c]] = TRUE] /\ port' = [port EXCEPT ![session[c]] = "closed"]
    BY <1>2 DEF StopSession
  <2>3. session' \in [Conns -> Gens \cup {None}] /\ session'[c] = None
    BY <1>0, <2>2
  <2> QED
    BY <1>0, <2>1, <2>2, <2>3
<1> QED
  BY <1>1, <1>2

\* One frame moves its vehicle to the connection that heard it.
LEMMA FrameFacts ==
    ASSUME OneOwner, NEW c \in Conns, NEW g \in Gens, NEW v \in Vehicles,
           sightings' = [sightings EXCEPT ![v] = [owner |-> c, link |-> g, old |-> FALSE]],
           keys' = KeysAfterFrame(c, v)
    PROVE  /\ sightings' \in [Vehicles -> Sighting] /\ keys' \in [Conns -> SUBSET Vehicles]
           /\ \A d \in Conns \ {c} : keys'[d] \subseteq keys[d]
           /\ \A d \in Conns : \A w \in keys'[d] : sightings'[w].owner = d
<1>1. sightings \in [Vehicles -> Sighting] /\ keys \in [Conns -> SUBSET Vehicles]
  BY DEF OneOwner, TypeOK, Sighting
<1>2. [owner |-> c, link |-> g, old |-> FALSE] \in Sighting
  BY DEF Sighting
<1>3. sightings' \in [Vehicles -> Sighting] /\ sightings'[v].owner = c
      /\ \A w \in Vehicles \ {v} : sightings'[w] = sightings[w]
  BY <1>1, <1>2
<1>4. \A d \in Conns : keys'[d] = IF d = c THEN keys[d] \cup {v}
                                  ELSE IF d = sightings[v].owner THEN keys[d] \ {v} ELSE keys[d]
  BY DEF KeysAfterFrame
<1>5. keys' \in [Conns -> SUBSET Vehicles]
  BY <1>1 DEF KeysAfterFrame
<1>6. ASSUME NEW d \in Conns, NEW w \in keys'[d] PROVE sightings'[w].owner = d
  <2>1. w \in Vehicles
    BY <1>5, <1>6
  <2>2. w \in keys[d] => sightings[w].owner = d
    BY DEF OneOwner
  <2>3. CASE w = v
    BY <1>3, <1>4, <1>6, <2>2, <2>3
  <2>4. CASE w # v
    <3>1. keys'[d] \in {keys[d], keys[d] \cup {v}, keys[d] \ {v}}
      BY <1>4
    <3>2. w \in keys[d]
      BY <1>6, <2>4, <3>1
    <3> QED
      BY <1>3, <2>1, <2>2, <2>4, <3>2
  <2> QED
    BY <2>3, <2>4
<1> QED
  BY <1>3, <1>4, <1>5, <1>6

Ops == [kind : {"none", "connect", "disconnect", "sweep", "close"}, conn : Conns \cup {None},
        pc : {"free", "join", "join-new", "open", "persist", "next"}, todo : SUBSET Conns]

LEMMA InitTypeOK == Init => TypeOK
<1> SUFFICES ASSUME Init PROVE TypeOK
  OBVIOUS
<1>1. Unseen \in Sighting /\ Nobody \in Ops
  BY DEF Unseen, Sighting, Nobody, Ops
<1>2. op \in Ops /\ sightings \in [Vehicles -> Sighting]
  BY <1>1 DEF Init
<1>3. epoch \in 1..MaxEpoch /\ opNo \in 0..MaxOps /\ generation \in 0..MaxGen
  BY ManagerBounds DEF Init
<1>4. listed \subseteq Conns
  BY DEF Init, Conns
<1> QED
  BY <1>2, <1>3, <1>4 DEF Init, TypeOK, Sighting, Ops, Intents, States, Usable

\* An operation that takes ops, and what the holder of ops becomes.
LEMMA OpFacts ==
    ASSUME TypeOK
    PROVE  /\ op \in Ops /\ Nobody \in Ops /\ op.conn \in Conns \cup {None} /\ op.todo \subseteq Conns
           /\ \A k, c, p : Takes(k, c, p) /\ k \in {"connect", "disconnect"} /\ c \in Conns
                             /\ p \in {"join", "join-new"} =>
                 op' \in Ops /\ opNo' \in 0..MaxOps /\ op'.kind = k /\ op'.conn = c /\ op = Nobody
           /\ \A p \in {"open", "persist", "next"} : [op EXCEPT !.pc = p] \in Ops
           /\ \A c \in op.todo : [op EXCEPT !.conn = c, !.pc = "join", !.todo = @ \ {c}] \in Ops
<1>1. op \in Ops /\ opNo \in 0..MaxOps
  BY DEF TypeOK, Ops
<1>2. Nobody \in Ops
  BY DEF Nobody, Ops
<1>3. op.conn \in Conns \cup {None} /\ op.todo \subseteq Conns
  BY <1>1 DEF Ops
<1>4. ASSUME NEW k, NEW c, NEW p, Takes(k, c, p), k \in {"connect", "disconnect"}, c \in Conns,
             p \in {"join", "join-new"}
      PROVE  op' \in Ops /\ opNo' \in 0..MaxOps /\ op'.kind = k /\ op'.conn = c /\ op = Nobody
  BY <1>1, <1>4, ManagerBounds DEF Takes, Ops
<1>5. \A p \in {"open", "persist", "next"} : [op EXCEPT !.pc = p] \in Ops
  BY <1>1 DEF Ops
<1>6. ASSUME NEW c \in op.todo PROVE [op EXCEPT !.conn = c, !.pc = "join", !.todo = @ \ {c}] \in Ops
  BY <1>1, <1>3 DEF Ops
<1> QED
  BY <1>1, <1>2, <1>3, <1>4, <1>5, <1>6

\* The parts of the type invariant, by who writes them.
EntriesOK ==
    /\ listed \subseteq Conns /\ state \in [Conns -> States] /\ keys \in [Conns -> SUBSET Vehicles]
    /\ fresh \subseteq Conns /\ session \in [Conns -> Gens \cup {None}]
AttributionOK == links \subseteq Gens /\ sightings \in [Vehicles -> Sighting]
CallsOK == op \in Ops /\ opNo \in 0..MaxOps /\ startup \subseteq Profiles
SessionsOK ==
    /\ generation \in 0..MaxGen
    /\ owner \in [Gens -> Conns \cup {None}] /\ port \in [Gens -> {"unused", "open", "closed"}]
    /\ channel \in [Gens -> {"none", "open", "gone"}] /\ stop \in [Gens -> BOOLEAN]
    /\ pump \in [Gens -> {"off", "run", "retire", "closing"}]
    /\ hand \in [Gens -> {"empty", "open", "frame", "close"}]
RestOK ==
    /\ epoch \in 1..MaxEpoch /\ intent \in [Profiles -> Intents]
    /\ {called, closing, closed, done} \subseteq BOOLEAN
    /\ routes \subseteq Gens /\ retired \subseteq Gens

LEMMA TypeParts == TypeOK <=> EntriesOK /\ AttributionOK /\ CallsOK /\ SessionsOK /\ RestOK
  BY DEF TypeOK, EntriesOK, AttributionOK, CallsOK, SessionsOK, RestOK, Ops, Sighting

\* An operation that begins by stopping the session of c.
LEMMA StopType ==
    ASSUME TypeOK, NEW c \in Conns, StopSession(c), op' \in Ops, opNo' \in 0..MaxOps,
           startup' \subseteq Profiles, intent' \in [Profiles -> Intents],
           UNCHANGED <<epoch, listed, state, fresh, life, owner, channel, pump, hand, generation, bridge>>
    PROVE  TypeOK'
<1> USE DEF life, bridge
<1>0. EntriesOK /\ AttributionOK /\ CallsOK /\ SessionsOK /\ RestOK
  BY TypeParts
<1>p. (EntriesOK /\ AttributionOK /\ CallsOK /\ SessionsOK /\ RestOK)' => TypeOK'
  BY DEF TypeOK, EntriesOK, AttributionOK, CallsOK, SessionsOK, RestOK, Ops, Sighting
<1>1. /\ session' \in [Conns -> Gens \cup {None}] /\ links' = links \ {session[c]}
      /\ port' \in [Gens -> {"unused", "open", "closed"}] /\ stop' \in [Gens -> BOOLEAN]
  BY StopFacts
<1>2. PICK vs : sightings' = SightingsWithout(vs) /\ keys' = KeysWithout(vs)
  BY StopFacts
<1>3. sightings' \in [Vehicles -> Sighting] /\ keys' \in [Conns -> SUBSET Vehicles]
  BY <1>2, ForgetFacts
<1>4. EntriesOK'
  BY <1>0, <1>1, <1>3 DEF EntriesOK
<1>5. AttributionOK'
  BY <1>0, <1>1, <1>3 DEF AttributionOK
<1>6. CallsOK'
  BY DEF CallsOK
<1>7. SessionsOK'
  BY <1>0, <1>1 DEF SessionsOK
<1>8. RestOK'
  BY <1>0 DEF RestOK
<1> QED
  BY <1>4, <1>5, <1>6, <1>7, <1>8, <1>p

\* The operations that hold ops keep the types.
LEMMA OperationTypes ==
    ASSUME TypeOK, OpsOwn,
           \/ \E c \in Conns : Connect(c) \/ ConnectCancelled(c) \/ StartupConnect(c) \/ Disconnect(c) \/ DeleteProfile(c)
           \/ Acquiring \/ Releasing \/ Age \/ Sweep \/ Sweeping \/ Close \/ Closing
    PROVE  TypeOK'
<1> USE DEF entries, attribution, life, calls, sessions, bridge
<1>0. EntriesOK /\ AttributionOK /\ CallsOK /\ SessionsOK /\ RestOK
  BY TypeParts
<1>p. (EntriesOK /\ AttributionOK /\ CallsOK /\ SessionsOK /\ RestOK)' => TypeOK'
  BY DEF TypeOK, EntriesOK, AttributionOK, CallsOK, SessionsOK, RestOK, Ops, Sighting
<1>s. {"OPENING", "AWAITING", "INTERRUPTED", "RELEASED", "DEVICE_LOST"} \cup FailureStates \subseteq States
  BY DEF States, Usable, FailureStates
<1>o. /\ Nobody \in Ops /\ op \in Ops
      /\ \A p \in {"open", "persist", "next"} : [op EXCEPT !.pc = p] \in Ops
      /\ \A c \in op.todo : [op EXCEPT !.conn = c, !.pc = "join", !.todo = @ \ {c}] \in Ops
      /\ op.todo \subseteq Conns
  BY OpFacts
<1>1. ASSUME NEW c \in Conns, Connect(c) PROVE TypeOK'
  <2>1. intent' \in [Profiles -> Intents]
    BY <1>0, <1>1 DEF Connect, IntentBeforeOpen, RestOK, Intents
  <2>2. op' \in Ops /\ opNo' \in 0..MaxOps
    BY <1>1, OpFacts DEF Connect, Acquire
  <2> QED
    BY <1>0, <1>1, <2>1, <2>2, StopType DEF Connect, Acquire, CallsOK
<1>2. ASSUME NEW c \in Conns, ConnectCancelled(c) PROVE TypeOK'
  <2>1. intent' \in [Profiles -> Intents] /\ opNo' \in 0..MaxOps
    BY <1>0, <1>2, ManagerBounds DEF ConnectCancelled, IntentBeforeOpen, RestOK, CallsOK, Intents
  <2> QED
    BY <1>0, <1>2, <2>1, <1>p DEF ConnectCancelled, EntriesOK, AttributionOK, CallsOK, SessionsOK, RestOK
<1>3. ASSUME NEW c \in Conns, StartupConnect(c) PROVE TypeOK'
  <2>1. startup' \subseteq Profiles
    BY <1>0, <1>3 DEF StartupConnect, CallsOK
  <2>2. CASE closed
    BY <1>0, <1>3, <2>1, <2>2, <1>p DEF StartupConnect, EntriesOK, AttributionOK, CallsOK, SessionsOK, RestOK
  <2>3. CASE ~closed
    <3>1. op' \in Ops /\ opNo' \in 0..MaxOps
      BY <1>3, <2>3, OpFacts DEF StartupConnect, Acquire
    <3>2. intent' \in [Profiles -> Intents]
      BY <1>0, <1>3 DEF StartupConnect, RestOK
    <3> QED
      BY <1>3, <2>1, <2>3, <3>1, <3>2, StopType DEF StartupConnect, Acquire
  <2> QED
    BY <2>2, <2>3
<1>4. ASSUME NEW c \in Conns, Disconnect(c) PROVE TypeOK'
  <2>1. op' \in Ops /\ opNo' \in 0..MaxOps
    BY <1>4, OpFacts DEF Disconnect
  <2> QED
    BY <1>0, <1>4, <2>1, StopType DEF Disconnect, CallsOK, RestOK
<1>5. ASSUME NEW c \in Conns, DeleteProfile(c) PROVE TypeOK'
  <2>1. intent' \in [Profiles -> Intents] /\ listed' \subseteq Conns
    BY <1>0, <1>5 DEF DeleteProfile, EntriesOK, RestOK, Intents
  <2> QED
    BY <1>0, <1>5, <2>1, <1>p DEF DeleteProfile, EntriesOK, AttributionOK, CallsOK, SessionsOK, RestOK
<1>6. CASE AcquireOpening
  <2>1. /\ state' \in [Conns -> States] /\ keys' \in [Conns -> SUBSET Vehicles] /\ fresh' \subseteq Conns
    BY <1>0, <1>s, <1>6 DEF AcquireOpening, EntriesOK
  <2>2. op.kind = "connect" /\ op' \in Ops
    BY <1>o, <1>6 DEF AcquireOpening
  <2>3. listed' \subseteq Conns
    <3>1. op.conn \in Conns
      BY <2>2 DEF OpsOwn
    <3> QED
      BY <1>0, <1>6, <3>1 DEF AcquireOpening, EntriesOK
  <2> QED
    BY <1>0, <1>6, <2>1, <2>2, <2>3, <1>p DEF AcquireOpening, EntriesOK, AttributionOK, CallsOK, SessionsOK, RestOK
<1>7. CASE AcquireOpened
  <2>1. generation + 1 \in Gens /\ generation' = generation + 1 /\ generation' \in 0..MaxGen
    BY <1>0, <1>7, ManagerBounds DEF AcquireOpened, SessionsOK, Gens
  <2>2. session' \in [Conns -> Gens \cup {None}] /\ state' \in [Conns -> States]
    BY <1>0, <1>s, <1>7, <2>1 DEF AcquireOpened, EntriesOK
  <2>3. SessionsOK'
    BY <1>0, <1>7, <2>1, OpFacts DEF AcquireOpened, SessionsOK
  <2> QED
    BY <1>0, <1>o, <1>7, <2>2, <2>3, <1>p DEF AcquireOpened, Returns, EntriesOK, AttributionOK, CallsOK, RestOK
<1>8. CASE AcquireFailed
  <2>1. state' \in [Conns -> States]
    BY <1>0, <1>s, <1>8 DEF AcquireFailed, EntriesOK
  <2> QED
    BY <1>0, <1>o, <1>8, <2>1, <1>p DEF AcquireFailed, Returns, EntriesOK, AttributionOK, CallsOK, SessionsOK, RestOK
<1>9. CASE DisconnectReleased
  <2>1. state' \in [Conns -> States] /\ keys' \in [Conns -> SUBSET Vehicles]
    BY <1>0, <1>s, <1>9 DEF DisconnectReleased, EntriesOK
  <2>2. op' \in Ops
    BY <1>o, <1>9 DEF DisconnectReleased, Returns
  <2> QED
    BY <1>0, <1>9, <2>1, <2>2, <1>p DEF DisconnectReleased, EntriesOK, AttributionOK, CallsOK, SessionsOK, RestOK
<1>10. CASE DisconnectPersist
  <2>1. intent' \in [Profiles -> Intents]
    BY <1>0, <1>10 DEF DisconnectPersist, RestOK, Intents
  <2> QED
    BY <1>0, <1>o, <1>10, <2>1, <1>p DEF DisconnectPersist, Returns, EntriesOK, AttributionOK, CallsOK, SessionsOK, RestOK
<1>11. CASE Age
  <2>1. sightings' \in [Vehicles -> Sighting]
    BY <1>0, <1>11 DEF Age, AttributionOK, Sighting, Unseen
  <2> QED
    BY <1>0, <1>11, <2>1, <1>p DEF Age, EntriesOK, AttributionOK, CallsOK, SessionsOK, RestOK
<1>12. CASE Sweep
  <2> DEFINE vs == {v \in Vehicles : sightings[v].old}
  <2>1. PICK gone \in SUBSET Conns :
             /\ sightings' = SightingsWithout(vs) /\ keys' = KeysWithout(vs)
             /\ state' = [c \in Conns |-> IF c \in listed \ (gone \cup fresh) /\ state[c] = "REPORTING"
                                          THEN "INTERRUPTED" ELSE state[c]]
             /\ op' = IF gone = {} THEN op ELSE [kind |-> "sweep", conn |-> None, pc |-> "next", todo |-> gone]
    BY <1>0, <1>12 DEF Sweep, EntriesOK
  <2>2. sightings' \in [Vehicles -> Sighting] /\ keys' \in [Conns -> SUBSET Vehicles]
    BY <2>1, ForgetFacts
  <2>3. state' \in [Conns -> States]
    BY <1>0, <1>s, <2>1 DEF EntriesOK
  <2>4. op' \in Ops /\ opNo' \in 0..MaxOps
    <3>1. [kind |-> "sweep", conn |-> None, pc |-> "next", todo |-> gone] \in Ops
      BY DEF Ops
    <3>2. opNo' \in 0..MaxOps
      BY <1>0, <1>12, ManagerBounds DEF Sweep, CallsOK
    <3> QED
      BY <1>o, <2>1, <3>1, <3>2
  <2> QED
    BY <1>0, <1>12, <2>2, <2>3, <2>4, <1>p DEF Sweep, EntriesOK, AttributionOK, CallsOK, SessionsOK, RestOK
<1>13. CASE SweepStop \/ CloseStop
  <2>1. PICK c \in op.todo : StopSession(c) /\ op' = [op EXCEPT !.conn = c, !.pc = "join", !.todo = @ \ {c}]
    BY <1>13 DEF SweepStop, CloseStop
  <2>2. c \in Conns /\ op' \in Ops
    BY <1>o, <2>1
  <2> QED
    BY <1>0, <1>13, <2>1, <2>2, StopType DEF SweepStop, CloseStop, CallsOK, RestOK
<1>14. CASE SweepLost
  <2>1. state' \in [Conns -> States] /\ keys' \in [Conns -> SUBSET Vehicles]
    BY <1>0, <1>s, <1>14 DEF SweepLost, EntriesOK
  <2>2. op' \in Ops
    BY <1>o, <1>14 DEF SweepLost, Returns
  <2> QED
    BY <1>0, <1>14, <2>1, <2>2, <1>p DEF SweepLost, EntriesOK, AttributionOK, CallsOK, SessionsOK, RestOK
<1>15. CASE CloseLock
  <2>1. op' \in Ops
    BY <1>0, <1>15 DEF CloseLock, Ops, EntriesOK
  <2> QED
    BY <1>0, <1>15, <2>1, <1>p DEF CloseLock, EntriesOK, AttributionOK, CallsOK, SessionsOK, RestOK
<1>16. CASE CloseJoin
  <2>1. op' \in Ops
    BY <1>o, <1>16 DEF CloseJoin, Returns
  <2> QED
    BY <1>0, <1>16, <2>1, <1>p DEF CloseJoin, EntriesOK, AttributionOK, CallsOK, SessionsOK, RestOK
<1>17. CASE Close \/ CloseBegin \/ CloseDone
  BY <1>0, <1>17, <1>p DEF Close, CloseBegin, CloseDone, EntriesOK, AttributionOK, CallsOK, SessionsOK, RestOK
<1> QED
  BY <1>1, <1>2, <1>3, <1>4, <1>5, <1>6, <1>7, <1>8, <1>9, <1>10, <1>11, <1>12, <1>13, <1>14, <1>15, <1>16, <1>17
  DEF Acquiring, Releasing, Sweeping, Closing

\* The pumps and the bridge keep the types.
LEMMA PumpTypes ==
    ASSUME TypeOK, OneOwner, SessionsOwn, NEW g \in Gens, Source(g) \/ PumpEnds(g) \/ Receives(g)
    PROVE  TypeOK'
<1> USE DEF PumpFrame, entries, attribution, life, calls, sessions, bridge
<1>0. EntriesOK /\ AttributionOK /\ CallsOK /\ SessionsOK /\ RestOK
  BY TypeParts
<1>p. (EntriesOK /\ AttributionOK /\ CallsOK /\ SessionsOK /\ RestOK)' => TypeOK'
  BY DEF TypeOK, EntriesOK, AttributionOK, CallsOK, SessionsOK, RestOK, Ops, Sighting
<1>s. {"REPORTING", "TRANSPORT_FAILED"} \subseteq States
  BY DEF States, Usable
<1>1. CASE PumpStale(g) \/ PumpStop(g) \/ PumpAbandon(g)
  <2>1. SessionsOK'
    BY <1>0, <1>1 DEF PumpStale, PumpStop, PumpAbandon, SessionsOK
  <2> QED
    BY <1>0, <1>1, <2>1, <1>p DEF PumpStale, PumpStop, PumpAbandon, EntriesOK, AttributionOK, CallsOK, RestOK
<1>2. CASE PumpRetire(g)
  <2>1. SessionsOK'
    BY <1>0, <1>2 DEF PumpRetire, SessionsOK
  <2>2. PICK vs : sightings' = SightingsWithout(vs) /\ keys' = KeysWithout(vs)
    BY <1>2 DEF PumpRetire
  <2>3. sightings' \in [Vehicles -> Sighting] /\ keys' \in [Conns -> SUBSET Vehicles]
    BY <2>2, ForgetFacts
  <2> QED
    BY <1>0, <1>2, <2>1, <2>3, <1>p DEF PumpRetire, EntriesOK, AttributionOK, CallsOK, RestOK
<1>3. CASE ObserveOpen(g)
  <2>1. SessionsOK' /\ AttributionOK'
    BY <1>0, <1>3 DEF ObserveOpen, SessionsOK, AttributionOK
  <2> QED
    BY <1>0, <1>3, <2>1, <1>p DEF ObserveOpen, EntriesOK, CallsOK, RestOK
<1>4. ASSUME NEW v \in Vehicles, ObserveFrame(g, v) PROVE TypeOK'
  <2>1. owner[g] \in Conns
    BY <1>4 DEF ObserveFrame, Running, SessionsOwn
  <2>2. sightings' \in [Vehicles -> Sighting] /\ keys' \in [Conns -> SUBSET Vehicles]
    BY <1>4, <2>1, FrameFacts DEF ObserveFrame
  <2>3. state' \in [Conns -> States] /\ fresh' \subseteq Conns /\ SessionsOK'
    BY <1>0, <1>s, <1>4, <2>1 DEF ObserveFrame, EntriesOK, SessionsOK
  <2> QED
    BY <1>0, <1>4, <2>2, <2>3, <1>p DEF ObserveFrame, EntriesOK, AttributionOK, CallsOK, RestOK
<1>5. CASE ObserveClose(g)
  <2>1. /\ SightingsWithout(Forgotten({g})) \in [Vehicles -> Sighting]
        /\ KeysWithout(Forgotten({g})) \in [Conns -> SUBSET Vehicles]
    BY ForgetFacts
  <2>2. sightings' \in [Vehicles -> Sighting] /\ keys' \in [Conns -> SUBSET Vehicles]
    BY <1>5, <2>1 DEF ObserveClose
  <2>3. state' \in [Conns -> States] /\ SessionsOK'
    BY <1>0, <1>s, <1>5 DEF ObserveClose, EntriesOK, SessionsOK
  <2> QED
    BY <1>0, <1>5, <2>2, <2>3, <1>p DEF ObserveClose, EntriesOK, AttributionOK, CallsOK, RestOK
<1>6. CASE PumpFailed(g)
  <2>1. state' \in [Conns -> States] /\ keys' \in [Conns -> SUBSET Vehicles]
    BY <1>0, <1>s, <1>6 DEF PumpFailed, EntriesOK
  <2>2. SessionsOK'
    BY <1>0, <1>6 DEF PumpFailed, SessionsOK
  <2> QED
    BY <1>0, <1>6, <2>1, <2>2, <1>p DEF PumpFailed, EntriesOK, AttributionOK, CallsOK, RestOK
<1>7. CASE Deliver(g) \/ DeliverClose(g)
  <2>1. SessionsOK'
    BY <1>0, <1>7 DEF Deliver, DeliverClose, SessionsOK
  <2>2. routes' \in {routes, routes \cup {g}, routes \ {g}} /\ retired' \in {retired, retired \cup {g}}
    BY <1>7 DEF Deliver, DeliverClose
  <2>3. routes' \subseteq Gens /\ retired' \subseteq Gens
    BY <1>0, <2>2 DEF RestOK
  <2> QED
    BY <1>0, <1>7, <2>1, <2>3, <1>p DEF Deliver, DeliverClose, EntriesOK, AttributionOK, CallsOK, RestOK
<1> QED
  BY <1>1, <1>2, <1>3, <1>4, <1>5, <1>6, <1>7 DEF Source, PumpEnds, Receives

LEMMA RestartType == ASSUME TypeOK, Restart PROVE TypeOK'
<1>1. Unseen \in Sighting /\ Nobody \in Ops
  BY DEF Unseen, Sighting, Nobody, Ops
<1>2. op' \in Ops /\ sightings' \in [Vehicles -> Sighting]
  BY <1>1 DEF Restart
<1>3. epoch' \in 1..MaxEpoch /\ opNo' \in 0..MaxOps /\ generation' \in 0..MaxGen
  BY ManagerBounds DEF Restart, TypeOK
<1>4. PICK match \in [{c \in Profiles : intent[c] = "CONNECTED"} -> {"OPENING", "DEVICE_MISSING", "AMBIGUOUS"}] :
          /\ startup' = {c \in DOMAIN match : match[c] = "OPENING"}
          /\ state' = [c \in Conns |-> CASE c \in DOMAIN match -> match[c]
                         [] c \in Profiles /\ intent[c] = "RELEASED" -> "RELEASED"
                         [] OTHER -> "IDLE"]
  BY DEF Restart
<1>5. state' \in [Conns -> States] /\ startup' \subseteq Profiles
  <2>1. \A c \in DOMAIN match : match[c] \in States /\ c \in Profiles
    BY <1>4 DEF States
  <2>2. {"RELEASED", "IDLE"} \subseteq States
    BY DEF States
  <2> QED
    BY <1>4, <2>1, <2>2
<1>6. listed' \subseteq Conns
  BY DEF Restart, Conns
<1> QED
  BY <1>2, <1>3, <1>5, <1>6 DEF Restart, TypeOK, Sighting, Ops

LEMMA NextTypeOK == OneOwner /\ SessionsOwn /\ OpsOwn /\ [Next]_vars => TypeOK'
<1> SUFFICES ASSUME OneOwner, SessionsOwn, OpsOwn, [Next]_vars PROVE TypeOK'
  OBVIOUS
<1>0. TypeOK
  BY DEF OneOwner
<1>1. CASE UNCHANGED vars
  BY <1>0, <1>1 DEF TypeOK, vars, entries, attribution, life, calls, sessions, bridge
<1> QED
  BY <1>0, <1>1, OperationTypes, PumpTypes, RestartType DEF Next
-----------------------------------------------------------------------------
\* stopSession closes one port, and takes its link and its vehicles away with it.
LEMMA StopKeeps ==
    ASSUME OneOwner, SessionsOwn, Reached, Emptied, NEW c \in Conns, StopSession(c),
           UNCHANGED <<state, owner, channel, pump, generation, bridge>>
    PROVE  (Attributed /\ SessionsOwn /\ Reached /\ Emptied)'
<1> USE DEF bridge
<1>0. TypeOK
  BY DEF OneOwner
<1>1. /\ session'[c] = None /\ \A d \in Conns \ {c} : session'[d] = session[d]
      /\ links' = links \ {session[c]}
      /\ \A g \in Gens : port'[g] = IF g = session[c] THEN "closed" ELSE port[g]
  BY <1>0, StopFacts
<1>2. PICK vs : sightings' = SightingsWithout(vs) /\ keys' = KeysWithout(vs)
  BY <1>0, StopFacts
<1>3. session \in [Conns -> Gens \cup {None}] /\ links \subseteq Gens
  BY <1>0 DEF TypeOK
<1>4. Attributed'
  BY <1>0, <1>2, ForgetFacts DEF Attributed
<1>5. SessionsOwn'
  <2>1. ASSUME NEW g \in Gens
        PROVE  /\ generation < g => /\ port'[g] = "unused" /\ channel[g] = "none" /\ pump[g] = "off"
                                    /\ g \notin routes \cup retired
               /\ port'[g] = "open" => owner[g] \in Conns /\ session'[owner[g]] = g
               /\ pump[g] # "off" => owner[g] \in Conns
    <3>1. g = session[c] => port[g] = "open" /\ ~(generation < g)
      BY NoneIsNoGen DEF SessionsOwn
    <3>2. CASE g = session[c]
      BY <1>1, <3>1, <3>2 DEF SessionsOwn
    <3>3. CASE g # session[c]
      <4>1. port'[g] = port[g]
        BY <1>1, <3>3
      <4>2. port[g] = "open" => owner[g] \in Conns \ {c} /\ session[owner[g]] = g
        BY <3>3 DEF SessionsOwn
      <4> QED
        BY <1>1, <4>1, <4>2 DEF SessionsOwn
    <3> QED
      BY <3>2, <3>3
  <2>2. ASSUME NEW d \in Conns, session'[d] # None
        PROVE  owner[session'[d]] = d /\ port'[session'[d]] = "open"
    <3>1. d # c /\ session'[d] = session[d] /\ session[d] \in Gens
      BY <1>1, <1>3, <2>2
    <3>2. owner[session[d]] = d /\ port[session[d]] = "open"
      BY <2>2, <3>1 DEF SessionsOwn
    <3>3. session[d] # session[c]
      BY <2>2, <3>1, <3>2 DEF SessionsOwn
    <3> QED
      BY <1>1, <3>1, <3>2, <3>3
  <2> QED
    BY <2>1, <2>2 DEF SessionsOwn
<1>6. Reached'
  <2> SUFFICES ASSUME NEW g \in links, g # session[c] PROVE session'[owner[g]] = g /\ port'[g] = "open"
    BY <1>1 DEF Reached
  <2>1. g \in Gens /\ session[owner[g]] = g /\ port[g] = "open"
    BY <1>3 DEF Reached
  <2>2. owner[g] \in Conns \ {c}
    BY <2>1 DEF SessionsOwn
  <2> QED
    BY <1>1, <2>1, <2>2
<1>7. Emptied'
  <2>1. \A d \in Conns : keys'[d] \subseteq keys[d]
    BY <1>0, <1>2, ForgetFacts
  <2> QED
    BY <1>1, <2>1 DEF Emptied
<1> QED
  BY <1>4, <1>5, <1>6, <1>7

\* Steps that leave sessions, ports and links alone.
LEMMA SameSessions ==
    SessionsOwn /\ Reached /\ UNCHANGED <<generation, port, channel, routes, retired, owner, session, pump, links>>
      => SessionsOwn' /\ Reached'
  BY DEF SessionsOwn, Reached

\* A new session: its connection had none.
LEMMA OpenedKeeps ==
    ASSUME OneOwner, SessionsOwn, OpsOwn, Reached, Emptied, AcquireOpened
    PROVE  (Attributed /\ SessionsOwn /\ OpsOwn /\ Reached /\ Emptied)'
<1> USE DEF entries, attribution, bridge
<1>g. PICK g \in Gens : g = generation + 1
  BY ManagerBounds DEF AcquireOpened, OneOwner, TypeOK, Gens
<1>c. PICK c \in Conns : c = op.conn /\ session[c] = None
  BY DEF AcquireOpened, OpsOwn
<1>0. TypeOK /\ generation \in Nat
  BY DEF OneOwner, TypeOK
<1>1. /\ generation' = g /\ owner' = [owner EXCEPT ![g] = c] /\ port' = [port EXCEPT ![g] = "open"]
      /\ pump' = [pump EXCEPT ![g] = "run"] /\ session' = [session EXCEPT ![c] = g]
      /\ state' = [state EXCEPT ![c] = "AWAITING"] /\ op' = Nobody
      /\ UNCHANGED <<keys, links, sightings, channel, routes, retired>>
  BY <1>g, <1>c DEF AcquireOpened, Returns
<1>2. /\ owner'[g] = c /\ port'[g] = "open" /\ pump'[g] = "run" /\ session'[c] = g /\ state'[c] = "AWAITING"
      /\ \A h \in Gens \ {g} : owner'[h] = owner[h] /\ port'[h] = port[h] /\ pump'[h] = pump[h]
      /\ \A d \in Conns \ {c} : session'[d] = session[d] /\ state'[d] = state[d]
  BY <1>0, <1>1 DEF TypeOK
<1>3. port[g] = "unused" /\ g \notin links
  BY <1>0, <1>g DEF SessionsOwn, Reached
<1>4. Attributed'
  BY <1>1 DEF OneOwner, Attributed
<1>5. SessionsOwn'
  <2>1. ASSUME NEW h \in Gens
        PROVE  /\ g < h => /\ port'[h] = "unused" /\ channel[h] = "none" /\ pump'[h] = "off"
                           /\ h \notin routes \cup retired
               /\ port'[h] = "open" => owner'[h] \in Conns /\ session'[owner'[h]] = h
               /\ pump'[h] # "off" => owner'[h] \in Conns
    <3>1. CASE h = g
      BY <1>2, <3>1 DEF Gens
    <3>2. CASE h # g
      <4>1. g < h => generation < h
        BY <1>0, <1>g DEF Gens
      <4>2. port[h] = "open" => owner[h] \in Conns \ {c} /\ session[owner[h]] = h
        BY <1>c, NoneIsNoGen DEF SessionsOwn
      <4> QED
        BY <1>2, <3>2, <4>1, <4>2 DEF SessionsOwn
    <3> QED
      BY <3>1, <3>2
  <2>2. ASSUME NEW d \in Conns, session'[d] # None
        PROVE  owner'[session'[d]] = d /\ port'[session'[d]] = "open"
    <3>1. CASE d = c
      BY <1>2, <3>1
    <3>2. CASE d # c
      <4>1. session[d] \in Gens /\ session'[d] = session[d]
        BY <1>0, <1>2, <2>2, <3>2 DEF TypeOK
      <4>2. owner[session[d]] = d /\ port[session[d]] = "open"
        BY <2>2, <4>1 DEF SessionsOwn
      <4> QED
        BY <1>2, <1>3, <4>1, <4>2
    <3> QED
      BY <3>1, <3>2
  <2> QED
    BY <1>1, <2>1, <2>2 DEF SessionsOwn
<1>6. Reached'
  <2> SUFFICES ASSUME NEW h \in links PROVE session'[owner'[h]] = h /\ port'[h] = "open"
    BY <1>1 DEF Reached
  <2>1. h \in Gens \ {g} /\ session[owner[h]] = h /\ port[h] = "open"
    BY <1>0, <1>3 DEF Reached, TypeOK
  <2>2. owner[h] \in Conns \ {c}
    BY <1>c, <2>1, NoneIsNoGen DEF SessionsOwn
  <2> QED
    BY <1>2, <2>1, <2>2
<1>7. Emptied'
  BY <1>1, <1>2 DEF Emptied
<1>8. OpsOwn'
  BY <1>1 DEF OpsOwn, Nobody
<1> QED
  BY <1>4, <1>5, <1>6, <1>7, <1>8

\* The steps of the operations keep attribution, sessions, links and released connections.
LEMMA OperationsKeep ==
    ASSUME OneOwner, SessionsOwn, OpsOwn, Reached, Emptied,
           \/ \E c \in Conns : Connect(c) \/ ConnectCancelled(c) \/ StartupConnect(c) \/ Disconnect(c) \/ DeleteProfile(c)
           \/ Acquiring \/ Releasing \/ Age \/ Sweep \/ Sweeping \/ Close \/ Closing
    PROVE  (Attributed /\ SessionsOwn /\ OpsOwn /\ Reached /\ Emptied)'
<1> USE DEF entries, attribution, life, calls, sessions, bridge
<1>0. /\ TypeOK /\ op \in Ops /\ op.todo \subseteq Conns /\ Attributed
      /\ state \in [Conns -> States] /\ keys \in [Conns -> SUBSET Vehicles]
  BY OpFacts DEF OneOwner, Attributed, TypeOK
<1>n. Nobody.kind = "none"
  BY DEF Nobody
<1>1. ASSUME NEW c \in Conns, NEW k \in {"connect", "disconnect"}, NEW p \in {"join", "join-new"},
             Takes(k, c, p), StopSession(c), UNCHANGED <<state, owner, channel, pump, generation, bridge>>
      PROVE  (Attributed /\ SessionsOwn /\ OpsOwn /\ Reached /\ Emptied)'
  <2>1. op'.kind = k /\ op'.conn = c /\ session'[c] = None
    BY <1>0, <1>1, OpFacts, StopFacts
  <2>2. OpsOwn'
    BY <2>1 DEF OpsOwn
  <2> QED
    BY <1>1, <2>2, StopKeeps
<1>2. ASSUME NEW c \in Conns, Connect(c) \/ (StartupConnect(c) /\ ~closed) \/ Disconnect(c)
      PROVE  (Attributed /\ SessionsOwn /\ OpsOwn /\ Reached /\ Emptied)'
  BY <1>1, <1>2 DEF Connect, StartupConnect, Acquire, Disconnect
<1>3. CASE \/ \E c \in Conns : ConnectCancelled(c) \/ (StartupConnect(c) /\ closed) \/ DeleteProfile(c)
           \/ Close \/ CloseBegin \/ CloseDone
  <2>1. UNCHANGED <<state, keys, session, links, sightings, op, generation, port, channel, routes, retired, owner, pump>>
    BY <1>3 DEF ConnectCancelled, StartupConnect, DeleteProfile, Close, CloseBegin, CloseDone
  <2> QED
    BY <1>0, <2>1, SameSessions DEF Attributed, OpsOwn, Emptied
<1>4. CASE AcquireOpening \/ AcquireFailed
  <2>1. /\ UNCHANGED <<session, links, sightings, generation, port, channel, routes, retired, owner, pump>>
        /\ \A c \in Conns : keys'[c] \subseteq keys[c]
        /\ \A c \in Conns : state'[c] \in {"RELEASED", "DEVICE_LOST"} => state'[c] = state[c]
    BY <1>0, <1>4 DEF AcquireOpening, AcquireFailed, FailureStates
  <2>2. op'.kind = "none" \/ (op'.kind = "connect" /\ op.kind = "connect" /\ op'.conn = op.conn)
    BY <1>0, <1>n, <1>4 DEF AcquireOpening, AcquireFailed, Returns, Ops
  <2>3. OpsOwn'
    BY <2>1, <2>2 DEF OpsOwn
  <2> QED
    BY <1>0, <2>1, <2>3, SameSessions DEF Attributed, Emptied
<1>5. CASE DisconnectReleased \/ SweepLost
  <2>1. /\ UNCHANGED <<session, links, sightings, generation, port, channel, routes, retired, owner, pump>>
        /\ op.conn \in Conns /\ session[op.conn] = None /\ keys'[op.conn] = {}
        /\ \A c \in Conns \ {op.conn} : keys'[c] = keys[c] /\ state'[c] = state[c]
    BY <1>0, <1>5 DEF DisconnectReleased, SweepLost, OpsOwn
  <2>2. \/ op'.kind = "none"
        \/ op'.kind = "sweep" /\ op'.pc = "next"
        \/ op.kind = "disconnect" /\ op'.kind = "disconnect" /\ op'.conn = op.conn
    <3>1. CASE DisconnectReleased
      <4>1. op.kind = "disconnect" /\ (op' = [op EXCEPT !.pc = "persist"] \/ op' = Nobody)
        BY <3>1 DEF DisconnectReleased, Returns
      <4>2. [op EXCEPT !.pc = "persist"].kind = op.kind /\ [op EXCEPT !.pc = "persist"].conn = op.conn
        BY <1>0 DEF Ops
      <4> QED
        BY <1>n, <4>1, <4>2
    <3>2. CASE SweepLost
      <4>1. op.kind = "sweep" /\ (op' = [op EXCEPT !.pc = "next"] \/ op' = Nobody)
        BY <3>2 DEF SweepLost, Returns
      <4>2. [op EXCEPT !.pc = "next"].kind = op.kind /\ [op EXCEPT !.pc = "next"].pc = "next"
        BY <1>0 DEF Ops
      <4> QED
        BY <1>n, <4>1, <4>2
    <3> QED
      BY <1>5, <3>1, <3>2
  <2>3. OpsOwn'
    BY <2>1, <2>2 DEF OpsOwn
  <2>4. Attributed' /\ Emptied'
    BY <1>0, <2>1 DEF Attributed, Emptied
  <2> QED
    BY <2>1, <2>3, <2>4, SameSessions
<1>6. CASE DisconnectPersist \/ CloseLock \/ CloseJoin
  <2>1. UNCHANGED <<state, keys, session, links, sightings, generation, port, channel, routes, retired, owner, pump>>
    BY <1>6 DEF DisconnectPersist, CloseLock, CloseJoin
  <2>2. op'.kind = "none" \/ (op'.kind = "close" /\ op'.pc = "next")
    BY <1>0, <1>n, <1>6 DEF DisconnectPersist, CloseLock, CloseJoin, Returns, Ops
  <2>3. OpsOwn'
    BY <2>2 DEF OpsOwn
  <2> QED
    BY <1>0, <2>1, <2>3, SameSessions DEF Attributed, Emptied
<1>7. CASE Age
  <2>1. \A v \in Vehicles : sightings'[v].owner = sightings[v].owner
    BY <1>7 DEF Age, OneOwner, TypeOK, Unseen
  <2>2. UNCHANGED <<state, keys, session, links, op, generation, port, channel, routes, retired, owner, pump>>
    BY <1>7 DEF Age
  <2>3. Attributed'
    BY <1>0, <2>1, <2>2 DEF Attributed
  <2> QED
    BY <2>2, <2>3, SameSessions DEF OpsOwn, Emptied
<1>8. CASE Sweep
  <2> DEFINE vs == {v \in Vehicles : sightings[v].old}
  <2>1. /\ sightings' = SightingsWithout(vs) /\ keys' = KeysWithout(vs)
        /\ \A c \in Conns : state'[c] = state[c] \/ state'[c] = "INTERRUPTED"
        /\ op'.kind = "none" \/ op'.pc = "next"
    BY <1>0, <1>n, <1>8 DEF Sweep
  <2>2. UNCHANGED <<session, links, generation, port, channel, routes, retired, owner, pump>>
    BY <1>8 DEF Sweep
  <2>3. /\ \A c \in Conns : KeysWithout(vs)[c] \subseteq keys[c]
        /\ \A c \in Conns : \A v \in KeysWithout(vs)[c] : SightingsWithout(vs)[v].owner = c
    BY <1>0, ForgetFacts
  <2>4. Attributed'
    BY <2>1, <2>3 DEF Attributed
  <2>5. OpsOwn'
    BY <1>8, <2>1 DEF OpsOwn, Sweep, Nobody
  <2>6. Emptied'
    BY <2>1, <2>2, <2>3 DEF Emptied
  <2> QED
    BY <2>2, <2>4, <2>5, <2>6, SameSessions
<1>9. CASE SweepStop \/ CloseStop
  <2>1. PICK c \in op.todo : StopSession(c) /\ op' = [op EXCEPT !.conn = c, !.pc = "join", !.todo = @ \ {c}]
    BY <1>9 DEF SweepStop, CloseStop
  <2>2. c \in Conns /\ op'.conn = c /\ op'.kind = op.kind
    BY <1>0, <2>1 DEF Ops
  <2>3. OpsOwn'
    BY <1>0, <2>1, <2>2, StopFacts DEF OpsOwn
  <2> QED
    BY <1>9, <2>1, <2>2, <2>3, StopKeeps DEF SweepStop, CloseStop
<1>10. ASSUME NEW c \in Conns, StartupConnect(c)
       PROVE  (Attributed /\ SessionsOwn /\ OpsOwn /\ Reached /\ Emptied)'
  <2>1. CASE closed
    BY <1>3, <1>10, <2>1
  <2>2. CASE ~closed
    BY <1>2, <1>10, <2>2
  <2> QED
    BY <2>1, <2>2
<1>11. CASE \E c \in Conns : Connect(c) \/ ConnectCancelled(c) \/ StartupConnect(c) \/ Disconnect(c) \/ DeleteProfile(c)
  <2>1. PICK c \in Conns : Connect(c) \/ ConnectCancelled(c) \/ StartupConnect(c) \/ Disconnect(c) \/ DeleteProfile(c)
    BY <1>11
  <2>2. CASE Connect(c) \/ Disconnect(c)
    BY <1>2, <2>2
  <2>3. CASE ConnectCancelled(c) \/ DeleteProfile(c)
    BY <1>3, <2>3
  <2> QED
    BY <1>10, <2>1, <2>2, <2>3
<1>12. CASE Acquiring \/ Releasing \/ Sweeping \/ Closing
  BY <1>3, <1>4, <1>5, <1>6, <1>9, <1>12, OpenedKeeps DEF Acquiring, Releasing, Sweeping, Closing
<1> QED
  BY <1>3, <1>7, <1>8, <1>11, <1>12

\* A pump that runs, retires or closes moves, and only its own session with it.
LEMMA PumpFacts ==
    ASSUME TypeOK, NEW g \in Gens, Source(g) \/ PumpEnds(g) \/ Receives(g)
    PROVE  /\ UNCHANGED <<session, port, owner, op, generation, closing, epoch, intent, startup>> /\ pump[g] # "off"
           /\ \A h \in Gens \ {g} :
                /\ channel'[h] = channel[h] /\ pump'[h] = pump[h] /\ hand'[h] = hand[h]
                /\ (h \in routes' <=> h \in routes) /\ (h \in retired' <=> h \in retired)
<1> USE DEF PumpFrame, entries, attribution, life, calls, sessions, bridge, Source, ObserveOpen, ObserveFrame,
            ObserveClose, PumpFailed, PumpEnds, PumpStale, PumpStop, PumpRetire, PumpAbandon, Receives, Deliver,
            DeliverClose
<1>0. /\ channel \in [Gens -> {"none", "open", "gone"}] /\ pump \in [Gens -> {"off", "run", "retire", "closing"}]
      /\ hand \in [Gens -> {"empty", "open", "frame", "close"}]
  BY DEF TypeOK
<1>1. UNCHANGED <<session, port, owner, op, generation, closing, epoch, intent, startup>>
  OBVIOUS
<1>2. pump[g] # "off"
  BY DEF Running
<1>3. channel' = channel \/ \E x : channel' = [channel EXCEPT ![g] = x]
  OBVIOUS
<1>4. pump' = pump \/ \E x : pump' = [pump EXCEPT ![g] = x]
  OBVIOUS
<1>5. hand' = hand \/ \E x : hand' = [hand EXCEPT ![g] = x]
  OBVIOUS
<1>6. routes' \in {routes, routes \cup {g}, routes \ {g}} /\ retired' \in {retired, retired \cup {g}}
  OBVIOUS
<1>7. ASSUME NEW h \in Gens \ {g}
      PROVE  channel'[h] = channel[h] /\ pump'[h] = pump[h] /\ hand'[h] = hand[h]
  BY <1>0, <1>3, <1>4, <1>5
<1>h. HIDE DEF Source, PumpEnds, Receives
<1> QED
  BY <1>1, <1>2, <1>6, <1>7

LEMMA PumpsKeepSessions ==
    ASSUME OneOwner, SessionsOwn, NEW g \in Gens, Source(g) \/ PumpEnds(g) \/ Receives(g)
    PROVE  SessionsOwn'
<1>1. TypeOK
  BY DEF OneOwner
<1>2. /\ UNCHANGED <<session, port, owner, generation>> /\ pump[g] # "off"
      /\ \A h \in Gens \ {g} :
                /\ channel'[h] = channel[h] /\ pump'[h] = pump[h]
                /\ (h \in routes' <=> h \in routes) /\ (h \in retired' <=> h \in retired)
  BY <1>1, PumpFacts
<1>3. ~(generation < g) /\ owner[g] \in Conns
  BY <1>2 DEF SessionsOwn
<1> QED
  BY <1>2, <1>3 DEF SessionsOwn

\* The pumps keep attribution, links and released connections: observe refuses a
\* session that is no longer its connection's.
LEMMA PumpsKeep ==
    ASSUME OneOwner, SessionsOwn, OpsOwn, Reached, Emptied,
           NEW g \in Gens, Source(g) \/ PumpEnds(g) \/ Receives(g)
    PROVE  (Attributed /\ SessionsOwn /\ OpsOwn /\ Reached /\ Emptied)'
<1> USE DEF PumpFrame, entries, attribution, bridge
<1>0. /\ TypeOK /\ Attributed /\ state \in [Conns -> States] /\ keys \in [Conns -> SUBSET Vehicles]
  BY DEF OneOwner, Attributed, TypeOK
<1>1. SessionsOwn' /\ UNCHANGED <<session, port, owner, op>>
  BY <1>0, PumpsKeepSessions, PumpFacts
<1>2. OpsOwn'
  BY <1>1 DEF OpsOwn
<1>3. ASSUME links' \subseteq links PROVE Reached'
  BY <1>1, <1>3 DEF Reached
<1>4. CASE PumpStale(g) \/ PumpStop(g) \/ PumpAbandon(g) \/ Deliver(g) \/ DeliverClose(g)
  <2>1. UNCHANGED <<state, keys, links, sightings>>
    BY <1>4 DEF PumpStale, PumpStop, PumpAbandon, Deliver, DeliverClose
  <2>2. Attributed' /\ Reached' /\ Emptied'
    BY <1>0, <1>1, <2>1 DEF Attributed, Reached, Emptied
  <2> QED
    BY <1>1, <1>2, <2>2
<1>5. CASE PumpRetire(g)
  <2>1. PICK vs : sightings' = SightingsWithout(vs) /\ keys' = KeysWithout(vs)
    BY <1>5 DEF PumpRetire
  <2>2. /\ \A c \in Conns : keys'[c] \subseteq keys[c]
        /\ \A c \in Conns : \A v \in keys'[c] : sightings'[v].owner = c
    BY <1>0, <2>1, ForgetFacts
  <2>3. UNCHANGED state /\ links' \subseteq links
    BY <1>5 DEF PumpRetire
  <2>4. Attributed' /\ Emptied'
    BY <1>1, <2>2, <2>3 DEF Attributed, Emptied
  <2> QED
    BY <1>1, <1>2, <1>3, <2>3, <2>4
<1>6. CASE ObserveOpen(g)
  <2>1. UNCHANGED <<state, keys, sightings>> /\ links' = links \cup {g} /\ Running(g) /\ Observes(g)
    BY <1>6 DEF ObserveOpen
  <2>2. owner[g] \in Conns /\ session[owner[g]] = g /\ g # None
    BY <2>1, NoneIsNoGen DEF Running, Observes, SessionsOwn
  <2>3. port[g] = "open"
    BY <2>2 DEF SessionsOwn
  <2>4. Attributed' /\ Reached' /\ Emptied'
    BY <1>0, <1>1, <2>1, <2>2, <2>3 DEF Attributed, Reached, Emptied
  <2> QED
    BY <1>1, <1>2, <2>4
<1>7. ASSUME NEW v \in Vehicles, ObserveFrame(g, v) PROVE (Attributed /\ SessionsOwn /\ OpsOwn /\ Reached /\ Emptied)'
  <2>1. owner[g] \in Conns
    BY <1>7 DEF ObserveFrame, Running, SessionsOwn
  <2>2. /\ \A d \in Conns \ {owner[g]} : keys'[d] \subseteq keys[d]
        /\ \A d \in Conns : \A w \in keys'[d] : sightings'[w].owner = d
    BY <1>7, <2>1, FrameFacts DEF ObserveFrame
  <2>3. /\ state'[owner[g]] = "REPORTING" /\ links' = links
        /\ \A d \in Conns \ {owner[g]} : state'[d] = state[d]
    BY <1>0, <1>7, <2>1 DEF ObserveFrame
  <2>4. Attributed'
    BY <2>2 DEF Attributed
  <2>5. Emptied'
    BY <1>1, <2>2, <2>3 DEF Emptied
  <2> QED
    BY <1>1, <1>2, <1>3, <2>3, <2>4, <2>5
<1>8. CASE ObserveClose(g)
  <2> DEFINE vs == Forgotten({g})
  <2>1. /\ KeysWithout(vs) \in [Conns -> SUBSET Vehicles]
        /\ \A c \in Conns : KeysWithout(vs)[c] \subseteq keys[c]
        /\ \A c \in Conns : \A v \in KeysWithout(vs)[c] : SightingsWithout(vs)[v].owner = c
    BY <1>0, ForgetFacts
  <2>2. /\ sightings' = SightingsWithout(vs) /\ keys' = [KeysWithout(vs) EXCEPT ![owner[g]] = {}]
        /\ state' = [state EXCEPT ![owner[g]] = "TRANSPORT_FAILED"] /\ links' \subseteq links
    BY <1>8 DEF ObserveClose
  <2>h. HIDE DEF vs
  <2>3. \A c \in Conns : keys'[c] \subseteq KeysWithout(vs)[c]
    BY <2>1, <2>2
  <2>4. \A c \in Conns : state'[c] = state[c] \/ state'[c] = "TRANSPORT_FAILED"
    BY <1>0, <2>2
  <2>5. Attributed'
    BY <2>1, <2>2, <2>3 DEF Attributed
  <2>6. Emptied'
    BY <1>1, <2>1, <2>3, <2>4 DEF Emptied
  <2> QED
    BY <1>1, <1>2, <1>3, <2>2, <2>5, <2>6
<1>9. CASE PumpFailed(g)
  <2>1. /\ UNCHANGED <<links, sightings>>
        /\ \A c \in Conns : keys'[c] \subseteq keys[c]
        /\ \A c \in Conns : state'[c] = state[c] \/ state'[c] = "TRANSPORT_FAILED"
    BY <1>0, <1>9 DEF PumpFailed
  <2>2. Attributed' /\ Emptied'
    BY <1>0, <1>1, <2>1 DEF Attributed, Emptied
  <2> QED
    BY <1>1, <1>2, <1>3, <2>1, <2>2
<1> QED
  BY <1>4, <1>5, <1>6, <1>7, <1>8, <1>9 DEF Source, PumpEnds, Receives

LEMMA RestartKeeps == ASSUME Restart PROVE (Attributed /\ SessionsOwn /\ OpsOwn /\ Reached /\ Emptied)'
  BY DEF Restart, Attributed, SessionsOwn, OpsOwn, Reached, Emptied, Nobody

LEMMA NextKeeps ==
    OneOwner /\ SessionsOwn /\ OpsOwn /\ Reached /\ Emptied /\ [Next]_vars
      => (OneOwner /\ SessionsOwn /\ OpsOwn /\ Reached /\ Emptied)'
<1> SUFFICES ASSUME OneOwner, SessionsOwn, OpsOwn, Reached, Emptied, [Next]_vars
             PROVE  (OneOwner /\ SessionsOwn /\ OpsOwn /\ Reached /\ Emptied)'
  OBVIOUS
<1>1. TypeOK'
  BY NextTypeOK
<1>2. (Attributed /\ SessionsOwn /\ OpsOwn /\ Reached /\ Emptied)'
  <2>1. CASE UNCHANGED vars
    BY <2>1 DEF vars, entries, attribution, calls, sessions, bridge, OneOwner, Attributed, SessionsOwn, OpsOwn,
                Reached, Emptied
  <2> QED
    BY <2>1, OperationsKeep, PumpsKeep, RestartKeeps DEF Next
<1> QED
  BY <1>1, <1>2 DEF OneOwner, Attributed

-----------------------------------------------------------------------------
\* The pumps keep what the bridge is told in order.
LEMMA PumpsTold ==
    ASSUME OneOwner, Told, NEW g \in Gens, Source(g) \/ PumpEnds(g) \/ Receives(g)
    PROVE  Told'
<1> USE DEF PumpFrame, bridge, Running
<1>0. /\ TypeOK /\ channel \in [Gens -> {"none", "open", "gone"}]
      /\ pump \in [Gens -> {"off", "run", "retire", "closing"}]
      /\ hand \in [Gens -> {"empty", "open", "frame", "close"}]
  BY DEF OneOwner, TypeOK
<1>1. /\ closing' = closing
      /\ \A h \in Gens \ {g} :
                /\ channel'[h] = channel[h] /\ pump'[h] = pump[h] /\ hand'[h] = hand[h]
                /\ (h \in routes' <=> h \in routes) /\ (h \in retired' <=> h \in retired)
  BY <1>0, PumpFacts
<1>2. SUFFICES /\ hand'[g] # "empty" => channel'[g] = "open"
               /\ g \in routes' => channel'[g] = "open" /\ (pump'[g] = "off" => closing')
               /\ g \in retired' => channel'[g] = "gone" \/ pump'[g] = "off"
               /\ g \in routes' => g \notin retired'
  BY <1>1 DEF Told
<1>3. /\ hand[g] # "empty" => channel[g] = "open"
      /\ g \in routes => channel[g] = "open" /\ (pump[g] = "off" => closing)
      /\ g \in retired => channel[g] = "gone" \/ pump[g] = "off"
      /\ g \in routes => g \notin retired
  BY DEF Told
<1>4. CASE PumpStale(g) \/ PumpFailed(g) \/ PumpStop(g)
  BY <1>0, <1>3, <1>4 DEF PumpStale, PumpFailed, PumpStop
<1>5. CASE PumpRetire(g)
  BY <1>0, <1>3, <1>5 DEF PumpRetire, Retires
<1>6. CASE PumpAbandon(g)
  BY <1>0, <1>1, <1>3, <1>6 DEF PumpAbandon
<1>7. CASE DeliverClose(g)
  BY <1>0, <1>3, <1>7 DEF DeliverClose
<1>8. CASE ObserveOpen(g)
  BY <1>0, <1>3, <1>8 DEF ObserveOpen
<1>9. ASSUME NEW v \in Vehicles, ObserveFrame(g, v)
      PROVE  /\ hand'[g] # "empty" => channel'[g] = "open"
             /\ g \in routes' => channel'[g] = "open" /\ (pump'[g] = "off" => closing')
             /\ g \in retired' => channel'[g] = "gone" \/ pump'[g] = "off"
             /\ g \in routes' => g \notin retired'
  BY <1>0, <1>1, <1>3, <1>9 DEF ObserveFrame
<1>10. CASE ObserveClose(g)
  BY <1>0, <1>3, <1>10 DEF ObserveClose
<1>11. CASE Deliver(g)
  <2>1. /\ pump[g] = "run" /\ pump' = pump /\ hand[g] # "empty" /\ hand'[g] = "empty"
        /\ g \notin retired
    BY <1>0, <1>3, <1>11 DEF Deliver
  <2>2. CASE hand[g] = "close"
    BY <1>0, <1>11, <2>1, <2>2 DEF Deliver
  <2>3. CASE hand[g] # "close"
    BY <1>0, <1>3, <1>11, <2>1, <2>3 DEF Deliver
  <2> QED
    BY <2>2, <2>3
<1> QED
  BY <1>4, <1>5, <1>6, <1>7, <1>8, <1>9, <1>10, <1>11 DEF Source, PumpEnds, Receives

LEMMA NextTold == OneOwner /\ SessionsOwn /\ Told /\ [Next]_vars => Told'
<1> SUFFICES ASSUME OneOwner, SessionsOwn, Told, [Next]_vars PROVE Told'
  OBVIOUS
<1> USE DEF entries, attribution, life, calls, sessions, bridge
<1>1. ASSUME UNCHANGED <<channel, pump, hand, routes, retired>>, closing => closing' PROVE Told'
  BY <1>1 DEF Told
<1>2. CASE \E c \in Conns : Connect(c) \/ ConnectCancelled(c) \/ StartupConnect(c) \/ Disconnect(c) \/ DeleteProfile(c)
  BY <1>1, <1>2 DEF Connect, ConnectCancelled, StartupConnect, Disconnect, DeleteProfile
<1>3. CASE \/ UNCHANGED vars \/ AcquireOpening \/ AcquireFailed \/ Releasing \/ Age \/ Sweep \/ Sweeping
           \/ Close \/ Closing
  <2>1. UNCHANGED <<channel, pump, hand, routes, retired>>
    BY <1>3 DEF vars, AcquireOpening, AcquireFailed, Releasing, DisconnectReleased, DisconnectPersist, Age,
       Sweep, Sweeping, SweepStop, SweepLost, Close, Closing, CloseBegin, CloseLock, CloseStop, CloseJoin, CloseDone
  <2>2. closing' = closing \/ closing' = TRUE
    BY <1>3 DEF vars, AcquireOpening, AcquireFailed, Releasing, DisconnectReleased, DisconnectPersist, Age,
       Sweep, Sweeping, SweepStop, SweepLost, Close, Closing, CloseBegin, CloseLock, CloseStop, CloseJoin, CloseDone
  <2> QED
    BY <1>1, <2>1, <2>2
<1>4. CASE AcquireOpened
  <2>1. PICK g \in Gens : g = generation + 1
    BY <1>4, ManagerBounds DEF AcquireOpened, OneOwner, TypeOK, Gens
  <2>2. g \notin routes \cup retired
    BY <2>1 DEF SessionsOwn, OneOwner, TypeOK
  <2>3. \A h \in Gens \ {g} : pump'[h] = pump[h]
    BY <1>4, <2>1 DEF AcquireOpened, OneOwner, TypeOK
  <2> QED
    BY <1>4, <2>2, <2>3 DEF AcquireOpened, Told
<1>5. CASE Restart
  BY <1>5 DEF Restart, Told
<1> QED
  BY <1>2, <1>3, <1>4, <1>5, PumpsTold DEF Next, Acquiring

LEMMA NextRecorded == OneOwner /\ SessionsOwn /\ OpsOwn /\ Recorded /\ [Next]_vars => Recorded'
<1> SUFFICES ASSUME OneOwner, SessionsOwn, OpsOwn, Recorded, [Next]_vars, epoch' = 1
             PROVE  /\ startup' = {}
                    /\ op'.kind = "connect" /\ Saved(op.conn)' => intent'[op'.conn] = "CONNECTED"
                    /\ \A g \in Gens : port'[g] = "open" /\ Saved(owner[g])' => intent'[owner'[g]] = "CONNECTED"
  BY DEF Recorded
<1> USE DEF entries, attribution, life, calls, sessions, bridge
<1>0. /\ TypeOK /\ op \in Ops /\ intent \in [Profiles -> Intents] /\ epoch \in Nat /\ epoch >= 1
  <2>1. TypeOK
    BY DEF OneOwner
  <2>2. intent \in [Profiles -> Intents] /\ epoch \in 1..MaxEpoch
    BY <2>1 DEF TypeOK
  <2>3. op \in Ops
    BY <2>1, OpFacts
  <2>4. epoch \in Nat /\ epoch >= 1
    BY <2>2, ManagerBounds
  <2> QED
    BY <2>1, <2>2, <2>3, <2>4
<1>n. Nobody.kind = "none"
  BY DEF Nobody
<1>1. CASE Restart
  BY <1>0, <1>1 DEF Restart
<1>2. CASE ~Restart
  <2>e. epoch = 1
    <3>1. CASE \E g \in Gens : Source(g) \/ PumpEnds(g) \/ Receives(g)
      BY <1>0, <3>1, PumpFacts
    <3>2. CASE ~\E g \in Gens : Source(g) \/ PumpEnds(g) \/ Receives(g)
      BY <1>2, <3>2 DEF Next, vars, Connect, ConnectCancelled, StartupConnect, Disconnect, DeleteProfile, Acquiring,
         AcquireOpening, AcquireOpened, AcquireFailed, Releasing, DisconnectReleased, DisconnectPersist, Age, Sweep,
         Sweeping, SweepStop, SweepLost, Close, Closing, CloseBegin, CloseLock, CloseStop, CloseJoin, CloseDone
    <3> QED
      BY <3>1, <3>2
  <2>0. /\ startup = {}
        /\ op.kind = "connect" /\ Saved(op.conn) => intent[op.conn] = "CONNECTED"
        /\ \A g \in Gens : port[g] = "open" /\ Saved(owner[g]) => intent[owner[g]] = "CONNECTED"
    BY <2>e DEF Recorded
  \* Steps that record nothing and open no port.
  <2>1. ASSUME UNCHANGED <<startup, owner, intent>>, \A g \in Gens : port'[g] = "open" => port[g] = "open",
               op'.kind = "connect" => op.kind = "connect" /\ op'.conn = op.conn
        PROVE  /\ startup' = {}
               /\ op'.kind = "connect" /\ Saved(op.conn)' => intent'[op'.conn] = "CONNECTED"
               /\ \A g \in Gens : port'[g] = "open" /\ Saved(owner[g])' => intent'[owner'[g]] = "CONNECTED"
    BY <2>0, <2>1 DEF Saved
  <2>2. ASSUME NEW c \in Conns, Connect(c)
        PROVE  /\ startup' = {}
               /\ op'.kind = "connect" /\ Saved(op.conn)' => intent'[op'.conn] = "CONNECTED"
               /\ \A g \in Gens : port'[g] = "open" /\ Saved(owner[g])' => intent'[owner'[g]] = "CONNECTED"
    <3>1. \A d \in Profiles : intent'[d] = intent[d] \/ intent'[d] = "CONNECTED"
      BY <1>0, <2>2 DEF Connect, IntentBeforeOpen
    <3>2. c \in Profiles => intent'[c] = "CONNECTED"
      BY <1>0, <2>2 DEF Connect, IntentBeforeOpen
    <3>3. op'.conn = c /\ startup' = startup /\ owner' = owner
      BY <2>2 DEF Connect, Acquire, Takes
    <3>4. \A g \in Gens : port'[g] = "open" => port[g] = "open"
      BY <1>0, <2>2, StopFacts DEF Connect, Acquire
    <3> QED
      BY <2>0, <3>1, <3>2, <3>3, <3>4 DEF Saved
  <2>3. ASSUME NEW c \in Conns, ConnectCancelled(c)
        PROVE  /\ startup' = {}
               /\ op'.kind = "connect" /\ Saved(op.conn)' => intent'[op'.conn] = "CONNECTED"
               /\ \A g \in Gens : port'[g] = "open" /\ Saved(owner[g])' => intent'[owner'[g]] = "CONNECTED"
    <3>1. \A d \in Profiles : intent'[d] = intent[d] \/ intent'[d] = "CONNECTED"
      BY <1>0, <2>3 DEF ConnectCancelled, IntentBeforeOpen
    <3>2. UNCHANGED <<op, startup, owner, port>>
      BY <2>3 DEF ConnectCancelled
    <3> QED
      BY <2>0, <3>1, <3>2 DEF Saved
  <2>4. ASSUME NEW c \in Conns, DeleteProfile(c)
        PROVE  /\ startup' = {}
               /\ op'.kind = "connect" /\ Saved(op.conn)' => intent'[op'.conn] = "CONNECTED"
               /\ \A g \in Gens : port'[g] = "open" /\ Saved(owner[g])' => intent'[owner'[g]] = "CONNECTED"
    <3>1. \A d \in Profiles : intent'[d] = intent[d] \/ intent'[d] = "DELETED"
      BY <1>0, <2>4 DEF DeleteProfile
    <3>2. UNCHANGED <<op, startup, owner, port>>
      BY <2>4 DEF DeleteProfile
    <3> QED
      BY <2>0, <3>1, <3>2 DEF Saved
  <2>5. ASSUME NEW c \in Conns, Disconnect(c)
        PROVE  /\ startup' = {}
               /\ op'.kind = "connect" /\ Saved(op.conn)' => intent'[op'.conn] = "CONNECTED"
               /\ \A g \in Gens : port'[g] = "open" /\ Saved(owner[g])' => intent'[owner'[g]] = "CONNECTED"
    <3>1. \A g \in Gens : port'[g] = "open" => port[g] = "open"
      BY <1>0, <2>5, StopFacts DEF Disconnect
    <3>2. op'.kind = "disconnect" /\ UNCHANGED <<startup, owner, intent>>
      BY <2>5 DEF Disconnect, Takes
    <3> QED
      BY <2>1, <3>1, <3>2
  <2>6. CASE \E c \in Conns : StartupConnect(c)
    BY <2>0, <2>6 DEF StartupConnect
  <2>7. CASE AcquireOpened
    <3>1. PICK g \in Gens : g = generation + 1
      BY <2>7, ManagerBounds DEF AcquireOpened, OneOwner, TypeOK, Gens
    <3>2. /\ owner'[g] = op.conn /\ \A h \in Gens \ {g} : owner'[h] = owner[h] /\ port'[h] = port[h]
          /\ op' = Nobody /\ op.kind = "connect" /\ UNCHANGED <<startup, intent>>
      BY <1>0, <2>7, <3>1 DEF AcquireOpened, Returns, TypeOK
    <3>3. ASSUME NEW h \in Gens, port'[h] = "open", Saved(owner[h])' PROVE intent'[owner'[h]] = "CONNECTED"
      <4>1. CASE h = g
        BY <2>0, <3>2, <3>3, <4>1 DEF Saved
      <4>2. CASE h # g
        BY <2>0, <3>2, <3>3, <4>2 DEF Saved
      <4> QED
        BY <4>1, <4>2
    <3> QED
      BY <1>n, <2>0, <3>2, <3>3
  <2>8. CASE DisconnectPersist
    <3>1. op.conn \in Conns /\ session[op.conn] = None
      BY <2>8 DEF DisconnectPersist, OpsOwn
    <3>2. \A g \in Gens : port[g] = "open" => owner[g] # op.conn
      BY <3>1, NoneIsNoGen DEF SessionsOwn
    <3>3. /\ op' = Nobody /\ UNCHANGED <<startup, owner, port>>
          /\ \A d \in Profiles : d # op.conn => intent'[d] = intent[d]
      BY <1>0, <2>8 DEF DisconnectPersist, Returns
    <3> QED
      BY <1>n, <2>0, <3>2, <3>3 DEF Saved
  <2>9. CASE SweepStop \/ CloseStop
    <3>1. PICK c \in op.todo : StopSession(c) /\ op' = [op EXCEPT !.conn = c, !.pc = "join", !.todo = @ \ {c}]
      BY <2>9 DEF SweepStop, CloseStop
    <3>2. c \in Conns /\ op'.kind = op.kind /\ op.kind # "connect"
      BY <1>0, <2>9, <3>1, OpFacts DEF Ops, SweepStop, CloseStop
    <3>3. \A g \in Gens : port'[g] = "open" => port[g] = "open"
      BY <1>0, <3>1, <3>2, StopFacts
    <3>4. UNCHANGED <<startup, owner, intent>>
      BY <2>9 DEF SweepStop, CloseStop
    <3> QED
      BY <2>1, <3>2, <3>3, <3>4
  <2>10. CASE \/ AcquireOpening \/ AcquireFailed \/ DisconnectReleased \/ Sweep \/ SweepLost \/ CloseLock \/ CloseJoin
    <3>1. UNCHANGED <<startup, owner, intent, port>>
      BY <2>10 DEF AcquireOpening, AcquireFailed, DisconnectReleased, Sweep, SweepLost, CloseLock, CloseJoin
    <3>2. \A p : [op EXCEPT !.pc = p].kind = op.kind /\ [op EXCEPT !.pc = p].conn = op.conn
      BY <1>0 DEF Ops
    <3>3. op' = op \/ (\E p : op' = [op EXCEPT !.pc = p]) \/ op'.kind # "connect"
      <4>1. CASE AcquireOpening \/ AcquireFailed
        BY <1>n, <4>1 DEF AcquireOpening, AcquireFailed, Returns
      <4>2. CASE DisconnectReleased
        BY <1>n, <4>2 DEF DisconnectReleased, Returns
      <4>3. CASE Sweep
        BY <1>n, <4>3 DEF Sweep
      <4>4. CASE SweepLost
        BY <1>n, <4>4 DEF SweepLost, Returns
      <4>5. CASE CloseLock \/ CloseJoin
        BY <1>n, <4>5 DEF CloseLock, CloseJoin, Returns
      <4> QED
        BY <2>10, <4>1, <4>2, <4>3, <4>4, <4>5
    <3> QED
      BY <2>1, <3>1, <3>2, <3>3
  <2>11. CASE UNCHANGED vars \/ Age \/ Close \/ CloseBegin \/ CloseDone
    <3>1. UNCHANGED <<startup, owner, intent, port, op>>
      BY <2>11 DEF vars, Age, Close, CloseBegin, CloseDone
    <3> QED
      BY <2>1, <3>1
  <2>12. CASE \E g \in Gens : Source(g) \/ PumpEnds(g) \/ Receives(g)
    <3>1. UNCHANGED <<startup, owner, intent, port, op>>
      BY <1>0, <2>12, PumpFacts
    <3> QED
      BY <2>1, <3>1
  <2> QED
    BY <1>2, <2>2, <2>3, <2>4, <2>5, <2>6, <2>7, <2>8, <2>9, <2>10, <2>11, <2>12
    DEF Next, Acquiring, Releasing, Sweeping, Closing
<1> QED
  BY <1>1, <1>2

-----------------------------------------------------------------------------
LEMMA InitManager == Init => ManagerInv
<1> SUFFICES ASSUME Init PROVE ManagerInv
  OBVIOUS
<1>1. OneOwner
  BY InitTypeOK DEF Init, OneOwner
<1>2. SessionsOwn /\ OpsOwn /\ Reached /\ Emptied /\ Told /\ Recorded
  BY DEF Init, SessionsOwn, OpsOwn, Reached, Emptied, Told, Recorded, Nobody
<1> QED
  BY <1>1, <1>2 DEF ManagerInv

LEMMA ManagerInvariant == Spec => []ManagerInv
<1>1. ManagerInv /\ [Next]_vars => ManagerInv'
  BY NextKeeps, NextTold, NextRecorded DEF ManagerInv
<1> QED
  BY InitManager, <1>1, PTL DEF Spec

\* A vehicle is shown under one connection, the one whose session heard it last
\* (observe), however frames, releases, the sweep and late events interleave.
THEOREM OneOwnerAlways == Spec => []OneOwner
<1>1. ManagerInv => OneOwner
  BY DEF ManagerInv
<1> QED
  BY <1>1, ManagerInvariant, PTL

\* WriteTo reaches only the port a connection holds now, and a late event of an old
\* session never revives a connection that was released or lost.
THEOREM StoppedIsSilentAlways == Spec => []StoppedIsSilent
<1>1. ManagerInv => StoppedIsSilent
  BY DEF ManagerInv, StoppedIsSilent, Reached, Emptied
<1> QED
  BY <1>1, ManagerInvariant, PTL

\* The close of a channel is the last the bridge hears of it, and a pump that has
\* returned has told the bridge, unless Close abandoned it.
THEOREM RetiredInOrderAlways == Spec => []RetiredInOrder
<1>1. ManagerInv => RetiredInOrder
  <2> SUFFICES ASSUME ManagerInv PROVE RetiredInOrder
    OBVIOUS
  <2>1. routes \subseteq Gens /\ Told
    BY DEF ManagerInv, OneOwner, TypeOK
  <2> QED
    BY <2>1 DEF Told, RetiredInOrder
<1> QED
  BY <1>1, ManagerInvariant, PTL

\* A profile whose port an operator has opened is remembered as connected, although
\* DeleteProfile runs without ops and the intent of a release may fail to be written.
THEOREM HeldIsRecordedAlways == Spec => []HeldIsRecorded
<1>1. ManagerInv => HeldIsRecorded
  BY DEF ManagerInv, Recorded, HeldIsRecorded
<1> QED
  BY <1>1, ManagerInvariant, PTL

=============================================================================
