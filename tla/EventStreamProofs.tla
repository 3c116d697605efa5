-------------------------- MODULE EventStreamProofs --------------------------
(***************************************************************************)
(* Proofs about EventStream for any number of pages, slots and vehicles    *)
(* and every headroom of a subscription.                                   *)
(*                                                                         *)
(* The thread of the argument: a subscription starts from one event for    *)
(* every retained slot (Snapshot) and is either given every later event or *)
(* closed, so that the last event about a slot in a queue the hub still    *)
(* serves is the one the hub retains.  A page that is away has every       *)
(* command it shows marked, and the mark goes only with a new one.         *)
(***************************************************************************)
EXTENDS EventStream, FiniteSetTheorems, TLAPS

Events == [of : Slots \cup Vehicles, value : 1..MaxPub]

\* A page without a subscription has nothing to read and marks what it shows.
Away ==
    \A b \in Browsers : sub[b] = "none" =>
        ~connected[b] /\ queue[b] = <<>> /\ StaleKeys(b) \subseteq stale[b]

\* The last command in a queue the hub serves is the last one published.
Sent ==
    \A b \in Browsers : sub[b] = "live" =>
        \A v \in Vehicles :
            (\E i \in DOMAIN queue[b] : queue[b][i].of = v) => EndsWith(queue[b], v, 0, command[v])

\* The inductive invariant.
StreamInv == InSync /\ HonestCommands /\ Away /\ Sent

-----------------------------------------------------------------------------
(* Queues. *)

LEMMA EventType ==
    ASSUME NEW of \in Slots \cup Vehicles, NEW value \in 1..MaxPub
    PROVE  /\ Event(of, value) \in Events
           /\ Event(of, value).of = of /\ Event(of, value).value = value
  BY DEF Event, Events

LEMMA ListedEvents ==
    ASSUME NEW n \in Nat, NEW f \in [1..n -> Events]
    PROVE  f \in Seq(Events)
  OBVIOUS

LEMMA AppendFacts ==
    ASSUME NEW q \in Seq(Events), NEW e \in Events
    PROVE  /\ Append(q, e) \in Seq(Events) /\ Len(Append(q, e)) = Len(q) + 1
           /\ DOMAIN Append(q, e) = 1..Len(q) + 1 /\ DOMAIN q = 1..Len(q) /\ Len(q) \in Nat
           /\ Append(q, e)[Len(q) + 1] = e
           /\ \A i \in 1..Len(q) : Append(q, e)[i] = q[i]
  OBVIOUS

LEMMA TailFacts ==
    ASSUME NEW q \in Seq(Events), q # <<>>
    PROVE  /\ Tail(q) \in Seq(Events) /\ Len(Tail(q)) = Len(q) - 1
           /\ DOMAIN Tail(q) = 1..Len(q) - 1 /\ DOMAIN q = 1..Len(q) /\ Len(q) \in Nat \ {0}
           /\ \A i \in 1..Len(q) - 1 : Tail(q)[i] = q[i + 1]
           /\ Head(q) = q[1] /\ Head(q) \in Events
  OBVIOUS

\* What was appended last is what a page ends with; an event about something else
\* changes nothing.
LEMMA AppendEnds ==
    ASSUME NEW q \in Seq(Events), NEW e \in Events
    PROVE  /\ \A now : EndsWith(Append(q, e), e.of, now, e.value)
           /\ \A of, now, value : of # e.of /\ EndsWith(q, of, now, value) => EndsWith(Append(q, e), of, now, value)
           /\ \A of : of # e.of /\ (\E i \in DOMAIN Append(q, e) : Append(q, e)[i].of = of)
                        => \E i \in DOMAIN q : q[i].of = of
<1>0. /\ DOMAIN Append(q, e) = 1..Len(q) + 1 /\ DOMAIN q = 1..Len(q) /\ Len(q) \in Nat
      /\ Append(q, e)[Len(q) + 1] = e
      /\ \A i \in 1..Len(q) : Append(q, e)[i] = q[i]
  BY AppendFacts
<1>1. ASSUME NEW now PROVE EndsWith(Append(q, e), e.of, now, e.value)
  <2>1. Len(q) + 1 \in {i \in DOMAIN Append(q, e) : Append(q, e)[i].of = e.of}
    BY <1>0
  <2>2. \A j \in {i \in DOMAIN Append(q, e) : Append(q, e)[i].of = e.of} : j <= Len(q) + 1
    BY <1>0
  <2> QED
    BY <1>0, <2>1, <2>2 DEF EndsWith
<1>2. ASSUME NEW of, NEW now, NEW value, of # e.of, EndsWith(q, of, now, value)
      PROVE  EndsWith(Append(q, e), of, now, value)
  <2>1. {i \in DOMAIN Append(q, e) : Append(q, e)[i].of = of} = {i \in DOMAIN q : q[i].of = of}
    BY <1>0, <1>2
  <2> QED
    BY <1>0, <1>2, <2>1 DEF EndsWith
<1>3. ASSUME NEW of, of # e.of, NEW i \in DOMAIN Append(q, e), Append(q, e)[i].of = of
      PROVE  \E j \in DOMAIN q : q[j].of = of
  BY <1>0, <1>3
<1> QED
  BY <1>1, <1>2, <1>3

\* Reading an event takes its value and leaves what the rest of the queue says.
LEMMA TailEnds ==
    ASSUME NEW q \in Seq(Events), q # <<>>, NEW of, NEW value
    PROVE  /\ \A now : Head(q).of = of /\ EndsWith(q, of, now, value) => EndsWith(Tail(q), of, Head(q).value, value)
           /\ \A now : Head(q).of # of /\ EndsWith(q, of, now, value) => EndsWith(Tail(q), of, now, value)
           /\ (\E i \in DOMAIN Tail(q) : Tail(q)[i].of = of) => \E i \in DOMAIN q : q[i].of = of
<1>0. /\ DOMAIN Tail(q) = 1..Len(q) - 1 /\ DOMAIN q = 1..Len(q) /\ Len(q) \in Nat \ {0}
      /\ \A i \in 1..Len(q) - 1 : Tail(q)[i] = q[i + 1]
      /\ Head(q) = q[1]
  BY TailFacts
<1> DEFINE about == {i \in DOMAIN q : q[i].of = of}
           rest  == {i \in DOMAIN Tail(q) : Tail(q)[i].of = of}
<1>1. /\ \A i \in rest : i + 1 \in about
      /\ \A i \in about : i # 1 => i - 1 \in rest
      /\ 1 \in about <=> Head(q).of = of
      /\ about \subseteq Nat /\ rest \subseteq Nat
  BY <1>0
<1>2. ASSUME NEW now, EndsWith(q, of, now, value), NEW i \in about,
             q[i].value = value, \A j \in about : j <= i, i # 1
      PROVE  \A x : EndsWith(Tail(q), of, x, value)
  <2>1. i - 1 \in rest /\ Tail(q)[i - 1].value = value
    BY <1>0, <1>1, <1>2
  <2>2. \A j \in rest : j <= i - 1
    BY <1>1, <1>2
  <2> QED
    BY <2>1, <2>2 DEF EndsWith
<1>3. ASSUME NEW now, Head(q).of = of, EndsWith(q, of, now, value)
      PROVE  EndsWith(Tail(q), of, Head(q).value, value)
  <2>1. PICK i \in about : q[i].value = value /\ \A j \in about : j <= i
    BY <1>1, <1>3 DEF EndsWith
  <2>2. CASE i # 1
    BY <1>2, <1>3, <2>1, <2>2
  <2>3. CASE i = 1
    <3>1. rest = {}
      BY <1>1, <2>1, <2>3
    <3> QED
      BY <1>0, <2>1, <2>3, <3>1 DEF EndsWith
  <2> QED
    BY <2>2, <2>3
<1>4. ASSUME NEW now, Head(q).of # of, EndsWith(q, of, now, value)
      PROVE  EndsWith(Tail(q), of, now, value)
  <2>1. CASE about = {} /\ now = value
    BY <1>1, <2>1 DEF EndsWith
  <2>2. CASE \E i \in about : q[i].value = value /\ \A j \in about : j <= i
    BY <1>1, <1>2, <1>4, <2>2
  <2> QED
    BY <1>4, <2>1, <2>2 DEF EndsWith
<1>5. (\E i \in DOMAIN Tail(q) : Tail(q)[i].of = of) => \E i \in DOMAIN q : q[i].of = of
  BY <1>1
<1> QED
  BY <1>3, <1>4, <1>5

\* With an event about it in the queue, what the page has now does not matter.
LEMMA NowIsMoot ==
    ASSUME NEW q, NEW of, NEW now, NEW later, NEW value, EndsWith(q, of, now, value),
           \E i \in DOMAIN q : q[i].of = of
    PROVE  EndsWith(q, of, later, value)
  BY DEF EndsWith

\* The bootstrap has one event for every slot that is retained, and nothing else.
LEMMA SnapshotFacts ==
    ASSUME TypeOK
    PROVE  /\ Snapshot \in Seq(Events)
           /\ \A i \in DOMAIN Snapshot : Snapshot[i].of \in Slots
           /\ \A s \in Slots : retained[s] # 0 => \A now : EndsWith(Snapshot, s, now, retained[s])
<1> DEFINE held == {s \in Slots : retained[s] # 0}
           present == SetToSeq(held)
           n == Cardinality(held)
<1>1. IsFiniteSet(held) /\ n \in Nat
  BY StreamAssumption, FS_Subset, FS_CardinalityType
<1>2. \E f \in [1..n -> held] : IsInjective(f)
  <2>1. ExistsBijection(1..n, held)
    BY <1>1, FS_CardinalityType
  <2> QED
    BY <2>1 DEF ExistsBijection, Bijection, Injection, IsInjective
<1>3. present \in [1..n -> held] /\ IsInjective(present)
  BY <1>2 DEF SetToSeq
<1>4. present \in Surjection(1..n, held)
  <2>1. Cardinality(1..n) = n
    BY <1>1, FS_Interval
  <2>2. present \in Injection(1..n, held)
    BY <1>3 DEF Injection
  <2> QED
    BY <1>1, <2>1, <2>2, FS_Injection
<1>5. /\ DOMAIN Snapshot = 1..n
      /\ \A i \in 1..n : Snapshot[i] = Event(present[i], retained[present[i]])
  BY <1>3 DEF Snapshot, SnapshotOf
<1>6. \A i \in 1..n : /\ Snapshot[i] \in Events /\ Snapshot[i].of = present[i]
                      /\ Snapshot[i].value = retained[present[i]] /\ present[i] \in Slots
  <2> TAKE i \in 1..n
  <2>1. present[i] \in Slots /\ retained[present[i]] # 0
    BY <1>3
  <2>2. retained[present[i]] \in 1..MaxPub
    BY <2>1, StreamBounds DEF TypeOK
  <2> QED
    BY <1>5, <2>1, <2>2, EventType
<1>7. Snapshot \in Seq(Events)
  <2>1. Snapshot = [i \in 1..n |-> Event(present[i], retained[present[i]])]
    BY <1>3 DEF Snapshot, SnapshotOf
  <2>2. \A i \in 1..n : Event(present[i], retained[present[i]]) \in Events
    BY <1>5, <1>6
  <2>3. Snapshot \in [1..n -> Events]
    BY <2>1, <2>2
  <2> QED
    BY <1>1, <2>3, ListedEvents
<1>8. ASSUME NEW s \in Slots, retained[s] # 0, NEW now PROVE EndsWith(Snapshot, s, now, retained[s])
  <2>1. PICK i \in 1..n : present[i] = s
    BY <1>4, <1>8 DEF Surjection
  <2>2. \A j \in DOMAIN Snapshot : Snapshot[j].of = s <=> j = i
    <3> TAKE j \in DOMAIN Snapshot
    <3>1. j \in 1..n /\ Snapshot[j].of = present[j]
      BY <1>5, <1>6
    <3>2. present[j] = present[i] => j = i
      BY <1>3, <3>1 DEF IsInjective
    <3> QED
      BY <2>1, <3>1, <3>2
  <2>3. {j \in DOMAIN Snapshot : Snapshot[j].of = s} = {i}
    BY <1>5, <2>2
  <2> QED
    BY <1>1, <1>6, <2>1, <2>3 DEF EndsWith
<1> QED
  BY <1>5, <1>6, <1>7, <1>8

-----------------------------------------------------------------------------
(* The steps of the hub. *)

\* A delivery: a subscriber the hub still serves has the event at the end of its queue.
LEMMA Delivery ==
    ASSUME TypeOK, NEW e \in Events, Delivered(e)
    PROVE  /\ queue' \in [Browsers -> Seq(Events)] /\ capacity' = capacity
           /\ sub' \in [Browsers -> {"none", "live", "closed"}]
           /\ \A b \in Browsers :
                 /\ Len(queue'[b]) <= capacity'[b]
                 /\ sub'[b] = "live" => sub[b] = "live" /\ queue'[b] = Append(queue[b], e)
                 /\ sub'[b] = "none" <=> sub[b] = "none"
                 /\ sub'[b] = "none" => queue'[b] = queue[b]
                 /\ sub[b] = "closed" => sub'[b] = "closed"
<1>0. /\ queue \in [Browsers -> Seq(Events)] /\ sub \in [Browsers -> {"none", "live", "closed"}]
      /\ capacity \in [Browsers -> Nat] /\ \A b \in Browsers : Len(queue[b]) <= capacity[b]
  BY DEF TypeOK, Events
<1>1. /\ capacity' = capacity
      /\ queue' = [b \in Browsers |-> IF sub[b] = "live" /\ ~Full(b) THEN Append(queue[b], e) ELSE queue[b]]
      /\ sub' = [b \in Browsers |-> IF sub[b] = "live" /\ Full(b) THEN "closed" ELSE sub[b]]
  BY DEF Delivered, Dropped
<1>2. ASSUME NEW b \in Browsers
      PROVE  /\ queue'[b] \in Seq(Events) /\ Len(queue'[b]) <= capacity[b]
             /\ sub'[b] \in {"none", "live", "closed"}
             /\ sub'[b] = "live" => sub[b] = "live" /\ queue'[b] = Append(queue[b], e)
             /\ sub'[b] = "none" <=> sub[b] = "none"
             /\ sub'[b] = "none" => queue'[b] = queue[b]
             /\ sub[b] = "closed" => sub'[b] = "closed"
  <2>1. /\ Append(queue[b], e) \in Seq(Events) /\ Len(Append(queue[b], e)) = Len(queue[b]) + 1
        /\ Len(queue[b]) \in Nat /\ capacity[b] \in Nat
    BY <1>0, AppendFacts
  <2>2. CASE sub[b] = "live" /\ Full(b)
    BY <1>0, <1>1, <2>2
  <2>3. CASE sub[b] = "live" /\ ~Full(b)
    <3>1. Len(queue[b]) < capacity[b]
      BY <2>1, <2>3 DEF Full
    <3> QED
      BY <1>0, <1>1, <2>1, <2>3, <3>1
  <2>4. CASE sub[b] # "live"
    BY <1>0, <1>1, <2>4
  <2> QED
    BY <2>2, <2>3, <2>4
<1> QED
  BY <1>1, <1>2

LEMMA PublishKeeps ==
    ASSUME StreamInv, NEW s \in Slots, Publish(s)
    PROVE  StreamInv'
<1> DEFINE e == Event(s, pub + 1)
<1>t. TypeOK
  BY DEF StreamInv, InSync
<1>0. /\ pub' = pub + 1 /\ pub < MaxPub
      /\ retained' = [retained EXCEPT ![s] = pub + 1]
      /\ command' = command /\ connected' = connected /\ view' = view /\ shown' = shown /\ stale' = stale
      /\ losses' = losses /\ epoch' = epoch /\ Delivered(e)
  BY DEF Publish, page
<1>p. pub' \in 0..MaxPub /\ pub + 1 \in 1..MaxPub
  BY <1>0, <1>t, StreamBounds DEF TypeOK
<1>1. e \in Events /\ e.of = s /\ e.value = pub + 1
  BY <1>p, EventType
<1> HIDE DEF e
<1>2. /\ queue' \in [Browsers -> Seq(Events)] /\ capacity' = capacity
      /\ sub' \in [Browsers -> {"none", "live", "closed"}]
      /\ \A b \in Browsers :
            /\ Len(queue'[b]) <= capacity'[b]
            /\ sub'[b] = "live" => sub[b] = "live" /\ queue'[b] = Append(queue[b], e)
            /\ sub'[b] = "none" <=> sub[b] = "none"
            /\ sub'[b] = "none" => queue'[b] = queue[b]
            /\ sub[b] = "closed" => sub'[b] = "closed"
  BY <1>0, <1>1, <1>t, Delivery
<1>v. retained' \in [Slots -> 0..MaxPub] /\ retained'[s] = pub + 1 /\ \A o \in Slots : o # s => retained'[o] = retained[o]
  BY <1>0, <1>p, <1>t, StreamBounds DEF TypeOK
<1>3. TypeOK'
  BY <1>0, <1>2, <1>p, <1>t, <1>v DEF TypeOK, Events
<1>4. ASSUME NEW b \in Browsers, sub'[b] = "live", NEW t \in Slots, retained'[t] # 0
      PROVE  EndsWith(queue'[b], t, view'[b][t], retained'[t])
  <2>1. queue[b] \in Seq(Events) /\ sub[b] = "live" /\ queue'[b] = Append(queue[b], e)
    BY <1>t, <1>0, <1>2, <1>4 DEF TypeOK, Events
  <2>2. CASE t = s
    <3>1. EndsWith(Append(queue[b], e), e.of, view'[b][t], e.value)
      BY <1>1, <2>1, AppendEnds
    <3>2. e.of = t /\ e.value = retained'[t]
      BY <1>1, <1>v, <2>2
    <3> QED
      BY <2>1, <3>1, <3>2
  <2>3. CASE t # s
    <3>1. retained'[t] = retained[t] /\ EndsWith(queue[b], t, view[b][t], retained[t])
      BY <1>0, <1>4, <1>v, <2>1, <2>3 DEF StreamInv, InSync
    <3> QED
      BY <1>0, <1>1, <2>1, <2>3, <3>1, AppendEnds
  <2> QED
    BY <2>2, <2>3
<1>5. \A v \in Vehicles : v # s
  BY StreamAssumption
<1>6. ASSUME NEW b \in Browsers, sub'[b] # "closed", NEW v \in Vehicles, shown'[b][v] # 0
      PROVE  v \in stale'[b] \/ EndsWith(queue'[b], v, shown'[b][v], command'[v])
  <2>1. queue[b] \in Seq(Events) /\ sub[b] # "closed"
    BY <1>t, <1>0, <1>2, <1>6 DEF TypeOK, Events
  <2>2. v \in stale[b] \/ EndsWith(queue[b], v, shown[b][v], command[v])
    BY <1>0, <1>6, <2>1 DEF StreamInv, HonestCommands
  <2>3. queue'[b] = Append(queue[b], e) \/ queue'[b] = queue[b]
    BY <1>2, <1>6
  <2>4. CASE v \in stale[b]
    BY <1>0, <2>4
  <2>5. CASE EndsWith(queue[b], v, shown[b][v], command[v])
    <3>1. EndsWith(Append(queue[b], e), v, shown[b][v], command[v])
      BY <1>1, <1>5, <2>1, <2>5, AppendEnds
    <3> QED
      BY <1>0, <2>3, <2>5, <3>1
  <2> QED
    BY <2>2, <2>4, <2>5
<1>7. Away'
  BY <1>0, <1>2 DEF StreamInv, Away, StaleKeys
<1>8. ASSUME NEW b \in Browsers, sub'[b] = "live", NEW v \in Vehicles,
             \E i \in DOMAIN queue'[b] : queue'[b][i].of = v
      PROVE  EndsWith(queue'[b], v, 0, command'[v])
  <2>1. queue[b] \in Seq(Events) /\ sub[b] = "live" /\ queue'[b] = Append(queue[b], e)
    BY <1>t, <1>0, <1>2, <1>8 DEF TypeOK, Events
  <2>2. EndsWith(queue[b], v, 0, command[v])
    BY <1>1, <1>5, <1>8, <2>1, AppendEnds DEF StreamInv, Sent
  <2> QED
    BY <1>0, <1>1, <1>5, <2>1, <2>2, AppendEnds
<1> QED
  BY <1>3, <1>4, <1>6, <1>7, <1>8 DEF StreamInv, InSync, HonestCommands, Sent

LEMMA PublishCommandKeeps ==
    ASSUME StreamInv, NEW u \in Vehicles, PublishCommand(u)
    PROVE  StreamInv'
<1> DEFINE e == Event(u, pub + 1)
<1>t. TypeOK
  BY DEF StreamInv, InSync
<1>0. /\ pub' = pub + 1 /\ pub < MaxPub
      /\ command' = [command EXCEPT ![u] = pub + 1]
      /\ retained' = retained /\ connected' = connected /\ view' = view /\ shown' = shown /\ stale' = stale
      /\ losses' = losses /\ epoch' = epoch /\ Delivered(e)
  BY DEF PublishCommand, page
<1>p. pub' \in 0..MaxPub /\ pub + 1 \in 1..MaxPub
  BY <1>0, <1>t, StreamBounds DEF TypeOK
<1>1. e \in Events /\ e.of = u /\ e.value = pub + 1
  BY <1>p, EventType
<1> HIDE DEF e
<1>2. /\ queue' \in [Browsers -> Seq(Events)] /\ capacity' = capacity
      /\ sub' \in [Browsers -> {"none", "live", "closed"}]
      /\ \A b \in Browsers :
            /\ Len(queue'[b]) <= capacity'[b]
            /\ sub'[b] = "live" => sub[b] = "live" /\ queue'[b] = Append(queue[b], e)
            /\ sub'[b] = "none" <=> sub[b] = "none"
            /\ sub'[b] = "none" => queue'[b] = queue[b]
            /\ sub[b] = "closed" => sub'[b] = "closed"
  BY <1>0, <1>1, <1>t, Delivery
<1>v. command' \in [Vehicles -> 0..MaxPub] /\ command'[u] = pub + 1 /\ \A o \in Vehicles : o # u => command'[o] = command[o]
  BY <1>0, <1>p, <1>t, StreamBounds DEF TypeOK
<1>3. TypeOK'
  BY <1>0, <1>2, <1>p, <1>t, <1>v DEF TypeOK, Events
<1>4. ASSUME NEW b \in Browsers, sub'[b] = "live", NEW t \in Slots, retained'[t] # 0
      PROVE  EndsWith(queue'[b], t, view'[b][t], retained'[t])
  <2>1. queue[b] \in Seq(Events) /\ sub[b] = "live" /\ queue'[b] = Append(queue[b], e)
    BY <1>t, <1>0, <1>2, <1>4 DEF TypeOK, Events
  <2>2. t # u /\ EndsWith(queue[b], t, view[b][t], retained[t])
    BY <1>0, <1>4, <2>1, StreamAssumption DEF StreamInv, InSync
  <2> QED
    BY <1>0, <1>1, <2>1, <2>2, AppendEnds
<1>5. ASSUME NEW b \in Browsers, sub[b] = "live", sub'[b] = "live", NEW v \in Vehicles, NEW now,
             EndsWith(queue[b], v, now, command[v]) \/ v = u
      PROVE  EndsWith(queue'[b], v, now, command'[v])
  <2>1. queue[b] \in Seq(Events) /\ queue'[b] = Append(queue[b], e)
    BY <1>t, <1>0, <1>2, <1>5 DEF TypeOK, Events
  <2>2. CASE v = u
    <3>1. EndsWith(Append(queue[b], e), e.of, now, e.value)
      BY <1>1, <2>1, AppendEnds
    <3>2. e.of = v /\ e.value = command'[v]
      BY <1>1, <1>v, <2>2
    <3> QED
      BY <2>1, <3>1, <3>2
  <2>3. CASE v # u
    <3>1. command'[v] = command[v]
      BY <1>v, <2>3
    <3> QED
      BY <1>1, <1>5, <2>1, <2>3, <3>1, AppendEnds
  <2> QED
    BY <2>2, <2>3
<1>6. ASSUME NEW b \in Browsers, sub'[b] # "closed", NEW v \in Vehicles, shown'[b][v] # 0
      PROVE  v \in stale'[b] \/ EndsWith(queue'[b], v, shown'[b][v], command'[v])
  <2>1. CASE sub'[b] = "live"
    <3>1. sub[b] = "live" /\ (v \in stale[b] \/ EndsWith(queue[b], v, shown[b][v], command[v]))
      BY <1>0, <1>2, <1>6, <2>1 DEF StreamInv, HonestCommands
    <3> QED
      BY <1>0, <1>5, <2>1, <3>1
  <2>2. CASE sub'[b] = "none"
    BY <1>0, <1>2, <1>6, <2>2 DEF StreamInv, Away, StaleKeys
  <2> QED
    BY <1>2, <1>6, <2>1, <2>2
<1>7. Away'
  BY <1>0, <1>2 DEF StreamInv, Away, StaleKeys
<1>8. ASSUME NEW b \in Browsers, sub'[b] = "live", NEW v \in Vehicles,
             \E i \in DOMAIN queue'[b] : queue'[b][i].of = v
      PROVE  EndsWith(queue'[b], v, 0, command'[v])
  <2>1. queue[b] \in Seq(Events) /\ sub[b] = "live" /\ queue'[b] = Append(queue[b], e)
    BY <1>t, <1>0, <1>2, <1>8 DEF TypeOK, Events
  <2>2. v = u \/ EndsWith(queue[b], v, 0, command[v])
    BY <1>1, <1>8, <2>1, AppendEnds DEF StreamInv, Sent
  <2> QED
    BY <1>5, <1>8, <2>1, <2>2
<1> QED
  BY <1>3, <1>4, <1>6, <1>7, <1>8 DEF StreamInv, InSync, HonestCommands, Sent

LEMMA SubscribeKeeps ==
    ASSUME StreamInv, NEW a \in Browsers, Subscribe(a)
    PROVE  StreamInv'
<1>t. TypeOK
  BY DEF StreamInv, InSync
<1>0. /\ sub[a] = "none" /\ ~connected[a]
      /\ sub' = [sub EXCEPT ![a] = "live"] /\ queue' = [queue EXCEPT ![a] = Snapshot]
      /\ capacity' = [capacity EXCEPT ![a] = Len(Snapshot) + Queue]
      /\ pub' = pub /\ retained' = retained /\ command' = command /\ connected' = connected
      /\ view' = view /\ shown' = shown /\ stale' = stale /\ losses' = losses /\ epoch' = epoch
  BY DEF Subscribe, hub, page
<1>1. /\ Snapshot \in Seq(Events)
      /\ \A i \in DOMAIN Snapshot : Snapshot[i].of \in Slots
      /\ \A s \in Slots : retained[s] # 0 => \A now : EndsWith(Snapshot, s, now, retained[s])
  BY <1>t, SnapshotFacts
<1>2. Len(Snapshot) \in Nat /\ Len(Snapshot) + Queue \in Nat /\ Len(Snapshot) <= Len(Snapshot) + Queue
  BY <1>1, QueueAssumption
<1>3. /\ queue' \in [Browsers -> Seq(Events)] /\ capacity' \in [Browsers -> Nat]
      /\ sub' \in [Browsers -> {"none", "live", "closed"}]
      /\ sub'[a] = "live" /\ queue'[a] = Snapshot /\ capacity'[a] = Len(Snapshot) + Queue
      /\ \A b \in Browsers : b # a => sub'[b] = sub[b] /\ queue'[b] = queue[b] /\ capacity'[b] = capacity[b]
  BY <1>0, <1>1, <1>2, <1>t DEF TypeOK, Events
<1>4. \A b \in Browsers : Len(queue'[b]) <= capacity'[b]
  BY <1>2, <1>3, <1>t DEF TypeOK
<1>5. TypeOK'
  BY <1>0, <1>3, <1>4, <1>t DEF TypeOK, Events
<1>6. ASSUME NEW b \in Browsers, sub'[b] = "live", NEW s \in Slots, retained'[s] # 0
      PROVE  EndsWith(queue'[b], s, view'[b][s], retained'[s])
  <2>1. CASE b = a
    BY <1>0, <1>1, <1>3, <1>6, <2>1
  <2>2. CASE b # a
    BY <1>0, <1>3, <1>6, <2>2 DEF StreamInv, InSync
  <2> QED
    BY <2>1, <2>2
<1>7. ASSUME NEW b \in Browsers, sub'[b] # "closed", NEW v \in Vehicles, shown'[b][v] # 0
      PROVE  v \in stale'[b] \/ EndsWith(queue'[b], v, shown'[b][v], command'[v])
  <2>1. CASE b = a
    BY <1>0, <1>7, <2>1 DEF StreamInv, Away, StaleKeys
  <2>2. CASE b # a
    BY <1>0, <1>3, <1>7, <2>2 DEF StreamInv, HonestCommands
  <2> QED
    BY <2>1, <2>2
<1>8. Away'
  BY <1>0, <1>3 DEF StreamInv, Away, StaleKeys
<1>9. ASSUME NEW b \in Browsers, sub'[b] = "live", NEW v \in Vehicles,
             NEW i \in DOMAIN queue'[b], queue'[b][i].of = v
      PROVE  EndsWith(queue'[b], v, 0, command'[v])
  <2>1. b # a
    BY <1>1, <1>3, <1>9, StreamAssumption
  <2> QED
    BY <1>0, <1>3, <1>9, <2>1 DEF StreamInv, Sent
<1> QED
  BY <1>5, <1>6, <1>7, <1>8, <1>9 DEF StreamInv, InSync, HonestCommands, Sent

-----------------------------------------------------------------------------
(* The steps of a page, and the failures. *)

LEMMA OpenKeeps ==
    ASSUME StreamInv, NEW a \in Browsers, Open(a)
    PROVE  StreamInv'
<1>t. TypeOK
  BY DEF StreamInv, InSync
<1>0. /\ sub[a] # "none" /\ connected' = [connected EXCEPT ![a] = TRUE]
      /\ pub' = pub /\ retained' = retained /\ command' = command
      /\ sub' = sub /\ queue' = queue /\ capacity' = capacity
      /\ view' = view /\ shown' = shown /\ stale' = stale /\ losses' = losses /\ epoch' = epoch
  BY DEF Open, hub, subscription
<1>1. TypeOK'
  BY <1>0, <1>t DEF TypeOK
<1>2. InSync' /\ HonestCommands' /\ Sent'
  BY <1>0, <1>1 DEF StreamInv, InSync, HonestCommands, Sent
<1>3. Away'
  BY <1>0, <1>t DEF StreamInv, Away, StaleKeys, TypeOK
<1> QED
  BY <1>2, <1>3 DEF StreamInv

\* One entry of one page's fold.
LEMMA SetEntry ==
    ASSUME NEW S, NEW f \in [Browsers -> [S -> 0..MaxPub]], NEW a \in Browsers, NEW x \in S, NEW y \in 0..MaxPub
    PROVE  LET g == [f EXCEPT ![a][x] = y] IN
           /\ g \in [Browsers -> [S -> 0..MaxPub]] /\ g[a][x] = y
           /\ \A b \in Browsers : b # a => g[b] = f[b]
           /\ \A z \in S : z # x => g[a][z] = f[a][z]
  OBVIOUS

LEMMA ReceiveKeeps ==
    ASSUME StreamInv, NEW a \in Browsers, Receive(a)
    PROVE  StreamInv'
<1> DEFINE q == queue[a]
           e == Head(q)
<1>t. TypeOK
  BY DEF StreamInv, InSync
<1>0. /\ connected[a] /\ q # <<>> /\ queue' = [queue EXCEPT ![a] = Tail(q)]
      /\ \/ /\ e.of \in Slots /\ view' = [view EXCEPT ![a][e.of] = e.value]
            /\ shown' = shown /\ stale' = stale
         \/ /\ e.of \notin Slots /\ view' = view /\ shown' = [shown EXCEPT ![a][e.of] = e.value]
            /\ stale' = [stale EXCEPT ![a] = @ \ {e.of}]
      /\ pub' = pub /\ retained' = retained /\ command' = command
      /\ sub' = sub /\ capacity' = capacity /\ connected' = connected
      /\ losses' = losses /\ epoch' = epoch
  BY DEF Receive, hub
<1>1. q \in Seq(Events) /\ capacity[a] \in Nat /\ Len(q) <= capacity[a]
  BY <1>t DEF TypeOK, Events
<1>2. /\ Tail(q) \in Seq(Events) /\ Len(Tail(q)) <= capacity[a] /\ e \in Events
      /\ e.of \in Slots \cup Vehicles /\ e.value \in 1..MaxPub /\ e.value \in 0..MaxPub
  <2>1. Tail(q) \in Seq(Events) /\ Len(Tail(q)) = Len(q) - 1 /\ Len(q) \in Nat \ {0} /\ e \in Events
    BY <1>0, <1>1, TailFacts
  <2>2. e.of \in Slots \cup Vehicles /\ e.value \in 1..MaxPub
    BY <2>1 DEF Events
  <2> QED
    BY <1>1, <2>1, <2>2, StreamBounds
<1>3. /\ queue' \in [Browsers -> Seq(Events)] /\ queue'[a] = Tail(q)
      /\ \A b \in Browsers : b # a => queue'[b] = queue[b]
      /\ \A b \in Browsers : Len(queue'[b]) <= capacity'[b]
  BY <1>0, <1>2, <1>t DEF TypeOK, Events
<1>4. /\ view' \in [Browsers -> [Slots -> 0..MaxPub]]
      /\ \A b \in Browsers : b # a => view'[b] = view[b]
      /\ \A s \in Slots : view'[a][s] = IF s = e.of THEN e.value ELSE view[a][s]
  <2>1. CASE e.of \in Slots
    <3>1. view \in [Browsers -> [Slots -> 0..MaxPub]] /\ view' = [view EXCEPT ![a][e.of] = e.value]
      BY <1>0, <1>t, <2>1 DEF TypeOK
    <3>2. /\ view' \in [Browsers -> [Slots -> 0..MaxPub]] /\ view'[a][e.of] = e.value
          /\ \A b \in Browsers : b # a => view'[b] = view[b]
          /\ \A s \in Slots : s # e.of => view'[a][s] = view[a][s]
      BY <1>2, <2>1, <3>1, SetEntry
    <3> QED
      BY <3>2
  <2>2. CASE e.of \notin Slots
    BY <1>0, <1>t, <2>2 DEF TypeOK
  <2> QED
    BY <2>1, <2>2
<1>5. /\ shown' \in [Browsers -> [Vehicles -> 0..MaxPub]] /\ stale' \in [Browsers -> SUBSET Vehicles]
      /\ \A b \in Browsers : b # a => shown'[b] = shown[b] /\ stale'[b] = stale[b]
      /\ \A v \in Vehicles : v # e.of => shown'[a][v] = shown[a][v] /\ (v \in stale'[a] <=> v \in stale[a])
      /\ e.of \in Vehicles => shown'[a][e.of] = e.value
  <2>1. CASE e.of \in Slots
    BY <1>0, <1>t, <2>1, StreamAssumption DEF TypeOK
  <2>2. CASE e.of \notin Slots
    <3>1. e.of \in Vehicles /\ shown \in [Browsers -> [Vehicles -> 0..MaxPub]]
      BY <1>2, <1>t, <2>2 DEF TypeOK
    <3>2. /\ shown' \in [Browsers -> [Vehicles -> 0..MaxPub]] /\ shown'[a][e.of] = e.value
          /\ \A b \in Browsers : b # a => shown'[b] = shown[b]
          /\ \A v \in Vehicles : v # e.of => shown'[a][v] = shown[a][v]
      BY <1>0, <1>2, <2>2, <3>1, SetEntry
    <3>3. /\ stale' \in [Browsers -> SUBSET Vehicles] /\ stale'[a] = stale[a] \ {e.of}
          /\ \A b \in Browsers : b # a => stale'[b] = stale[b]
      <4>1. stale \in [Browsers -> SUBSET Vehicles] /\ stale' = [stale EXCEPT ![a] = stale[a] \ {e.of}]
        BY <1>0, <1>t, <2>2 DEF TypeOK
      <4>2. stale[a] \ {e.of} \in SUBSET Vehicles
        BY <4>1
      <4> QED
        BY <4>1, <4>2
    <3> QED
      BY <3>2, <3>3
  <2> QED
    BY <2>1, <2>2
<1>6. TypeOK'
  BY <1>0, <1>3, <1>4, <1>5, <1>t DEF TypeOK, Events
<1>7. sub[a] # "none"
  BY <1>0 DEF StreamInv, Away
<1>8. ASSUME NEW b \in Browsers, sub'[b] = "live", NEW s \in Slots, retained'[s] # 0
      PROVE  EndsWith(queue'[b], s, view'[b][s], retained'[s])
  <2>0. EndsWith(queue[b], s, view[b][s], retained[s])
    BY <1>0, <1>8 DEF StreamInv, InSync
  <2>1. CASE b = a
    <3>1. CASE s = e.of
      BY <1>0, <1>1, <1>3, <1>4, <2>0, <2>1, <3>1, TailEnds
    <3>2. CASE s # e.of
      BY <1>0, <1>1, <1>3, <1>4, <2>0, <2>1, <3>2, TailEnds
    <3> QED
      BY <3>1, <3>2
  <2>2. CASE b # a
    BY <1>0, <1>3, <1>4, <2>0, <2>2
  <2> QED
    BY <2>1, <2>2
<1>9. ASSUME NEW b \in Browsers, sub'[b] # "closed", NEW v \in Vehicles, shown'[b][v] # 0
      PROVE  v \in stale'[b] \/ EndsWith(queue'[b], v, shown'[b][v], command'[v])
  <2>1. CASE b = a /\ v = e.of
    <3>1. sub[a] = "live"
      BY <1>0, <1>7, <1>9, <1>t, <2>1 DEF TypeOK
    <3>2. 1 \in DOMAIN q /\ q[1].of = v
      BY <1>0, <1>1, <2>1, TailFacts
    <3>3. EndsWith(q, v, 0, command[v])
      BY <3>1, <3>2 DEF StreamInv, Sent
    <3>4. EndsWith(Tail(q), v, e.value, command[v])
      BY <1>0, <1>1, <2>1, <3>3, TailEnds
    <3> QED
      BY <1>0, <1>3, <1>5, <2>1, <3>4
  <2>2. CASE b = a /\ v # e.of
    <3>1. v \in stale[a] \/ EndsWith(q, v, shown[a][v], command[v])
      BY <1>0, <1>5, <1>9, <2>2 DEF StreamInv, HonestCommands
    <3>2. EndsWith(q, v, shown[a][v], command[v]) => EndsWith(Tail(q), v, shown[a][v], command[v])
      BY <1>0, <1>1, <2>2, TailEnds
    <3> QED
      BY <1>0, <1>3, <1>5, <2>2, <3>1, <3>2
  <2>3. CASE b # a
    BY <1>0, <1>3, <1>5, <1>9, <2>3 DEF StreamInv, HonestCommands
  <2> QED
    BY <2>1, <2>2, <2>3
<1>10. Away'
  BY <1>0, <1>3, <1>5, <1>7 DEF StreamInv, Away, StaleKeys
<1>11. ASSUME NEW b \in Browsers, sub'[b] = "live", NEW v \in Vehicles,
              \E i \in DOMAIN queue'[b] : queue'[b][i].of = v
       PROVE  EndsWith(queue'[b], v, 0, command'[v])
  <2>1. CASE b = a
    <3>1. EndsWith(q, v, 0, command[v])
      BY <1>0, <1>1, <1>3, <1>11, <2>1, TailEnds DEF StreamInv, Sent
    <3>2. \E now : EndsWith(Tail(q), v, now, command[v])
      BY <1>0, <1>1, <3>1, TailEnds
    <3> QED
      BY <1>0, <1>3, <1>11, <2>1, <3>2, NowIsMoot
  <2>2. CASE b # a
    BY <1>0, <1>3, <1>11, <2>2 DEF StreamInv, Sent
  <2> QED
    BY <2>1, <2>2
<1> QED
  BY <1>6, <1>8, <1>9, <1>10, <1>11 DEF StreamInv, InSync, HonestCommands, Sent

\* A page that is disconnected, by the hub, the network or the end of the backend.
LEMMA DisconnectedKeeps ==
    ASSUME StreamInv, NEW a \in Browsers, Disconnected(a), losses' \in 0..MaxLoss, epoch' = epoch
    PROVE  StreamInv'
<1>t. TypeOK
  BY DEF StreamInv, InSync
<1>0. /\ connected' = [connected EXCEPT ![a] = FALSE] /\ stale' = [stale EXCEPT ![a] = StaleKeys(a)]
      /\ sub' = [sub EXCEPT ![a] = "none"] /\ queue' = [queue EXCEPT ![a] = <<>>]
      /\ pub' = pub /\ retained' = retained /\ command' = command /\ capacity' = capacity
      /\ view' = view /\ shown' = shown
  BY DEF Disconnected, hub
<1>1. StaleKeys(a) \subseteq Vehicles /\ <<>> \in Seq(Events) /\ Len(<<>>) = 0
  BY DEF StaleKeys
<1>2. /\ connected' \in [Browsers -> BOOLEAN] /\ stale' \in [Browsers -> SUBSET Vehicles]
      /\ sub' \in [Browsers -> {"none", "live", "closed"}] /\ queue' \in [Browsers -> Seq(Events)]
      /\ ~connected'[a] /\ stale'[a] = StaleKeys(a) /\ sub'[a] = "none" /\ queue'[a] = <<>>
      /\ \A b \in Browsers : b # a => /\ connected'[b] = connected[b] /\ stale'[b] = stale[b]
                                      /\ sub'[b] = sub[b] /\ queue'[b] = queue[b]
  BY <1>0, <1>1, <1>t DEF TypeOK, Events
<1>3. \A b \in Browsers : Len(queue'[b]) <= capacity'[b]
  BY <1>0, <1>1, <1>2, <1>t DEF TypeOK
<1>4. TypeOK'
  BY <1>0, <1>2, <1>3, <1>t DEF TypeOK, Events
<1>5. \A b \in Browsers : sub'[b] = "live" => b # a
  BY <1>2
<1>6. InSync'
  BY <1>0, <1>2, <1>4, <1>5 DEF StreamInv, InSync
<1>7. HonestCommands'
  BY <1>0, <1>2 DEF StreamInv, HonestCommands, StaleKeys
<1>8. Away'
  BY <1>0, <1>2 DEF StreamInv, Away, StaleKeys
<1>9. Sent'
  BY <1>0, <1>2, <1>5 DEF StreamInv, Sent
<1> QED
  BY <1>6, <1>7, <1>8, <1>9 DEF StreamInv

LEMMA RestartKeeps ==
    ASSUME StreamInv, Restart
    PROVE  StreamInv'
<1>t. TypeOK
  BY DEF StreamInv, InSync
<1>0. /\ epoch < MaxEpoch /\ epoch' = epoch + 1 /\ retained' = [s \in Slots |-> 0]
      /\ sub' = [b \in Browsers |-> "none"] /\ queue' = [b \in Browsers |-> <<>>]
      /\ connected' = [b \in Browsers |-> FALSE] /\ stale' = [b \in Browsers |-> StaleKeys(b)]
      /\ pub' = pub /\ command' = command /\ capacity' = capacity /\ view' = view /\ shown' = shown
      /\ losses' = losses
  BY DEF Restart
<1>1. epoch' \in 1..MaxEpoch /\ retained' \in [Slots -> 0..MaxPub]
  BY <1>0, <1>t, StreamBounds DEF TypeOK
<1>2. queue' \in [Browsers -> Seq(Events)] /\ \A b \in Browsers : queue'[b] = <<>> /\ Len(queue'[b]) <= capacity'[b]
  BY <1>0, <1>t DEF TypeOK
<1>3. stale' \in [Browsers -> SUBSET Vehicles] /\ \A b \in Browsers : stale'[b] = {v \in Vehicles : shown[b][v] # 0}
  BY <1>0 DEF StaleKeys
<1>4. TypeOK'
  BY <1>0, <1>1, <1>2, <1>3, <1>t DEF TypeOK, Events
<1>5. \A b \in Browsers : sub'[b] = "none" /\ ~connected'[b]
  BY <1>0
<1>6. HonestCommands' /\ Away'
  BY <1>0, <1>2, <1>3, <1>5 DEF HonestCommands, Away, StaleKeys
<1>7. InSync' /\ Sent'
  BY <1>4, <1>5 DEF InSync, Sent
<1> QED
  BY <1>6, <1>7 DEF StreamInv

-----------------------------------------------------------------------------
(* The theorems. *)

LEMMA InitHolds == Init => StreamInv
<1> SUFFICES ASSUME Init PROVE StreamInv
  OBVIOUS
<1>1. \A b \in Browsers : queue[b] = <<>> /\ Len(queue[b]) = 0 /\ sub[b] = "none" /\ ~connected[b]
  BY DEF Init
<1>2. TypeOK
  BY <1>1, StreamBounds DEF Init, TypeOK
<1>3. InSync /\ Sent
  BY <1>1, <1>2 DEF InSync, Sent
<1>4. HonestCommands /\ Away
  BY <1>1 DEF Init, HonestCommands, Away, StaleKeys
<1> QED
  BY <1>3, <1>4 DEF StreamInv

LEMMA StreamInvariance == Spec => []StreamInv
<1>1. StreamInv /\ [Next]_vars => StreamInv'
  <2> SUFFICES ASSUME StreamInv, [Next]_vars PROVE StreamInv'
    OBVIOUS
  <2>t. TypeOK
    BY DEF StreamInv, InSync
  <2>1. ASSUME NEW s \in Slots, Publish(s) PROVE StreamInv'
    BY <2>1, PublishKeeps
  <2>2. ASSUME NEW v \in Vehicles, PublishCommand(v) PROVE StreamInv'
    BY <2>2, PublishCommandKeeps
  <2>3. ASSUME NEW b \in Browsers, BrowserStep(b) PROVE StreamInv'
    <3>1. CASE StreamEnds(b)
      BY <3>1, <2>t, DisconnectedKeeps DEF StreamEnds, TypeOK
    <3> QED
      BY <2>3, <3>1, SubscribeKeeps, OpenKeeps, ReceiveKeeps DEF BrowserStep
  <2>4. ASSUME NEW b \in Browsers, ConnectionLost(b) PROVE StreamInv'
    <3>1. Disconnected(b) /\ epoch' = epoch /\ losses' \in 0..MaxLoss
      BY <2>4, <2>t, StreamBounds DEF ConnectionLost, TypeOK
    <3> QED
      BY <3>1, DisconnectedKeeps
  <2>5. CASE Restart
    BY <2>5, RestartKeeps
  <2>6. CASE UNCHANGED vars
    BY <2>6 DEF vars, hub, subscription, page, StreamInv, InSync, HonestCommands, Away, Sent, StaleKeys, TypeOK
  <2> QED
    BY <2>1, <2>2, <2>3, <2>4, <2>5, <2>6 DEF Next
<1> QED
  BY <1>1, InitHolds, PTL DEF Spec

\* A page the hub still serves is in sync: once it has read its queue it has the last
\* event of every slot the hub retains, whatever was published around Subscribe and
\* however often it was dropped (hub.go Subscribe and deliver, under one lock).
THEOREM InSyncAlways == Spec => []InSync
<1>1. StreamInv => InSync
  BY DEF StreamInv
<1> QED
  BY <1>1, StreamInvariance, PTL

\* A command a page shows unmarked is the last one published for its vehicle, or the
\* page has yet to read that one (state.ts staleKeys, set on every disconnect).
THEOREM HonestCommandsAlways == Spec => []HonestCommands
<1>1. StreamInv => HonestCommands
  BY DEF StreamInv
<1> QED
  BY <1>1, StreamInvariance, PTL
=============================================================================
