----------------------- MODULE MissionDownloadProofs -----------------------
(***************************************************************************)
(* The safety properties of the mission download coordinator, for every    *)
(* number of calls, slots and items, every buffer, and any loss,           *)
(* repetition and reordering of messages.                                  *)
(***************************************************************************)
EXTENDS MissionDownload, SequenceTheorems, TLAPS

(* The inductive invariant. *)

Requests == [key : Keys, kind : {"list", "item", "ack"}, seq : Nat]
Responses == [key : Keys, kind : {"count", "item", "refusal", "accepted"}, n : Nat,
              version : Nat, to : {"us", "other"}]
Items == [key : Keys, seq : Nat, version : Nat]

\* The functions behind the type invariant.
Shapes ==
    /\ mission \in [Keys -> [len : Lengths, version : 0..edits]]
    /\ events \in [Calls -> Seq(Responses)] /\ items \in [Calls -> Seq(Items)]
    /\ count \in [Calls -> Lengths \cup {NoCount}]
    /\ result \in [Calls -> {"snapshot", "rejected", "failed", None}]

\* What a vehicle may have sent: a count is that of the mission while nobody replaces
\* it, and a refusal to this station is remembered.
Sent(r) ==
    /\ r \in Responses
    /\ r.kind = "count" => r.n \in Lengths /\ (edits = 0 => r.n = mission[r.key].len)
    /\ r.kind = "refusal" /\ r.to = "us" => r.key \in refused
ForCall(c, r) == Sent(r) /\ r.to = "us" /\ r.key = key[c]

OnTheLink == asked \subseteq Requests /\ \A r \in air : Sent(r)

\* A response is given to a call that asked for its key, even one that has returned.
InTheSink ==
    sink # NoResponse =>
        /\ sink.call \in Calls /\ pc[sink.call] # "new"
        /\ ForCall(sink.call, sink.response)

QueueOf(c) ==
    /\ \A i \in 1..Len(events[c]) : ForCall(c, events[c][i])
    /\ pc[c] = "new" => events[c] = <<>>
InTheQueues == \A c \in Calls : QueueOf(c)

\* The items stored so far are the first ones, and where the call is says how many.
StoredBy(c) ==
    /\ \A i \in 1..Len(items[c]) : items[c][i].key = key[c] /\ items[c][i].seq = i - 1
    /\ pc[c] \in {"new", "list", "count"} => count[c] = NoCount /\ items[c] = <<>>
    /\ pc[c] \in {"request", "item"} => Len(items[c]) < count[c]
    /\ pc[c] = "ack" => Len(items[c]) = count[c]
    /\ count[c] # NoCount /\ edits = 0 => count[c] = mission[key[c]].len
    /\ pc[c] \in Holding => key[c] \in Keys
Stored == \A c \in Calls : StoredBy(c)

ReturnedBy(c) ==
    /\ pc[c] = "new" => result[c] = None
    /\ result[c] = "snapshot" => pc[c] \in {"release", "done"} /\ Len(items[c]) = count[c]
    /\ result[c] = "rejected" => key[c] \in refused
Returned == \A c \in Calls : ReturnedBy(c)

DownloadInv ==
    SlotHeld /\ Shapes /\ OnTheLink /\ InTheSink /\ InTheQueues /\ Stored /\ Returned

-----------------------------------------------------------------------------

USE BufferAssumption, LengthsAssumption, MissionBounds, NamesAssumption

LEMMA InitInv ==
    ASSUME Init
    PROVE  DownloadInv
<1>1. Shapes
  <2>1. mission \in [Keys -> [len : Lengths, version : 0..edits]]
    BY DEF Init
  <2>2. <<>> \in Seq(Responses) /\ <<>> \in Seq(Items)
    OBVIOUS
  <2> QED
    BY <2>1, <2>2 DEF Init, Shapes
<1>2. TypeOK
  <2>1. \A k \in Keys : mission[k].len \in Lengths /\ mission[k].version \in 0..MaxEdit
    BY DEF Init
  <2>2. \A c \in Calls : Len(events[c]) <= Buffer
    BY DEF Init
  <2> QED
    BY <2>1, <2>2 DEF Init, TypeOK, NoResponse
<1>3. SlotHeld
  BY <1>2 DEF Init, SlotHeld, Holding, Waiting
<1>4. OnTheLink /\ InTheSink
  BY DEF Init, OnTheLink, InTheSink
<1>5. InTheQueues
  BY DEF Init, InTheQueues, QueueOf
<1>6. Stored
  BY DEF Init, Stored, StoredBy, Holding, Waiting
<1>7. Returned
  BY DEF Init, Returned, ReturnedBy, None
<1> QED
  BY <1>1, <1>3, <1>4, <1>5, <1>6, <1>7 DEF DownloadInv

\* What was sent stays true of the vehicle: refusals are remembered, and a mission that
\* is replaced is one that nobody promises anything about.
LEMMA SentKept ==
    ASSUME NEW r, Sent(r), refused \subseteq refused',
           edits' = 0 => edits = 0 /\ mission' = mission
    PROVE  Sent(r)'
  BY DEF Sent

LEMMA ForCallKept ==
    ASSUME NEW r, NEW c, ForCall(c, r), refused \subseteq refused', key'[c] = key[c],
           edits' = 0 => edits = 0 /\ mission' = mission
    PROVE  ForCall(c, r)'
  BY SentKept DEF ForCall

\* A step of the call that holds a slot.
LEMMA CallMoves ==
    ASSUME DownloadInv, NEW c \in Calls, pc[c] \in Holding,
           UNCHANGED <<mission, air, refused, edits, strays, sink, key>>, asked' \subseteq Requests,
           Shapes', pc' \in [Calls -> Holding \cup {"new", "done"}], pc'[c] \in Holding \cup {"done"},
           \A d \in Calls \ {c} : /\ pc'[d] = pc[d] /\ events'[d] = events[d] /\ count'[d] = count[d]
                                  /\ items'[d] = items[d] /\ result'[d] = result[d],
           Len(events'[c]) <= Buffer, QueueOf(c)', StoredBy(c)', ReturnedBy(c)',
           inflight' = IF pc'[c] = "done" THEN [inflight EXCEPT ![key[c]] = None] ELSE inflight
    PROVE  DownloadInv'
<1>0. /\ SlotHeld /\ TypeOK /\ Shapes /\ OnTheLink /\ InTheSink /\ InTheQueues /\ Stored /\ Returned
  BY DEF DownloadInv, SlotHeld
<1>1. TypeOK'
  <2>1. inflight' \in [Keys -> Calls \cup {None}]
    BY <1>0 DEF TypeOK
  <2>2. \A d \in Calls : /\ Len(events'[d]) <= Buffer
                         /\ count'[d] \in Lengths \cup {NoCount}
                         /\ result'[d] \in {"snapshot", "rejected", "failed", None}
    BY <1>0 DEF TypeOK, Shapes
  <2> QED
    BY <1>0, <2>1, <2>2 DEF TypeOK
<1>2. ASSUME NEW k \in Keys, NEW d \in Calls
      PROVE  inflight'[k] = d <=> key'[d] = k /\ pc'[d] \in Holding
  <2>1. key[c] \in Keys /\ inflight[key[c]] = c
    BY <1>0 DEF SlotHeld, Stored, StoredBy
  <2>2. inflight[k] = d <=> key[d] = k /\ pc[d] \in Holding
    BY <1>0 DEF SlotHeld
  <2>3. inflight \in [Keys -> Calls \cup {None}]
    BY <1>0 DEF TypeOK
  <2>4. CASE pc'[c] = "done"
    <3>1. inflight'[k] = IF k = key[c] THEN None ELSE inflight[k]
      BY <2>3, <2>4
    <3>2. "done" \notin Holding /\ None # d
      BY DEF Holding, Waiting
    <3>3. CASE d = c
      BY <2>1, <2>2, <2>4, <3>1, <3>2, <3>3
    <3>4. CASE d # c
      BY <2>1, <2>2, <3>1, <3>2, <3>4
    <3> QED
      BY <3>3, <3>4
  <2>5. CASE pc'[c] # "done"
    BY <2>1, <2>2, <2>5
  <2> QED
    BY <2>4, <2>5
<1>3. SlotHeld'
  BY <1>1, <1>2 DEF SlotHeld
<1>4. OnTheLink'
  BY <1>0, SentKept DEF OnTheLink
<1>5. InTheSink'
  <2>1. "new" \notin Holding \cup {"done"}
    BY DEF Holding, Waiting
  <2>2. sink # NoResponse => ForCall(sink.call, sink.response)'
    BY <1>0, ForCallKept DEF InTheSink
  <2> QED
    BY <1>0, <2>1, <2>2 DEF InTheSink
<1>6. ASSUME NEW d \in Calls \ {c}
      PROVE  QueueOf(d)' /\ StoredBy(d)' /\ ReturnedBy(d)'
  <2>1. QueueOf(d) /\ StoredBy(d) /\ ReturnedBy(d)
    BY <1>0 DEF InTheQueues, Stored, Returned
  <2>2. QueueOf(d)'
    BY <2>1, ForCallKept DEF QueueOf
  <2>3. StoredBy(d)' /\ ReturnedBy(d)'
    BY <2>1 DEF StoredBy, ReturnedBy
  <2> QED
    BY <2>2, <2>3
<1>7. InTheQueues' /\ Stored' /\ Returned'
  BY <1>6 DEF InTheQueues, Stored, Returned
<1> QED
  BY <1>3, <1>4, <1>5, <1>7 DEF DownloadInv

\* The queue of c has its type and holds only what was sent for c; the others are as before.
EventsOf(c) ==
    /\ events' \in [Calls -> Seq(Responses)] /\ Len(events'[c]) <= Buffer
    /\ \A d \in Calls \ {c} : events'[d] = events[d]
    /\ \A i \in 1..Len(events'[c]) : ForCall(c, events'[c][i])

LEMMA EventsUnchanged ==
    ASSUME DownloadInv, NEW c \in Calls, UNCHANGED events
    PROVE  EventsOf(c)
  BY DEF DownloadInv, SlotHeld, TypeOK, Shapes, InTheQueues, QueueOf, EventsOf

LEMMA EventsTail ==
    ASSUME DownloadInv, NEW c \in Calls, events[c] # <<>>, events' = [events EXCEPT ![c] = Tail(@)]
    PROVE  EventsOf(c) /\ ForCall(c, Head(events[c]))
<1>0. /\ events \in [Calls -> Seq(Responses)] /\ Len(events[c]) <= Buffer
      /\ \A i \in 1..Len(events[c]) : ForCall(c, events[c][i])
  BY DEF DownloadInv, SlotHeld, TypeOK, Shapes, InTheQueues, QueueOf
<1>1. events[c] \in Seq(Responses)
  BY <1>0
<1>2. /\ Tail(events[c]) \in Seq(Responses) /\ Len(Tail(events[c])) = Len(events[c]) - 1
      /\ \A i \in 1..Len(Tail(events[c])) : Tail(events[c])[i] = events[c][i + 1]
  BY <1>1, HeadTailProperties
<1>3. Len(events[c]) \in Nat /\ Len(events[c]) > 0
  BY <1>1, EmptySeq, LenProperties
<1>4. Head(events[c]) = events[c][1]
  BY <1>1, <1>3
<1>5. ForCall(c, Head(events[c]))
  BY <1>0, <1>3, <1>4
<1>6. events'[c] = Tail(events[c]) /\ events' \in [Calls -> Seq(Responses)]
  BY <1>0, <1>2
<1>7. \A i \in 1..Len(events'[c]) : ForCall(c, events'[c][i])
  <2>1. \A i \in 1..Len(Tail(events[c])) : i + 1 \in 1..Len(events[c])
    BY <1>2, <1>3
  <2> QED
    BY <1>0, <1>2, <1>6, <2>1
<1>8. Len(events'[c]) <= Buffer
  BY <1>0, <1>2, <1>3, <1>6
<1> QED
  BY <1>0, <1>5, <1>6, <1>7, <1>8 DEF EventsOf

\* The step of a call, by what it does to the call's own variables.
LEMMA CallSteps ==
    ASSUME DownloadInv, NEW c \in Calls, pc[c] \in Holding,
           UNCHANGED <<mission, air, refused, edits, strays, sink, key>>, asked' \subseteq Requests,
           EventsOf(c), NEW at \in Holding \cup {"done"}, pc' = [pc EXCEPT ![c] = at],
           NEW n \in Lengths \cup {NoCount}, count' = [count EXCEPT ![c] = n],
           NEW stored \in Seq(Items), items' = [items EXCEPT ![c] = stored],
           NEW r \in {"snapshot", "rejected", "failed", None}, result' = [result EXCEPT ![c] = r],
           StoredBy(c)', ReturnedBy(c)',
           inflight' = IF at = "done" THEN [inflight EXCEPT ![key[c]] = None] ELSE inflight
    PROVE  DownloadInv'
<1>0. Shapes /\ TypeOK
  BY DEF DownloadInv, SlotHeld
<1>1. /\ pc' \in [Calls -> Holding \cup {"new", "done"}] /\ pc'[c] = at
      /\ \A d \in Calls \ {c} : pc'[d] = pc[d]
  BY <1>0 DEF TypeOK
<1>2. /\ count' \in [Calls -> Lengths \cup {NoCount}] /\ items' \in [Calls -> Seq(Items)]
      /\ result' \in [Calls -> {"snapshot", "rejected", "failed", None}]
      /\ \A d \in Calls \ {c} : count'[d] = count[d] /\ items'[d] = items[d] /\ result'[d] = result[d]
  BY <1>0 DEF Shapes
<1>3. Shapes'
  BY <1>0, <1>2 DEF Shapes, EventsOf
<1>4. QueueOf(c)'
  <2>1. pc'[c] # "new"
    BY <1>1 DEF Holding, Waiting
  <2>2. \A i \in 1..Len(events'[c]) : ForCall(c, events'[c][i])
    BY DEF EventsOf
  <2>3. \A e : ForCall(c, e) => ForCall(c, e)'
    BY ForCallKept
  <2> QED
    BY <2>1, <2>2, <2>3 DEF QueueOf, ForCall, Sent
<1>5. /\ Len(events'[c]) <= Buffer
      /\ \A d \in Calls \ {c} : events'[d] = events[d]
  BY DEF EventsOf
<1> QED
  BY <1>1, <1>2, <1>3, <1>4, <1>5, CallMoves

\* The call fails: it keeps nothing, and reports a rejection only for a refusal.
LEMMA FailsInv ==
    ASSUME DownloadInv, NEW c \in Calls, pc[c] \in Holding,
           UNCHANGED <<mission, asked, air, refused, edits, strays, sink, key, inflight>>,
           EventsOf(c), NEW error \in {"failed", "rejected"}, Fails(c, error),
           error = "rejected" => key[c] \in refused
    PROVE  DownloadInv'
<1>0. Shapes /\ TypeOK /\ OnTheLink /\ key[c] \in Keys
  BY DEF DownloadInv, SlotHeld, Stored, StoredBy
<1>1. /\ pc' = [pc EXCEPT ![c] = "release"] /\ result' = [result EXCEPT ![c] = error]
      /\ count' = [count EXCEPT ![c] = NoCount] /\ items' = [items EXCEPT ![c] = <<>>]
  BY DEF Fails, Goes
<1>2. pc'[c] = "release" /\ result'[c] = error /\ count'[c] = NoCount /\ items'[c] = <<>>
  BY <1>0, <1>1 DEF TypeOK, Shapes
<1>3. StoredBy(c)'
  BY <1>0, <1>2 DEF StoredBy
<1>4. ReturnedBy(c)'
  BY <1>0, <1>2 DEF ReturnedBy
<1>5. /\ "release" \in Holding \cup {"done"} /\ NoCount \in Lengths \cup {NoCount}
      /\ error \in {"snapshot", "rejected", "failed", None} /\ <<>> \in Seq(Items)
      /\ "release" # "done"
  BY DEF Holding
<1>6. asked' \subseteq Requests
  BY <1>0 DEF OnTheLink
<1> QED
  BY <1>1, <1>3, <1>4, <1>5, <1>6, CallSteps

LEMMA WriteInv ==
    ASSUME DownloadInv, NEW c \in Calls, Write(c)
    PROVE  DownloadInv'
<1>0. Shapes /\ TypeOK /\ OnTheLink /\ StoredBy(c) /\ ReturnedBy(c)
  BY DEF DownloadInv, SlotHeld, Stored, Returned
<1>1. /\ pc[c] \in {"list", "request", "ack"} /\ asked' = asked \cup {Writes(c)} /\ UNCHANGED events
      /\ UNCHANGED <<mission, air, refused, edits, strays, inflight, sink, key, count, items>>
  BY DEF Write
<1>2. pc[c] \in Holding /\ key[c] \in Keys
  BY <1>0, <1>1 DEF Holding, Waiting, StoredBy
<1>3. asked' \subseteq Requests
  <2>1. Len(items[c]) \in Nat
    BY <1>0, LenProperties DEF Shapes
  <2>2. Writes(c) \in Requests
    BY <1>1, <1>2, <2>1 DEF Writes, Request, Requests
  <2> QED
    BY <1>0, <1>1, <2>2 DEF OnTheLink
<1>4. EventsOf(c)
  BY <1>1, EventsUnchanged
<1>5. PICK at \in {"count", "item", "release"}, r \in {result[c], "snapshot"} :
         /\ pc' = [pc EXCEPT ![c] = at] /\ result' = [result EXCEPT ![c] = r]
         /\ pc[c] = "list" => at = "count" /\ r = result[c]
         /\ pc[c] = "request" => at = "item" /\ r = result[c]
         /\ pc[c] = "ack" => at = "release" /\ r = "snapshot"
  <2>1. result = [result EXCEPT ![c] = result[c]]
    BY <1>0 DEF Shapes
  <2> QED
    BY <1>1, <2>1 DEF Write, Goes
<1>6. /\ count' = [count EXCEPT ![c] = count[c]] /\ count[c] \in Lengths \cup {NoCount}
      /\ items' = [items EXCEPT ![c] = items[c]] /\ items[c] \in Seq(Items)
      /\ r \in {"snapshot", "rejected", "failed", None}
      /\ pc'[c] = at /\ result'[c] = r
  BY <1>0, <1>1, <1>5 DEF Shapes, TypeOK
<1>7. StoredBy(c)'
  BY <1>0, <1>1, <1>2, <1>5, <1>6 DEF StoredBy, Holding, Waiting
<1>8. ReturnedBy(c)'
  BY <1>0, <1>1, <1>5, <1>6 DEF ReturnedBy, StoredBy
<1>9. at \in Holding \cup {"done"} /\ at # "done"
  BY <1>5 DEF Holding, Waiting
<1> QED
  BY <1>1, <1>2, <1>3, <1>4, <1>5, <1>6, <1>7, <1>8, <1>9, CallSteps

LEMMA GiveUpInv ==
    ASSUME DownloadInv, NEW c \in Calls, WriteFails(c) \/ GiveUp(c)
    PROVE  DownloadInv'
<1>1. /\ pc[c] \in Holding /\ Fails(c, "failed")
      /\ UNCHANGED <<mission, asked, air, refused, edits, strays, sink, key, inflight, events>>
  BY DEF WriteFails, GiveUp, Holding, Waiting, vehicle
<1>2. EventsOf(c)
  BY <1>1, EventsUnchanged
<1> QED
  BY <1>1, <1>2, FailsInv

LEMMA ReleaseInv ==
    ASSUME DownloadInv, NEW c \in Calls, Release(c)
    PROVE  DownloadInv'
<1>0. Shapes /\ TypeOK /\ OnTheLink /\ StoredBy(c) /\ ReturnedBy(c)
  BY DEF DownloadInv, SlotHeld, Stored, Returned
<1>1. /\ pc[c] = "release" /\ pc[c] \in Holding /\ pc' = [pc EXCEPT ![c] = "done"]
      /\ inflight' = [inflight EXCEPT ![key[c]] = None]
      /\ events' = [events EXCEPT ![c] = <<>>]
      /\ UNCHANGED <<mission, asked, air, refused, edits, strays, sink, key, count, items, result>>
  BY DEF Release, Goes, vehicle, Holding
<1>2. EventsOf(c)
  BY <1>0, <1>1, EmptySeq DEF Shapes, EventsOf
<1>3. /\ count' = [count EXCEPT ![c] = count[c]] /\ count[c] \in Lengths \cup {NoCount}
      /\ items' = [items EXCEPT ![c] = items[c]] /\ items[c] \in Seq(Items)
      /\ result' = [result EXCEPT ![c] = result[c]] /\ result[c] \in {"snapshot", "rejected", "failed", None}
      /\ pc'[c] = "done"
  BY <1>0, <1>1 DEF Shapes, TypeOK
<1>4. StoredBy(c)' /\ ReturnedBy(c)'
  BY <1>0, <1>1, <1>3 DEF StoredBy, ReturnedBy, Holding, Waiting
<1>5. asked' \subseteq Requests
  BY <1>0, <1>1 DEF OnTheLink
<1>6. "done" \in Holding \cup {"done"}
  OBVIOUS
<1> QED
  BY <1>1, <1>2, <1>3, <1>4, <1>5, <1>6, CallSteps

LEMMA AwaitCountInv ==
    ASSUME DownloadInv, NEW c \in Calls, AwaitCount(c)
    PROVE  DownloadInv'
<1>0. Shapes /\ TypeOK /\ OnTheLink /\ StoredBy(c) /\ ReturnedBy(c)
  BY DEF DownloadInv, SlotHeld, Stored, Returned
<1> DEFINE e == Head(events[c])
<1>1. /\ pc[c] = "count" /\ pc[c] \in Holding
      /\ events[c] # <<>> /\ events' = [events EXCEPT ![c] = Tail(@)]
      /\ UNCHANGED <<mission, asked, air, refused, edits, strays, sink, key, inflight>>
  BY DEF AwaitCount, vehicle, Holding, Waiting
<1>2. EventsOf(c) /\ ForCall(c, e)
  BY <1>1, EventsTail
<1>3. key[c] \in Keys /\ count[c] = NoCount /\ items[c] = <<>> /\ asked' \subseteq Requests
  BY <1>0, <1>1 DEF StoredBy, OnTheLink
<1>t. /\ count = [count EXCEPT ![c] = count[c]] /\ count[c] \in Lengths \cup {NoCount}
      /\ items = [items EXCEPT ![c] = items[c]] /\ items[c] \in Seq(Items)
      /\ result = [result EXCEPT ![c] = result[c]] /\ result[c] \in {"snapshot", "rejected", "failed", None}
      /\ pc = [pc EXCEPT ![c] = pc[c]]
  BY <1>0 DEF Shapes, TypeOK
<1>4. CASE e.kind = "refusal"
  <2>1. Fails(c, "rejected")
    BY <1>4 DEF AwaitCount
  <2>2. key[c] \in refused
    BY <1>2, <1>4 DEF ForCall, Sent
  <2> QED
    BY <1>1, <1>2, <2>1, <2>2, FailsInv
<1>5. CASE e.kind = "count"
  <2>1. /\ count' = [count EXCEPT ![c] = e.n] /\ pc' = [pc EXCEPT ![c] = AfterItem(0, e.n)]
        /\ UNCHANGED <<items, result>>
    BY <1>5 DEF AwaitCount, Goes
  <2>2. e.n \in Lengths /\ e.n \in Nat /\ (edits = 0 => e.n = mission[key[c]].len)
    BY <1>2, <1>5 DEF ForCall, Sent
  <2>3. /\ AfterItem(0, e.n) \in {"ack", "request"} /\ (AfterItem(0, e.n) = "ack" <=> e.n = 0)
    BY DEF AfterItem
  <2>4. count'[c] = e.n /\ pc'[c] = AfterItem(0, e.n)
    BY <1>0, <2>1 DEF Shapes, TypeOK
  <2>5. StoredBy(c)'
    BY <1>0, <1>1, <1>3, <2>1, <2>2, <2>3, <2>4 DEF StoredBy
  <2>6. ReturnedBy(c)'
    BY <1>0, <1>1, <2>1, <2>3, <2>4 DEF ReturnedBy
  <2>7. AfterItem(0, e.n) \in Holding \cup {"done"} /\ AfterItem(0, e.n) # "done"
    BY <2>3 DEF Holding
  <2> QED
    BY <1>1, <1>2, <1>3, <1>t, <2>1, <2>2, <2>5, <2>6, <2>7, CallSteps
<1>6. CASE e.kind \notin {"refusal", "count"}
  <2>1. UNCHANGED <<pc, count, items, result>>
    BY <1>6 DEF AwaitCount
  <2>2. StoredBy(c)' /\ ReturnedBy(c)'
    BY <1>0, <1>1, <2>1 DEF StoredBy, ReturnedBy
  <2>3. pc[c] # "done"
    BY <1>1
  <2> QED
    BY <1>1, <1>2, <1>3, <1>t, <2>1, <2>2, <2>3, CallSteps
<1> QED
  BY <1>4, <1>5, <1>6

LEMMA AwaitItemInv ==
    ASSUME DownloadInv, NEW c \in Calls, AwaitItem(c)
    PROVE  DownloadInv'
<1>0. Shapes /\ TypeOK /\ OnTheLink /\ StoredBy(c) /\ ReturnedBy(c)
  BY DEF DownloadInv, SlotHeld, Stored, Returned
<1> DEFINE e == Head(events[c])
<1>1. /\ pc[c] = "item" /\ pc[c] \in Holding
      /\ events[c] # <<>> /\ events' = [events EXCEPT ![c] = Tail(@)]
      /\ UNCHANGED <<mission, asked, air, refused, edits, strays, sink, key, inflight>>
  BY DEF AwaitItem, vehicle, Holding, Waiting
<1>2. EventsOf(c) /\ ForCall(c, e)
  BY <1>1, EventsTail
<1>t. /\ count = [count EXCEPT ![c] = count[c]] /\ count[c] \in Lengths \cup {NoCount}
      /\ items = [items EXCEPT ![c] = items[c]] /\ items[c] \in Seq(Items)
      /\ result = [result EXCEPT ![c] = result[c]] /\ result[c] \in {"snapshot", "rejected", "failed", None}
      /\ pc = [pc EXCEPT ![c] = pc[c]]
  BY <1>0 DEF Shapes, TypeOK
<1>3. /\ key[c] \in Keys /\ Len(items[c]) < count[c] /\ asked' \subseteq Requests
      /\ Len(items[c]) \in Nat /\ count[c] \in Int
  BY <1>0, <1>1, <1>t, LenProperties DEF StoredBy, OnTheLink, NoCount
<1>4. CASE e.kind = "refusal"
  <2>1. Fails(c, "rejected")
    BY <1>4 DEF AwaitItem
  <2>2. key[c] \in refused
    BY <1>2, <1>4 DEF ForCall, Sent
  <2> QED
    BY <1>1, <1>2, <2>1, <2>2, FailsInv
<1>5. CASE e.kind = "item" /\ Wanted(c, e)
  <2> DEFINE item == [key |-> e.key, seq |-> e.n, version |-> e.version]
             stored == Append(items[c], item)
             at == AfterItem(Len(items[c]) + 1, count[c])
  <2>1. /\ items' = [items EXCEPT ![c] = stored] /\ pc' = [pc EXCEPT ![c] = at]
        /\ UNCHANGED <<count, result>>
    BY <1>5 DEF AwaitItem, Goes
  <2>2. item \in Items /\ item.key = key[c] /\ item.seq = Len(items[c])
    BY <1>2, <1>5 DEF ForCall, Sent, Responses, Items, Wanted
  <2>3. /\ stored \in Seq(Items) /\ Len(stored) = Len(items[c]) + 1
        /\ \A i \in 1..Len(items[c]) : stored[i] = items[c][i]
        /\ stored[Len(items[c]) + 1] = item
    BY <1>t, <2>2, AppendProperties
  <2>4. /\ at \in {"ack", "request"} /\ (at = "ack" <=> Len(items[c]) + 1 = count[c])
    BY DEF AfterItem
  <2>5. items'[c] = stored /\ pc'[c] = at /\ count'[c] = count[c] /\ key'[c] = key[c]
    BY <1>0, <1>1, <2>1 DEF Shapes, TypeOK
  <2>6. \A i \in 1..Len(stored) : stored[i].key = key[c] /\ stored[i].seq = i - 1
    <3>1. \A i \in 1..Len(items[c]) : stored[i].key = key[c] /\ stored[i].seq = i - 1
      BY <1>0, <2>3 DEF StoredBy
    <3>2. \A i \in 1..Len(stored) : i \in 1..Len(items[c]) \/ i = Len(items[c]) + 1
      BY <1>3, <2>3
    <3> QED
      BY <1>3, <2>2, <2>3, <3>1, <3>2
  <2>7. StoredBy(c)'
    <3>1. at = "request" => Len(stored) < count[c]
      BY <1>3, <2>3, <2>4
    <3>2. at = "ack" => Len(stored) = count[c]
      BY <2>3, <2>4
    <3>3. count[c] # NoCount /\ edits = 0 => count[c] = mission[key[c]].len
      BY <1>0 DEF StoredBy
    <3>h. HIDE DEF stored, at
    <3> QED
      BY <1>1, <1>3, <2>4, <2>5, <2>6, <3>1, <3>2, <3>3 DEF StoredBy
  <2>8. ReturnedBy(c)'
    <3>1. pc'[c] # "new" /\ result'[c] = result[c] /\ result[c] # "snapshot"
      BY <1>0, <1>1, <2>1, <2>4, <2>5 DEF ReturnedBy
    <3> QED
      BY <1>0, <1>1, <3>1 DEF ReturnedBy
  <2>9. at \in Holding \cup {"done"} /\ at # "done"
    BY <2>4 DEF Holding
  <2>10. count' = [count EXCEPT ![c] = count[c]] /\ result' = [result EXCEPT ![c] = result[c]]
    BY <1>t, <2>1
  <2>11. /\ stored \in Seq(Items) /\ items' = [items EXCEPT ![c] = stored] /\ pc' = [pc EXCEPT ![c] = at]
         /\ inflight' = IF at = "done" THEN [inflight EXCEPT ![key[c]] = None] ELSE inflight
    BY <1>1, <2>1, <2>3, <2>9
  <2>h. HIDE DEF stored, at, item, e
  <2> QED
    BY <1>1, <1>2, <1>3, <1>t, <2>7, <2>8, <2>9, <2>10, <2>11, CallSteps
<1>6. CASE e.kind # "refusal" /\ ~(e.kind = "item" /\ Wanted(c, e))
  <2>1. UNCHANGED <<pc, count, items, result>>
    BY <1>6 DEF AwaitItem
  <2>2. StoredBy(c)' /\ ReturnedBy(c)'
    BY <1>0, <1>1, <2>1 DEF StoredBy, ReturnedBy
  <2>3. pc[c] # "done"
    BY <1>1
  <2> QED
    BY <1>1, <1>2, <1>3, <1>t, <2>1, <2>2, <2>3, CallSteps
<1> QED
  BY <1>4, <1>5, <1>6

\* A call takes its slot only while nobody holds it, and leaves it alone otherwise.
LEMMA DownloadStepInv ==
    ASSUME DownloadInv, NEW c \in Calls, NEW k \in Keys, Download(c, k)
    PROVE  DownloadInv'
<1>0. /\ SlotHeld /\ TypeOK /\ Shapes /\ OnTheLink /\ InTheSink /\ InTheQueues /\ Stored /\ Returned
  BY DEF DownloadInv, SlotHeld
<1>1. /\ pc[c] = "new" /\ key' = [key EXCEPT ![c] = k]
      /\ UNCHANGED <<mission, asked, air, refused, edits, strays, sink, events, count, items>>
  BY DEF Download, vehicle
<1>2. \/ /\ inflight[k] = None /\ pc' = [pc EXCEPT ![c] = "list"]
         /\ inflight' = [inflight EXCEPT ![k] = c] /\ UNCHANGED result
      \/ /\ pc' = [pc EXCEPT ![c] = "done"] /\ result' = [result EXCEPT ![c] = "failed"]
         /\ UNCHANGED inflight
  BY DEF Download, Claims, Goes
<1>3. /\ pc' \in [Calls -> Holding \cup {"new", "done"}] /\ pc'[c] \in {"list", "done"}
      /\ key' \in [Calls -> Keys \cup {None}] /\ key'[c] = k
      /\ \A d \in Calls \ {c} : pc'[d] = pc[d] /\ key'[d] = key[d]
  BY <1>0, <1>1, <1>2 DEF TypeOK, Holding
<1>4. /\ result' \in [Calls -> {"snapshot", "rejected", "failed", None}]
      /\ result'[c] \in {result[c], "failed"}
      /\ \A d \in Calls \ {c} : result'[d] = result[d]
  BY <1>0, <1>2 DEF Shapes
<1>5. Shapes'
  BY <1>0, <1>1, <1>4 DEF Shapes
<1>6. inflight' \in [Keys -> Calls \cup {None}]
  BY <1>0, <1>2 DEF TypeOK
<1>7. TypeOK'
  BY <1>0, <1>1, <1>3, <1>4, <1>6 DEF TypeOK
<1>8. ASSUME NEW j \in Keys, NEW d \in Calls
      PROVE  inflight'[j] = d <=> key'[d] = j /\ pc'[d] \in Holding
  <2>1. "new" \notin Holding /\ "done" \notin Holding /\ "list" \in Holding /\ None # d
    BY DEF Holding, Waiting
  <2>2. /\ inflight[j] = d <=> key[d] = j /\ pc[d] \in Holding
        /\ inflight[k] = d <=> key[d] = k /\ pc[d] \in Holding
        /\ inflight[j] # c
    BY <1>0, <1>1, <2>1 DEF SlotHeld
  <2>3. pc \in [Calls -> Holding \cup {"new", "done"}] /\ inflight \in [Keys -> Calls \cup {None}]
    BY <1>0 DEF TypeOK
  <2>4. CASE /\ inflight[k] = None /\ pc' = [pc EXCEPT ![c] = "list"]
             /\ inflight' = [inflight EXCEPT ![k] = c]
    <3>1. pc'[c] = "list" /\ inflight'[j] = IF j = k THEN c ELSE inflight[j]
      BY <2>3, <2>4
    <3>2. CASE d = c
      BY <1>3, <2>1, <2>2, <3>1, <3>2
    <3>3. CASE d # c
      BY <1>3, <2>1, <2>2, <2>4, <3>1, <3>3
    <3> QED
      BY <3>2, <3>3
  <2>5. CASE pc' = [pc EXCEPT ![c] = "done"] /\ UNCHANGED inflight
    <3>1. pc'[c] = "done"
      BY <2>3, <2>5
    <3>2. CASE d = c
      BY <2>1, <2>2, <2>5, <3>1, <3>2
    <3>3. CASE d # c
      BY <1>3, <2>2, <2>5, <3>3
    <3> QED
      BY <3>2, <3>3
  <2> QED
    BY <1>2, <2>4, <2>5
<1>9. SlotHeld'
  BY <1>7, <1>8 DEF SlotHeld
<1>10. OnTheLink'
  BY <1>0, <1>1, SentKept DEF OnTheLink
<1>11. InTheSink'
  <2>1. ASSUME sink # NoResponse
        PROVE  /\ sink.call \in Calls /\ pc'[sink.call] # "new"
               /\ ForCall(sink.call, sink.response)'
    <3>1. /\ sink.call \in Calls /\ pc[sink.call] # "new"
          /\ ForCall(sink.call, sink.response)
      BY <1>0, <2>1 DEF InTheSink
    <3>2. sink.call \in Calls \ {c}
      BY <1>1, <3>1
    <3>3. pc'[sink.call] # "new" /\ key'[sink.call] = key[sink.call]
      BY <1>3, <3>1, <3>2
    <3> QED
      BY <1>1, <3>1, <3>3, ForCallKept
  <2> QED
    BY <1>1, <2>1 DEF InTheSink
<1>12. ASSUME NEW d \in Calls \ {c}
       PROVE  QueueOf(d)' /\ StoredBy(d)' /\ ReturnedBy(d)'
  <2>1. QueueOf(d) /\ StoredBy(d) /\ ReturnedBy(d) /\ key'[d] = key[d] /\ pc'[d] = pc[d]
    BY <1>0, <1>3 DEF InTheQueues, Stored, Returned
  <2>2. QueueOf(d)'
    BY <1>1, <2>1, ForCallKept DEF QueueOf
  <2>3. StoredBy(d)' /\ ReturnedBy(d)'
    BY <1>1, <1>4, <2>1 DEF StoredBy, ReturnedBy
  <2> QED
    BY <2>2, <2>3
<1>13. QueueOf(c)'
  <2>1. events'[c] = <<>>
    BY <1>0, <1>1 DEF InTheQueues, QueueOf
  <2> QED
    BY <2>1 DEF QueueOf
<1>14. StoredBy(c)'
  <2>1. count'[c] = NoCount /\ items'[c] = <<>>
    BY <1>0, <1>1 DEF Stored, StoredBy
  <2> QED
    BY <1>3, <2>1 DEF StoredBy
<1>15. ReturnedBy(c)'
  <2>1. result'[c] \in {None, "failed"}
    BY <1>0, <1>1, <1>4 DEF Returned, ReturnedBy
  <2> QED
    BY <1>3, <2>1 DEF ReturnedBy, None
<1> QED
  BY <1>5, <1>9, <1>10, <1>11, <1>12, <1>13, <1>14, <1>15
     DEF DownloadInv, InTheQueues, Stored, Returned

-----------------------------------------------------------------------------
(* Publish. *)

LEMMA PublishLookupInv ==
    ASSUME DownloadInv, NEW r \in air, PublishLookup(r)
    PROVE  DownloadInv'
<1>0. /\ SlotHeld /\ TypeOK /\ Shapes /\ OnTheLink /\ InTheSink /\ InTheQueues /\ Stored /\ Returned
  BY DEF DownloadInv, SlotHeld
<1>1. /\ air' \subseteq air /\ Sent(r) /\ r.key \in Keys
      /\ UNCHANGED <<mission, asked, refused, edits, strays, inflight, pc, key, events, count, items, result>>
  BY <1>0 DEF PublishLookup, local, OnTheLink, Sent, Responses
<1>2. \/ sink' = sink
      \/ r.to = "us" /\ inflight[r.key] # None /\ sink' = [call |-> inflight[r.key], response |-> r]
  BY DEF PublishLookup, ForUs, SlotOf
<1>3. sink'.call \in Calls \cup {None}
  BY <1>0, <1>1, <1>2 DEF TypeOK
<1>4. TypeOK'
  BY <1>0, <1>1, <1>3 DEF TypeOK
<1>5. SlotHeld'
  BY <1>0, <1>1, <1>4 DEF SlotHeld
<1>6. Shapes' /\ Stored' /\ Returned'
  BY <1>0, <1>1 DEF Shapes, Stored, StoredBy, Returned, ReturnedBy
<1>7. OnTheLink'
  BY <1>0, <1>1, SentKept DEF OnTheLink
<1>8. InTheQueues'
  BY <1>0, <1>1, ForCallKept DEF InTheQueues, QueueOf
<1>9. InTheSink'
  <2>1. CASE sink' = sink
    <3>1. ASSUME sink # NoResponse
          PROVE  ForCall(sink.call, sink.response)'
      <4>1. ForCall(sink.call, sink.response) /\ key'[sink.call] = key[sink.call]
        BY <1>0, <1>1, <3>1 DEF InTheSink
      <4> QED
        BY <1>1, <2>1, <4>1 DEF ForCall, Sent
    <3> QED
      BY <1>0, <1>1, <2>1, <3>1 DEF InTheSink
  <2>2. CASE r.to = "us" /\ inflight[r.key] # None /\ sink' = [call |-> inflight[r.key], response |-> r]
    <3> DEFINE c == inflight[r.key]
    <3>1. c \in Calls /\ sink'.call = c /\ sink'.response = r
      BY <1>0, <1>1, <2>2 DEF TypeOK
    <3>2. key[c] = r.key /\ pc[c] \in Holding
      BY <1>0, <1>1, <3>1 DEF SlotHeld
    <3>3. ForCall(c, r) /\ pc[c] # "new"
      BY <1>1, <2>2, <3>2 DEF ForCall, Holding, Waiting
    <3>4. ForCall(c, r)'
      BY <1>1, <3>3, ForCallKept
    <3>h. HIDE DEF c
    <3> QED
      BY <1>1, <3>1, <3>3, <3>4 DEF InTheSink, ForCall, Sent
  <2> QED
    BY <1>2, <2>1, <2>2
<1> QED
  BY <1>5, <1>6, <1>7, <1>8, <1>9 DEF DownloadInv

LEMMA PublishSendInv ==
    ASSUME DownloadInv, PublishSend
    PROVE  DownloadInv'
<1>0. /\ SlotHeld /\ TypeOK /\ Shapes /\ OnTheLink /\ InTheSink /\ InTheQueues /\ Stored /\ Returned
  BY DEF DownloadInv, SlotHeld
<1> DEFINE c == sink.call
           r == sink.response
<1>1. /\ sink # NoResponse /\ sink' = NoResponse
      /\ UNCHANGED <<mission, asked, air, refused, edits, strays, inflight, pc, key, count, items, result>>
  BY DEF PublishSend, vehicle
<1>2. c \in Calls /\ pc[c] # "new" /\ ForCall(c, r) /\ r \in Responses
  BY <1>0, <1>1 DEF InTheSink, ForCall, Sent
<1>3. \/ events' = events
      \/ Len(events[c]) < Buffer /\ events' = [events EXCEPT ![c] = Append(events[c], r)]
  BY DEF PublishSend, HasRoom
<1>4. /\ events' \in [Calls -> Seq(Responses)]
      /\ \A d \in Calls : /\ Len(events'[d]) <= Buffer
                          /\ \A i \in 1..Len(events'[d]) : ForCall(d, events'[d][i])
                          /\ pc[d] = "new" => events'[d] = <<>>
  <2>0. /\ events \in [Calls -> Seq(Responses)]
        /\ \A d \in Calls : /\ Len(events[d]) <= Buffer
                            /\ \A i \in 1..Len(events[d]) : ForCall(d, events[d][i])
                            /\ pc[d] = "new" => events[d] = <<>>
    BY <1>0 DEF TypeOK, Shapes, InTheQueues, QueueOf
  <2>1. CASE events' = events
    BY <2>0, <2>1
  <2>2. CASE Len(events[c]) < Buffer /\ events' = [events EXCEPT ![c] = Append(events[c], r)]
    <3> DEFINE queue == Append(events[c], r)
    <3>1. events[c] \in Seq(Responses) /\ Len(events[c]) \in Nat
      BY <1>2, <2>0, LenProperties
    <3>2. /\ queue \in Seq(Responses) /\ Len(queue) = Len(events[c]) + 1
          /\ \A i \in 1..Len(events[c]) : queue[i] = events[c][i]
          /\ queue[Len(events[c]) + 1] = r
      BY <1>2, <3>1, AppendProperties
    <3>3. Len(queue) <= Buffer
      BY <2>2, <3>1, <3>2
    <3>4. \A i \in 1..Len(queue) : ForCall(c, queue[i])
      <4>1. \A i \in 1..Len(queue) : i \in 1..Len(events[c]) \/ i = Len(events[c]) + 1
        BY <3>1, <3>2
      <4> QED
        BY <1>2, <2>0, <3>2, <4>1
    <3>5. /\ events' \in [Calls -> Seq(Responses)] /\ events'[c] = queue
          /\ \A d \in Calls \ {c} : events'[d] = events[d]
      BY <1>2, <2>0, <2>2, <3>2
    <3>h. HIDE DEF queue
    <3> QED
      BY <1>2, <2>0, <3>3, <3>4, <3>5
  <2> QED
    BY <1>3, <2>1, <2>2
<1>5. TypeOK'
  <2>1. sink'.call \in Calls \cup {None}
    BY <1>1 DEF NoResponse
  <2> QED
    BY <1>0, <1>1, <1>4, <2>1 DEF TypeOK
<1>6. SlotHeld'
  BY <1>0, <1>1, <1>5 DEF SlotHeld
<1>7. Shapes' /\ Stored' /\ Returned'
  BY <1>0, <1>1, <1>4 DEF Shapes, Stored, StoredBy, Returned, ReturnedBy
<1>8. OnTheLink' /\ InTheSink'
  BY <1>0, <1>1, SentKept DEF OnTheLink, InTheSink
<1>9. InTheQueues'
  <2>1. \A d \in Calls : \A e : ForCall(d, e) => (Sent(e)' /\ e.to = "us" /\ e.key = key'[d])
    BY <1>1, SentKept DEF ForCall
  <2> QED
    BY <1>1, <1>4, <2>1 DEF InTheQueues, QueueOf, ForCall, Sent
<1> QED
  BY <1>6, <1>7, <1>8, <1>9 DEF DownloadInv

-----------------------------------------------------------------------------
(* The vehicle and the link. *)

\* A step of the vehicle or the link: what it adds was sent, and nothing of the
\* coordinator changes.
LEMMA VehicleMoves ==
    ASSUME DownloadInv, UNCHANGED <<inflight, sink, pc, key, events, count, items, result>>,
           asked' \subseteq asked, refused \subseteq refused', refused' \subseteq Keys,
           edits' \in 0..MaxEdit, strays' \in 0..MaxStray,
           edits' = 0 => edits = 0 /\ mission' = mission,
           mission' \in [Keys -> [len : Lengths, version : 0..edits']],
           \A r \in air' \ air : Sent(r)'
    PROVE  DownloadInv'
<1>0. /\ SlotHeld /\ TypeOK /\ Shapes /\ OnTheLink /\ InTheSink /\ InTheQueues /\ Stored /\ Returned
  BY DEF DownloadInv, SlotHeld
<1>1. TypeOK'
  <2>1. \A k \in Keys : mission'[k].len \in Lengths /\ mission'[k].version \in 0..MaxEdit
    OBVIOUS
  <2> QED
    BY <1>0, <2>1 DEF TypeOK
<1>2. SlotHeld' /\ Shapes'
  BY <1>0, <1>1 DEF SlotHeld, Shapes
<1>3. OnTheLink'
  BY <1>0, SentKept DEF OnTheLink
<1>4. InTheSink'
  <2>1. sink # NoResponse => ForCall(sink.call, sink.response)'
    BY <1>0, ForCallKept DEF InTheSink
  <2> QED
    BY <1>0, <2>1 DEF InTheSink
<1>5. InTheQueues'
  BY <1>0, ForCallKept DEF InTheQueues, QueueOf
<1>6. Stored' /\ Returned'
  BY <1>0 DEF Stored, StoredBy, Returned, ReturnedBy
<1> QED
  BY <1>2, <1>3, <1>4, <1>5, <1>6 DEF DownloadInv

\* What a vehicle answers is true of its mission.
LEMMA AnswersSent ==
    ASSUME TypeOK, Shapes, NEW q \in Requests, NEW to \in {"us", "other"}, NEW r \in Answers(q, to)
    PROVE  /\ r \in Responses /\ r.key = q.key /\ r.to = to
           /\ r.kind = "count" => r.n = mission[q.key].len /\ r.n \in Lengths
           /\ r.kind = "refusal" => q.kind = "item" /\ q.seq >= mission[q.key].len
<1>1. /\ q.key \in Keys /\ q.seq \in Nat /\ q.kind \in {"list", "item", "ack"}
      /\ mission[q.key].len \in Lengths /\ mission[q.key].len \in Nat /\ mission[q.key].version \in Nat
  <2>1. q.key \in Keys /\ q.seq \in Nat /\ q.kind \in {"list", "item", "ack"}
    BY DEF Requests
  <2>2. mission[q.key].len \in Lengths /\ mission[q.key].version \in 0..MaxEdit
    BY <2>1 DEF TypeOK
  <2>3. mission[q.key].len \in Nat
    BY <2>2
  <2>4. \A v \in 0..MaxEdit : v \in Nat
    OBVIOUS
  <2> QED
    BY <2>1, <2>2, <2>3, <2>4
<1>2. CASE q.kind = "list"
  <2>1. r = Response(q.key, "count", mission[q.key].len, mission[q.key].version, to)
    BY <1>2 DEF Answers
  <2> QED
    BY <1>1, <2>1 DEF Response, Responses
<1>3. CASE q.kind = "item" /\ q.seq < mission[q.key].len
  <2>1. r = Response(q.key, "item", q.seq, mission[q.key].version, to)
    BY <1>3 DEF Answers
  <2> QED
    BY <1>1, <2>1 DEF Response, Responses
<1>4. CASE q.kind = "item" /\ ~(q.seq < mission[q.key].len)
  <2>1. r = Response(q.key, "refusal", 0, 0, to)
    BY <1>4 DEF Answers
  <2> QED
    BY <1>1, <1>4, <2>1 DEF Response, Responses
<1>5. CASE q.kind = "ack"
  BY <1>5 DEF Answers
<1> QED
  BY <1>1, <1>2, <1>3, <1>4, <1>5

LEMMA AnswerInv ==
    ASSUME DownloadInv, NEW q \in asked, Answer(q)
    PROVE  DownloadInv'
<1>0. TypeOK /\ Shapes /\ q \in Requests
  BY DEF DownloadInv, SlotHeld, OnTheLink
<1>1. /\ asked' \subseteq asked /\ air' = air \cup Answers(q, "us")
      /\ UNCHANGED <<mission, edits, strays, inflight, sink, pc, key, events, count, items, result>>
      /\ refused' = IF q.kind = "item" /\ q.seq >= mission[q.key].len THEN refused \cup {q.key} ELSE refused
  BY DEF Answer, local
<1>2. refused \subseteq refused' /\ refused' \subseteq Keys
  BY <1>0, <1>1 DEF TypeOK, Requests
<1>3. ASSUME NEW r \in air' \ air
      PROVE  Sent(r)'
  <2>1. r \in Answers(q, "us")
    BY <1>1
  <2>2. /\ r \in Responses /\ r.key = q.key
        /\ r.kind = "count" => r.n = mission[q.key].len /\ r.n \in Lengths
        /\ r.kind = "refusal" => q.kind = "item" /\ q.seq >= mission[q.key].len
    BY <1>0, <2>1, AnswersSent
  <2>3. r.kind = "refusal" => r.key \in refused'
    BY <1>1, <2>2
  <2> QED
    BY <1>1, <2>2, <2>3 DEF Sent
<1>4. edits' \in 0..MaxEdit /\ strays' \in 0..MaxStray /\ mission' \in [Keys -> [len : Lengths, version : 0..edits']]
  BY <1>0, <1>1 DEF TypeOK, Shapes
<1> QED
  BY <1>1, <1>2, <1>3, <1>4, VehicleMoves

LEMMA RefuseInv ==
    ASSUME DownloadInv, NEW q \in asked, Refuse(q)
    PROVE  DownloadInv'
<1>0. TypeOK /\ Shapes /\ q \in Requests
  BY DEF DownloadInv, SlotHeld, OnTheLink
<1>1. /\ asked' \subseteq asked /\ air' = air \cup {Response(q.key, "refusal", 0, 0, "us")}
      /\ UNCHANGED <<mission, edits, strays, inflight, sink, pc, key, events, count, items, result>>
      /\ refused' = refused \cup {q.key}
  BY DEF Refuse, local
<1>2. refused \subseteq refused' /\ refused' \subseteq Keys /\ q.key \in Keys
  BY <1>0, <1>1 DEF TypeOK, Requests
<1>3. ASSUME NEW r \in air' \ air
      PROVE  Sent(r)'
  <2>1. r = Response(q.key, "refusal", 0, 0, "us")
    BY <1>1
  <2>2. r \in Responses /\ r.kind = "refusal" /\ r.key \in refused'
    BY <1>1, <1>2, <2>1 DEF Response, Responses
  <2> QED
    BY <2>2 DEF Sent
<1>4. edits' \in 0..MaxEdit /\ strays' \in 0..MaxStray /\ mission' \in [Keys -> [len : Lengths, version : 0..edits']]
  BY <1>0, <1>1 DEF TypeOK, Shapes
<1> QED
  BY <1>1, <1>2, <1>3, <1>4, VehicleMoves

LEMMA LostInv ==
    ASSUME DownloadInv, (\E q \in asked : RequestLost(q)) \/ (\E r \in air : ResponseLost(r))
    PROVE  DownloadInv'
<1>0. TypeOK /\ Shapes
  BY DEF DownloadInv, SlotHeld
<1>1. /\ asked' \subseteq asked /\ air' \subseteq air
      /\ UNCHANGED <<mission, refused, edits, strays, inflight, sink, pc, key, events, count, items, result>>
  BY DEF RequestLost, ResponseLost, local
<1>2. /\ edits' \in 0..MaxEdit /\ strays' \in 0..MaxStray /\ refused' \subseteq Keys
      /\ mission' \in [Keys -> [len : Lengths, version : 0..edits']]
  BY <1>0, <1>1 DEF TypeOK, Shapes
<1> QED
  BY <1>1, <1>2, VehicleMoves

LEMMA StrayInv ==
    ASSUME DownloadInv, NEW k \in Keys, Stray(k)
    PROVE  DownloadInv'
<1>0. TypeOK /\ Shapes
  BY DEF DownloadInv, SlotHeld
<1>1. /\ strays < MaxStray /\ strays' = strays + 1
      /\ UNCHANGED <<mission, asked, refused, edits, inflight, sink, pc, key, events, count, items, result>>
  BY DEF Stray, local
<1>2. PICK r : /\ r.kind = "refusal" => r.to = "other"
               /\ air' = air \cup {r}
               /\ \/ r = Response(k, "accepted", 0, 0, "us")
                  \/ \E q \in Requests, to \in {"us", "other"} : q.key = k /\ r \in Answers(q, to)
  <2>1. mission[k].len \in Nat
    BY <1>0 DEF TypeOK
  <2>2. /\ Request(k, "list", 0) \in Requests /\ Request(k, "list", 0).key = k
        /\ \A i \in 0..mission[k].len : Request(k, "item", i) \in Requests /\ Request(k, "item", i).key = k
    BY <2>1 DEF Request, Requests
  <2> DEFINE qs == {Request(k, "list", 0)} \cup {Request(k, "item", i) : i \in 0..mission[k].len}
             answered == {Answers(q, to) : q \in qs, to \in {"us", "other"}}
             accepted == Response(k, "accepted", 0, 0, "us")
  <2>3. PICK r \in (UNION answered) \cup {accepted} :
          /\ r.kind = "refusal" => r.to = "other"
          /\ air' = air \cup {r}
    BY DEF Stray
  <2>4. \A q \in qs : q \in Requests /\ q.key = k
    BY <2>2
  <2>5. CASE r \in UNION answered
    <3>1. PICK answers \in answered : r \in answers
      BY <2>5
    <3>2. \E q \in qs, to \in {"us", "other"} : answers = Answers(q, to)
      OBVIOUS
    <3>h. HIDE DEF qs, answered
    <3> QED
      BY <2>3, <2>4, <3>1, <3>2
  <2>6. CASE r = accepted
    BY <2>3, <2>6
  <2> QED
    BY <2>3, <2>5, <2>6
<1>3. Sent(r)
  <2>1. CASE r = Response(k, "accepted", 0, 0, "us")
    BY <2>1 DEF Response, Responses, Sent
  <2>2. CASE \E q \in Requests, to \in {"us", "other"} : q.key = k /\ r \in Answers(q, to)
    <3>1. PICK q \in Requests, to \in {"us", "other"} : q.key = k /\ r \in Answers(q, to)
      BY <2>2
    <3>2. /\ r \in Responses /\ r.key = k /\ r.to = to
          /\ r.kind = "count" => r.n = mission[k].len /\ r.n \in Lengths
      BY <1>0, <3>1, AnswersSent
    <3> QED
      BY <1>2, <3>2 DEF Sent
  <2> QED
    BY <1>2, <2>1, <2>2
<1>4. \A x \in air' \ air : Sent(x)'
  <2>1. Sent(r)'
    BY <1>1, <1>3, SentKept
  <2> QED
    BY <1>2, <2>1
<1>5. /\ edits' \in 0..MaxEdit /\ strays' \in 0..MaxStray /\ refused' \subseteq Keys
      /\ mission' \in [Keys -> [len : Lengths, version : 0..edits']]
  BY <1>0, <1>1 DEF TypeOK, Shapes
<1> QED
  BY <1>1, <1>4, <1>5, VehicleMoves

LEMMA EditInv ==
    ASSUME DownloadInv, NEW k \in Keys, Edit(k)
    PROVE  DownloadInv'
<1>0. TypeOK /\ Shapes
  BY DEF DownloadInv, SlotHeld
<1>1. /\ edits < MaxEdit /\ edits' = edits + 1
      /\ UNCHANGED <<asked, air, refused, strays, inflight, sink, pc, key, events, count, items, result>>
  BY DEF Edit, local
<1>2. edits \in Nat /\ edits' \in 0..MaxEdit /\ edits' # 0 /\ strays' \in 0..MaxStray /\ refused' \subseteq Keys
  BY <1>0, <1>1 DEF TypeOK
<1>3. mission' \in [Keys -> [len : Lengths, version : 0..edits']]
  <2>1. PICK n \in Lengths : mission' = [mission EXCEPT ![k] = [len |-> n, version |-> @.version + 1]]
    BY DEF Edit
  <2>2. \A j \in Keys : mission[j] \in [len : Lengths, version : 0..edits]
    BY <1>0 DEF Shapes
  <2>3. \A j \in Keys : mission[j] \in [len : Lengths, version : 0..edits']
    BY <1>1, <1>2, <2>2
  <2>4. [len |-> n, version |-> mission[k].version + 1] \in [len : Lengths, version : 0..edits']
    BY <1>1, <1>2, <2>2
  <2> QED
    BY <1>0, <2>1, <2>3, <2>4 DEF Shapes
<1> QED
  BY <1>1, <1>2, <1>3, VehicleMoves

-----------------------------------------------------------------------------
(* The theorems. *)

LEMMA StepInv ==
    DownloadInv /\ [Next]_vars => DownloadInv'
<1> SUFFICES ASSUME DownloadInv, [Next]_vars
             PROVE  DownloadInv'
  OBVIOUS
<1>1. CASE \E c \in Calls : Runs(c) \/ \E k \in Keys : Download(c, k)
  BY <1>1, WriteInv, GiveUpInv, AwaitCountInv, AwaitItemInv, ReleaseInv, DownloadStepInv DEF Runs
<1>2. CASE \E r \in air : PublishLookup(r) \/ ResponseLost(r)
  BY <1>2, PublishLookupInv, LostInv
<1>3. CASE PublishSend
  BY <1>3, PublishSendInv
<1>4. CASE \E q \in asked : Answer(q) \/ Refuse(q) \/ RequestLost(q)
  BY <1>4, AnswerInv, RefuseInv, LostInv
<1>5. CASE \E k \in Keys : Stray(k) \/ Edit(k)
  BY <1>5, StrayInv, EditInv
<1>6. CASE UNCHANGED vars
  <2>1. /\ UNCHANGED <<mission, asked, air, refused, edits, strays, inflight, sink, pc>>
        /\ UNCHANGED <<key, events, count, items, result>>
    BY <1>6 DEF vars, vehicle, local
  <2>2. TypeOK /\ Shapes
    BY DEF DownloadInv, SlotHeld
  <2>3. /\ edits' \in 0..MaxEdit /\ strays' \in 0..MaxStray /\ refused' \subseteq Keys
        /\ mission' \in [Keys -> [len : Lengths, version : 0..edits']]
    BY <2>1, <2>2 DEF TypeOK, Shapes
  <2> QED
    BY <2>1, <2>3, VehicleMoves
<1> QED
  BY <1>1, <1>2, <1>3, <1>4, <1>5, <1>6 DEF Next

LEMMA DownloadInvariance ==
    Spec => []DownloadInv
  BY InitInv, StepInv, PTL DEF Spec

\* However many HTTP goroutines call Download, a slot of Coordinator.inflight belongs to
\* exactly the one call that is running for its key, and every way out frees it.
THEOREM SlotHeldAlways ==
    Spec => []SlotHeld
<1>1. DownloadInv => SlotHeld
  BY DEF DownloadInv
<1> QED
  BY <1>1, DownloadInvariance, PTL

\* Whatever the link loses, repeats or reorders and whichever call is given a late
\* response, what Download returns is the advertised items in order, of its own key;
\* and ErrRejected is never the refusal of another station's request.
THEOREM AssembledAlways ==
    Spec => []Assembled
<1>1. DownloadInv => Assembled
  <2> SUFFICES ASSUME DownloadInv, NEW c \in Calls
               PROVE  /\ result[c] = "snapshot" =>
                            /\ Len(items[c]) = count[c]
                            /\ \A i \in DOMAIN items[c] : items[c][i].key = key[c] /\ items[c][i].seq = i - 1
                      /\ result[c] = "rejected" => key[c] \in refused
    BY DEF Assembled
  <2>1. StoredBy(c) /\ ReturnedBy(c) /\ items[c] \in Seq(Items)
    BY DEF DownloadInv, Stored, Returned, Shapes
  <2>2. DOMAIN items[c] = 1..Len(items[c])
    BY <2>1, LenProperties
  <2> QED
    BY <2>1, <2>2 DEF StoredBy, ReturnedBy
<1> QED
  BY <1>1, DownloadInvariance, PTL

\* While no other station replaces the mission, a snapshot has as many items as the
\* vehicle's mission: run cannot be talked into a truncated one.
THEOREM WholeMissionAlways ==
    Spec => []WholeMission
<1>1. DownloadInv => WholeMission
  <2> SUFFICES ASSUME DownloadInv, NEW c \in Calls, result[c] = "snapshot", edits = 0
               PROVE  Len(items[c]) = mission[key[c]].len
    BY DEF WholeMission
  <2>1. StoredBy(c) /\ ReturnedBy(c) /\ items[c] \in Seq(Items)
    BY DEF DownloadInv, Stored, Returned, Shapes
  <2>2. Len(items[c]) \in Nat /\ Len(items[c]) = count[c]
    BY <2>1, LenProperties DEF ReturnedBy
  <2> QED
    BY <2>1, <2>2 DEF StoredBy, NoCount
<1> QED
  BY <1>1, DownloadInvariance, PTL
=============================================================================
