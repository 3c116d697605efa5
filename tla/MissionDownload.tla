--------------------------- MODULE MissionDownload ---------------------------
(***************************************************************************)
(* The mission download coordinator of internal/mission/coordinator.go:    *)
(* Download calls on HTTP goroutines, Publish on the bridge goroutine, and *)
(* a vehicle at the other end of a link that loses, repeats and reorders   *)
(* messages and serves other ground stations too.                          *)
(*                                                                         *)
(* A key is a (system, component, mission type).  An item is its key, its  *)
(* sequence number and the version of the mission it was read from: what a *)
(* waypoint says is of no concern here.                                    *)
(***************************************************************************)
EXTENDS Integers, Sequences, FiniteSets

CONSTANTS
    Keys,          \* transaction slots
    Calls,         \* calls of Download
    Lengths,       \* how many items a mission may have
    Buffer,        \* eventBuffer
    MaxEdit,       \* bound: missions replaced onboard
    MaxStray       \* bound: responses repeated, unasked for, or for another station

ASSUME BufferAssumption == Buffer \in Nat \ {0}
ASSUME LengthsAssumption == Lengths \subseteq Nat /\ Lengths # {}
ASSUME MissionBounds == MaxEdit \in Nat /\ MaxStray \in Nat

VARIABLES
    \* the vehicles and the link
    mission,     \* length and version of the mission behind each key
    asked,       \* requests on their way to a vehicle
    air,         \* responses on their way to the bridge
    refused,     \* the keys whose vehicle has refused a request of this station
    edits, strays,
    \* the coordinator
    inflight,    \* Coordinator.inflight: the call that holds the slot, or None
    sink,        \* the response Publish has found a download for
    \* by call
    pc,          \* where the call is
    key,         \* what it downloads
    events,      \* download.events
    count,       \* the count it accepted, NoCount before
    items,       \* the items it has stored
    result       \* what it returned

None == "none"
\* No call and no slot is the absent one.
ASSUME NamesAssumption == None \notin Calls \cup Keys
NoCount == -1
vehicle == <<mission, asked, air, refused, edits, strays>>
local == <<key, events, count, items, result>>
vars == <<vehicle, inflight, sink, pc, local>>

Waiting == {"count", "item"}
Holding == Waiting \cup {"list", "request", "ack", "release"}

Request(k, kind, seq) == [key |-> k, kind |-> kind, seq |-> seq]
Response(k, kind, n, version, to) == [key |-> k, kind |-> kind, n |-> n, version |-> version, to |-> to]
NoResponse == [call |-> None, response |-> Response(None, "none", 0, 0, "us")]

Init ==
    /\ mission \in [Keys -> [len : Lengths, version : {0}]]
    /\ asked = {} /\ air = {} /\ refused = {} /\ edits = 0 /\ strays = 0
    /\ inflight = [k \in Keys |-> None] /\ sink = NoResponse
    /\ pc = [c \in Calls |-> "new"] /\ key = [c \in Calls |-> None]
    /\ events = [c \in Calls |-> <<>>] /\ count = [c \in Calls |-> NoCount]
    /\ items = [c \in Calls |-> <<>>] /\ result = [c \in Calls |-> None]

-----------------------------------------------------------------------------
(* Download. *)

Goes(c, to) == pc' = [pc EXCEPT ![c] = to]
\* run returns an error, and what it has stored is gone.  A caller tells rejection from
\* the other failures: no route, a failed write, a timeout, a cancelled request.
Fails(c, error) ==
    /\ Goes(c, "release") /\ result' = [result EXCEPT ![c] = error]
    /\ count' = [count EXCEPT ![c] = NoCount] /\ items' = [items EXCEPT ![c] = <<>>]

ClaimsAnyway(k) == TRUE
Claims(k) == inflight[k] = None

\* The route is resolved before the slot is claimed, and may be missing.
Download(c, k) ==
    /\ pc[c] = "new" /\ key' = [key EXCEPT ![c] = k]
    /\ \/ Claims(k) /\ Goes(c, "list") /\ inflight' = [inflight EXCEPT ![k] = c] /\ UNCHANGED result
       \/ Goes(c, "done") /\ result' = [result EXCEPT ![c] = "failed"] /\ UNCHANGED inflight
    /\ UNCHANGED <<vehicle, sink, events, count, items>>

\* What the call writes next, and where it waits for the answer.
Writes(c) ==
    CASE pc[c] = "list" -> Request(key[c], "list", 0)
      [] pc[c] = "request" -> Request(key[c], "item", Len(items[c]))
      [] pc[c] = "ack" -> Request(key[c], "ack", 0)

Write(c) ==
    /\ pc[c] \in {"list", "request", "ack"}
    /\ asked' = asked \cup {Writes(c)}
    /\ CASE pc[c] = "list" -> Goes(c, "count") /\ UNCHANGED result
         [] pc[c] = "request" -> Goes(c, "item") /\ UNCHANGED result
         [] pc[c] = "ack" -> Goes(c, "release") /\ result' = [result EXCEPT ![c] = "snapshot"]
    /\ UNCHANGED <<mission, air, refused, edits, strays, inflight, sink, key, events, count, items>>

WriteFails(c) ==
    /\ pc[c] \in {"list", "request", "ack"}
    /\ Fails(c, "failed")
    /\ UNCHANGED <<vehicle, inflight, sink, key, events>>

\* The loop over the advertised sequence numbers.
AfterItem(stored, n) == IF stored = n THEN "ack" ELSE "request"

AwaitCount(c) ==
    /\ pc[c] = "count" /\ events[c] # <<>>
    /\ events' = [events EXCEPT ![c] = Tail(@)]
    /\ LET e == Head(events[c]) IN
       CASE e.kind = "refusal" -> Fails(c, "rejected")
         [] e.kind = "count" -> /\ count' = [count EXCEPT ![c] = e.n]
                                /\ Goes(c, AfterItem(0, e.n)) /\ UNCHANGED <<items, result>>
         [] OTHER -> UNCHANGED <<pc, count, items, result>>
    /\ UNCHANGED <<vehicle, inflight, sink, key>>

WantedInRange(c, e) == e.n < count[c]
\* Only the item that answers the outstanding request.
Wanted(c, e) == e.n < count[c] /\ e.n = Len(items[c])

AwaitItem(c) ==
    /\ pc[c] = "item" /\ events[c] # <<>>
    /\ events' = [events EXCEPT ![c] = Tail(@)]
    /\ LET e == Head(events[c]) IN
       CASE e.kind = "refusal" -> Fails(c, "rejected")
         [] e.kind = "item" /\ Wanted(c, e) ->
               /\ items' = [items EXCEPT ![c] = Append(@, [key |-> e.key, seq |-> e.n, version |-> e.version])]
               /\ Goes(c, AfterItem(Len(items[c]) + 1, count[c])) /\ UNCHANGED <<count, result>>
         [] OTHER -> UNCHANGED <<pc, count, items, result>>
    /\ UNCHANGED <<vehicle, inflight, sink, key>>

\* next: the timer of this response fires, or the client goes away.
GiveUp(c) ==
    /\ pc[c] \in Waiting
    /\ Fails(c, "failed")
    /\ UNCHANGED <<vehicle, inflight, sink, key, events>>

Release(c) ==
    /\ pc[c] = "release" /\ Goes(c, "done")
    /\ inflight' = [inflight EXCEPT ![key[c]] = None]
    /\ events' = [events EXCEPT ![c] = <<>>]
    /\ UNCHANGED <<vehicle, sink, key, count, items, result>>

-----------------------------------------------------------------------------
(* Publish, on the bridge goroutine. *)

ForUs(r) == r.to = "us"
SlotOfAny(r) == IF \E k \in Keys : inflight[k] # None
                THEN inflight[CHOOSE k \in Keys : inflight[k] # None] ELSE None
\* The download in flight for the sender and the mission type.
SlotOf(r) == inflight[r.key]

\* A response arrives; the lock is released before the download is given it.
PublishLookup(r) ==
    /\ r \in air /\ sink = NoResponse
    /\ air' = air \ {r}
    /\ sink' = IF ForUs(r) /\ SlotOf(r) # None THEN [call |-> SlotOf(r), response |-> r] ELSE sink
    /\ UNCHANGED <<mission, asked, refused, edits, strays, inflight, pc, local>>

HasRoom(c) == Len(events[c]) < Buffer

\* A full queue drops the response: the fold is never blocked.  The queue of a call
\* that has returned meanwhile is read by nobody.
PublishSend ==
    /\ sink # NoResponse /\ sink' = NoResponse
    /\ events' = IF HasRoom(sink.call) /\ pc[sink.call] # "done"
                 THEN [events EXCEPT ![sink.call] = Append(@, sink.response)] ELSE events
    /\ UNCHANGED <<vehicle, inflight, pc, key, count, items, result>>

-----------------------------------------------------------------------------
(* The vehicle and the link. *)

Answers(q, to) ==
    LET m == mission[q.key] IN
    CASE q.kind = "list" -> {Response(q.key, "count", m.len, m.version, to)}
      [] q.kind = "item" /\ q.seq < m.len -> {Response(q.key, "item", q.seq, m.version, to)}
      [] q.kind = "ack" -> {}
      [] OTHER -> {Response(q.key, "refusal", 0, 0, to)}

Answer(q) ==
    /\ q \in asked /\ asked' = asked \ {q}
    /\ air' = air \cup Answers(q, "us")
    /\ refused' = IF q.kind = "item" /\ q.seq >= mission[q.key].len THEN refused \cup {q.key} ELSE refused
    /\ UNCHANGED <<mission, edits, strays, inflight, sink, pc, local>>

Refuse(q) ==
    /\ q \in asked /\ asked' = asked \ {q} /\ q.kind # "ack"
    /\ air' = air \cup {Response(q.key, "refusal", 0, 0, "us")}
    /\ refused' = refused \cup {q.key}
    /\ UNCHANGED <<mission, edits, strays, inflight, sink, pc, local>>

RequestLost(q) ==
    /\ q \in asked /\ asked' = asked \ {q}
    /\ UNCHANGED <<mission, air, refused, edits, strays, inflight, sink, pc, local>>

ResponseLost(r) ==
    /\ r \in air /\ air' = air \ {r}
    /\ UNCHANGED <<mission, asked, refused, edits, strays, inflight, sink, pc, local>>

\* A response that is sent again, answers another station's request, or accepts something.
Stray(k) ==
    /\ strays < MaxStray /\ strays' = strays + 1
    /\ \E r \in (UNION {Answers(q, to) : q \in {Request(k, "list", 0)}
                                               \cup {Request(k, "item", i) : i \in 0..mission[k].len},
                                         to \in {"us", "other"}})
                \cup {Response(k, "accepted", 0, 0, "us")} :
          /\ r.kind = "refusal" => r.to = "other"
          /\ air' = air \cup {r}
    /\ UNCHANGED <<mission, asked, refused, edits, inflight, sink, pc, local>>

\* Another station uploads a mission.
Edit(k) ==
    /\ edits < MaxEdit /\ edits' = edits + 1
    /\ \E n \in Lengths : mission' = [mission EXCEPT ![k] = [len |-> n, version |-> @.version + 1]]
    /\ UNCHANGED <<asked, air, refused, strays, inflight, sink, pc, local>>

Runs(c) == Write(c) \/ WriteFails(c) \/ AwaitCount(c) \/ AwaitItem(c) \/ GiveUp(c) \/ Release(c)
Next ==
    \/ \E c \in Calls : Runs(c) \/ \E k \in Keys : Download(c, k)
    \/ \E r \in air : PublishLookup(r) \/ ResponseLost(r)
    \/ PublishSend
    \/ \E q \in asked : Answer(q) \/ Refuse(q) \/ RequestLost(q)
    \/ \E k \in Keys : Stray(k) \/ Edit(k)

Spec == Init /\ [][Next]_vars
-----------------------------------------------------------------------------
(* Properties. *)

\* Every variable keeps its type, and no download's queue outgrows its buffer.
TypeOK ==
    /\ \A k \in Keys : mission[k].len \in Lengths /\ mission[k].version \in 0..MaxEdit
    /\ refused \subseteq Keys /\ edits \in 0..MaxEdit /\ strays \in 0..MaxStray
    /\ inflight \in [Keys -> Calls \cup {None}] /\ sink.call \in Calls \cup {None}
    /\ pc \in [Calls -> Holding \cup {"new", "done"}] /\ key \in [Calls -> Keys \cup {None}]
    /\ \A c \in Calls : /\ Len(events[c]) <= Buffer
                        /\ count[c] \in Lengths \cup {NoCount}
                        /\ result[c] \in {"snapshot", "rejected", "failed", None}

\* The state has its types, and a slot belongs to the one call that is still running for its key: no two downloads
\* share a transfer, and every way out of Download frees the slot (claim, release).
SlotHeld ==
    /\ TypeOK
    /\ \A k \in Keys, c \in Calls : inflight[k] = c <=> key[c] = k /\ pc[c] \in Holding

\* A snapshot has the advertised items, each once, in the vehicle's order, and of this
\* vehicle and mission type only, whatever was repeated, reordered or lost (Download);
\* and rejected is reported only where the vehicle has refused a request of this station,
\* not for a refusal addressed to another one (Publish).
Assembled ==
    \A c \in Calls :
        /\ result[c] = "snapshot" =>
              /\ Len(items[c]) = count[c]
              /\ \A i \in DOMAIN items[c] : items[c][i].key = key[c] /\ items[c][i].seq = i - 1
        /\ result[c] = "rejected" => key[c] \in refused

\* While nobody replaces the mission, a snapshot is the whole of it: no failure, late
\* response or full queue can produce a truncated one (run).
WholeMission ==
    \A c \in Calls : result[c] = "snapshot" =>
        (edits = 0 => Len(items[c]) = mission[key[c]].len)
=============================================================================
