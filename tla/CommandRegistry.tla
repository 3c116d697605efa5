--------------------------- MODULE CommandRegistry ---------------------------
(***************************************************************************)
(* The arm/disarm transaction registry of internal/command/registry.go.    *)
(*                                                                         *)
(* Every HTTP request runs Registry.Arm or Registry.ResolveArm on its own  *)
(* goroutine; the bridge goroutine runs Registry.Publish for every         *)
(* COMMAND_ACK.  The mutex mu is held for short sections only: the link    *)
(* write, the wait for the answer and every publication happen outside it, *)
(* so each of them is a step of its own here and all of them interleave.   *)
(*                                                                         *)
(* A COMMAND_ACK names a vehicle and a command, never a transaction.  The  *)
(* field tx of an answer in the air is a history field: it records which   *)
(* transaction the vehicle really answered.                                *)
(***************************************************************************)
EXTENDS Integers, Sequences

CONSTANTS
    Keys,          \* (vehicle, autopilot component, COMPONENT_ARM_DISARM) keys
    Callers,       \* goroutines that can run Arm
    Operators,     \* goroutines that can run ResolveArm
    Quarantine,    \* Registry.quarantine(), in ticks of the model's clock
    AckDelay,      \* longest time between writing a command and its answer
    Duplicates,    \* may the link deliver one answer twice?
    MaxTx,         \* bound: transactions issued by one process
    MaxTime,       \* bound: clock
    MaxEpoch       \* bound: process restarts

ASSUME KeysAssumption == Keys # {}
ASSUME QuarantineAssumption == Quarantine \in Nat \ {0}
ASSUME AckDelayAssumption == AckDelay \in Nat
ASSUME DuplicatesAssumption == Duplicates \in BOOLEAN
ASSUME BoundAssumption == MaxTx \in Nat /\ MaxTime \in Nat /\ MaxEpoch \in Nat

VARIABLES
    now,           \* Registry.now()
    epoch,         \* Registry.Epoch: one value per process lifetime
    nextID,        \* Registry.nextID
    inflight,      \* Registry.inflight: key -> transaction id, or None
    poisoned,      \* Registry.poisoned: key -> retained transaction id, or None
    quarantined,   \* Registry.quarantined: key -> deadline, or None
    state,         \* CommandTransaction.State of every transaction
    key,           \* CommandTransaction.VehicleId: the key it was issued for
    ackChan,       \* pending.ack, a channel of capacity one
    pc, callerTx,  \* where each Arm call is, and its transaction
    verdict,       \* the local variable `state' of Arm, chosen by its select
    sink,          \* Publish on the bridge goroutine, between unlock and send
    resolver,      \* ResolveArm between unlock and publication: its transaction
    log,           \* transaction snapshots handed to the Publisher, in order
    air,           \* answers of vehicles that have not reached the bridge
    \* history variables
    issuedAt,      \* when each transaction was issued
    attestedAt,    \* when each transaction was attested, or None
    attestedAs,    \* the reference (epoch, id) the operator attested
    settledBy      \* the transaction whose answer settled each transaction

registry == <<now, epoch, nextID, inflight, poisoned, quarantined>>
txVars == <<state, key, issuedAt, attestedAt, attestedAs, settledBy>>
callVars == <<pc, callerTx, verdict>>
vars == <<registry, txVars, callVars, ackChan, sink, resolver, log, air>>

None == 0
TxId == 1..MaxTx
Time == 1..MaxTime
Ambiguous == {"SEND_FAILED", "TIMED_OUT", "CANCELLED"}
Answered == {"ACCEPTED", "REJECTED"}
Terminal == Ambiguous \cup Answered
\* "UNSENT" is a transaction whose link had gone: its id is used, nothing else.
States == {"UNISSUED", "PENDING", "UNSENT"} \cup Terminal
\* MAV_RESULT: what the registry tells apart.
Results == {"OK", "REFUSED", "IN_PROGRESS"}
NoAck == [tx |-> None, result |-> "none"]
Idle == [to |-> None, ack |-> NoAck]
Ack == [tx : TxId \cup {None}, result : {"OK", "REFUSED"}]
Snapshot == [tx : TxId, state : Terminal \cup {"PENDING"}, resolved : BOOLEAN]
Answer == [key : Keys, tx : TxId \cup {None}, target : {"gcs"}, due : Nat]
\* Another ground station commands the vehicle; its answer is overheard here.
Overheard == [key : Keys, tx : {None}, target : {"other"}, due : {None}]

NewTx == [t \in TxId |-> None]

Init ==
    /\ now = 1
    /\ epoch = 1
    /\ nextID = 0
    /\ inflight = [k \in Keys |-> None]
    /\ poisoned = [k \in Keys |-> None]
    /\ quarantined = [k \in Keys |-> None]
    /\ state = [t \in TxId |-> "UNISSUED"]
    /\ key = [t \in TxId |-> CHOOSE k \in Keys : TRUE]
    /\ issuedAt = NewTx
    /\ attestedAt = NewTx
    /\ attestedAs = [t \in TxId |-> <<None, None>>]
    /\ settledBy = NewTx
    /\ ackChan = [t \in TxId |-> NoAck]
    /\ pc = [c \in Callers |-> "idle"]
    /\ callerTx = [c \in Callers |-> None]
    /\ verdict = [c \in Callers |-> "PENDING"]
    /\ sink = Idle
    /\ resolver = [o \in Operators |-> None]
    /\ log = <<>>
    /\ air = {}

-----------------------------------------------------------------------------
(* remainingQuarantineLocked: is the key still closed, and the map after   *)
(* the lazy removal of an entry that has expired.                          *)
Quarantined(k) == quarantined[k] # None /\ now < quarantined[k]
AfterExpiry(k) ==
    IF Quarantined(k) THEN quarantined ELSE [quarantined EXCEPT ![k] = None]

\* When an attestation made now lets the key reopen.
QuarantineSkipped == now
QuarantineUntil == now + Quarantine

\* Arm's three refusals, in the first locked section.
RefusesUnlessPoisoned(k) == Quarantined(k) \/ inflight[k] # None
Refuses(k) == poisoned[k] # None \/ Quarantined(k) \/ inflight[k] # None

\* Where Arm goes after WriteTo.
AfterWriteUnannounced(outcome) ==
    CASE outcome = "sent" -> "await"
      [] outcome = "error" -> "writeFailed"
      [] outcome = "unknownLink" -> "unroutable"
AfterWrite(outcome) ==
    CASE outcome = "sent" -> "announce"
      [] outcome = "error" -> "writeFailed"
      [] outcome = "unknownLink" -> "unroutable"

\* The ways out of Arm's select that do not need an answer.
NoWayOut == {}
GiveUp == {"TIMED_OUT", "CANCELLED"}

\* Which of them leave the key poisoned.
GiveUpPoisons(v) == v \in {"TIMED_OUT", "CANCELLED"}

\* Does the reference of an attestation name the retained transaction?
NamesIdOnly(k, refEpoch, refId) == refId = poisoned[k]
Names(k, refEpoch, refId) == refEpoch = epoch /\ refId = poisoned[k]

\* Is an answer final?  IN_PROGRESS is not.
AlwaysFinal(result) == TRUE
Final(result) == result # "IN_PROGRESS"

\* Registry.publish: best effort, one snapshot to the Publisher.  A request
\* that was cancelled is published all the same (context.WithoutCancel).
PublishedUnlessCancelled(t, resolved) ==
    IF state[t] = "CANCELLED" THEN log
    ELSE Append(log, [tx |-> t, state |-> state[t], resolved |-> resolved])
Published(t, resolved) ==
    Append(log, [tx |-> t, state |-> state[t], resolved |-> resolved])

-----------------------------------------------------------------------------
(* Registry.Arm *)

\* The first locked section refuses a key that is not open.  A refusal writes
\* nothing: a live quarantine stays, and an expired one is never refused.
ArmRefused(c, k) ==
    /\ pc[c] = "idle"
    /\ Refuses(k)
    /\ UNCHANGED vars

\* The first locked section issues a transaction and claims the key.
ArmIssue(c, k) ==
    /\ pc[c] = "idle"
    /\ ~Refuses(k)
    /\ nextID < MaxTx
    /\ nextID' = nextID + 1
    /\ quarantined' = AfterExpiry(k)
    /\ inflight' = [inflight EXCEPT ![k] = nextID']
    /\ state' = [state EXCEPT ![nextID'] = "PENDING"]
    /\ key' = [key EXCEPT ![nextID'] = k]
    /\ issuedAt' = [issuedAt EXCEPT ![nextID'] = now]
    /\ callerTx' = [callerTx EXCEPT ![c] = nextID']
    /\ pc' = [pc EXCEPT ![c] = "write"]
    /\ UNCHANGED <<now, epoch, poisoned, attestedAt, attestedAs, settledBy, verdict,
                   ackChan, sink, resolver, log, air>>

\* Source.WriteTo, outside the lock.  A write that reports an error may still
\* have put the frame on the link; ErrUnknownLink has not.
ArmWrite(c, outcome) ==
    LET t == callerTx[c]
        answer == [key |-> key[t], tx |-> t, target |-> "gcs",
                   due |-> now + AckDelay]
    IN  /\ pc[c] = "write"
        /\ pc' = [pc EXCEPT ![c] = AfterWrite(outcome)]
        /\ air' = IF outcome = "unknownLink" THEN air ELSE air \cup {answer}
        /\ UNCHANGED <<registry, txVars, callerTx, verdict, ackChan, sink,
                       resolver, log>>

\* The link vanished between Resolve and WriteTo: no poison, no publication.
ArmUnroutable(c) ==
    LET t == callerTx[c]
    IN  /\ pc[c] = "unroutable"
        /\ inflight' = [inflight EXCEPT ![key[t]] = None]
        /\ state' = [state EXCEPT ![t] = "UNSENT"]
        /\ pc' = [pc EXCEPT ![c] = "idle"]
        /\ callerTx' = [callerTx EXCEPT ![c] = None]
        /\ UNCHANGED <<now, epoch, nextID, poisoned, quarantined, key,
                       issuedAt, attestedAt, attestedAs, settledBy, verdict, ackChan,
                       sink, resolver, log, air>>

\* Any other write error: nobody knows whether the vehicle got the frame.
ArmWriteFailed(c) ==
    LET t == callerTx[c]
    IN  /\ pc[c] = "writeFailed"
        /\ inflight' = [inflight EXCEPT ![key[t]] = None]
        /\ poisoned' = [poisoned EXCEPT ![key[t]] = t]
        /\ state' = [state EXCEPT ![t] = "SEND_FAILED"]
        /\ pc' = [pc EXCEPT ![c] = "report"]
        /\ UNCHANGED <<now, epoch, nextID, quarantined, key, issuedAt,
                       attestedAt, attestedAs, settledBy, callerTx, verdict, ackChan,
                       sink, resolver, log, air>>

\* The PENDING snapshot is published before the wait begins.
ArmAnnounce(c) ==
    /\ pc[c] = "announce"
    /\ log' = Published(callerTx[c], FALSE)
    /\ pc' = [pc EXCEPT ![c] = "await"]
    /\ UNCHANGED <<registry, txVars, callerTx, verdict, ackChan, sink,
                   resolver, air>>

\* select: an answer in the channel, the timer, or the request's context.
\* Whichever are ready, Go picks one of them.
ArmSelectAck(c) ==
    LET t == callerTx[c]
    IN  /\ pc[c] = "await"
        /\ ackChan[t] # NoAck
        /\ verdict' = [verdict EXCEPT ![c] =
                        IF ackChan[t].result = "OK" THEN "ACCEPTED" ELSE "REJECTED"]
        /\ settledBy' = [settledBy EXCEPT ![t] = ackChan[t].tx]
        /\ ackChan' = [ackChan EXCEPT ![t] = NoAck]
        /\ pc' = [pc EXCEPT ![c] = "settle"]
        /\ UNCHANGED <<registry, state, key, issuedAt, attestedAt, attestedAs, callerTx,
                       sink, resolver, log, air>>

ArmSelectGiveUp(c, why) ==
    /\ pc[c] = "await"
    /\ verdict' = [verdict EXCEPT ![c] = why]
    /\ pc' = [pc EXCEPT ![c] = "settle"]
    /\ UNCHANGED <<registry, txVars, callerTx, ackChan, sink, resolver, log, air>>

\* The last locked section: free the key, stamp the state, poison an ambiguity.
ArmSettle(c) ==
    LET t == callerTx[c]
    IN  /\ pc[c] = "settle"
        /\ inflight' = [inflight EXCEPT ![key[t]] = None]
        /\ state' = [state EXCEPT ![t] = verdict[c]]
        /\ poisoned' = IF GiveUpPoisons(verdict[c])
                       THEN [poisoned EXCEPT ![key[t]] = t]
                       ELSE poisoned
        /\ pc' = [pc EXCEPT ![c] = "report"]
        /\ UNCHANGED <<now, epoch, nextID, quarantined, key, issuedAt,
                       attestedAt, attestedAs, settledBy, callerTx, verdict, ackChan,
                       sink, resolver, log, air>>

\* The terminal snapshot, after the lock has been released, and the return.
ArmReport(c) ==
    /\ pc[c] = "report"
    /\ log' = Published(callerTx[c], FALSE)
    /\ pc' = [pc EXCEPT ![c] = "idle"]
    /\ callerTx' = [callerTx EXCEPT ![c] = None]
    /\ verdict' = [verdict EXCEPT ![c] = "PENDING"]
    /\ UNCHANGED <<registry, txVars, ackChan, sink, resolver, air>>

-----------------------------------------------------------------------------
(* Registry.ResolveArm.  The reference (epoch, id) comes from a browser     *)
(* that may be stale, so it is any reference of this or an earlier process. *)

ResolveRefused(o, k, refEpoch, refId) ==
    /\ resolver[o] = None
    /\ poisoned[k] = None \/ ~Names(k, refEpoch, refId)
    /\ UNCHANGED vars

ResolveArm(o, k, refEpoch, refId) ==
    /\ resolver[o] = None
    /\ poisoned[k] # None
    /\ Names(k, refEpoch, refId)
    /\ inflight[k] = None
    /\ poisoned' = [poisoned EXCEPT ![k] = None]
    /\ quarantined' = [quarantined EXCEPT ![k] = QuarantineUntil]
    /\ attestedAt' = [attestedAt EXCEPT ![poisoned[k]] = now]
    /\ attestedAs' = [attestedAs EXCEPT ![poisoned[k]] = <<refEpoch, refId>>]
    /\ resolver' = [resolver EXCEPT ![o] = poisoned[k]]
    /\ UNCHANGED <<now, epoch, nextID, inflight, state, key, issuedAt,
                   settledBy, callVars, ackChan, sink, log, air>>

ResolvePublish(o) ==
    /\ resolver[o] # None
    /\ log' = Published(resolver[o], TRUE)
    /\ resolver' = [resolver EXCEPT ![o] = None]
    /\ UNCHANGED <<registry, txVars, callVars, ackChan, sink, air>>

\* Registry.QuarantineRemaining, whose only effect is the lazy removal.
QuarantineRemaining(k) ==
    /\ quarantined[k] # None
    /\ quarantined' = AfterExpiry(k)
    /\ UNCHANGED <<now, epoch, nextID, inflight, poisoned, txVars, callVars,
                   ackChan, sink, resolver, log, air>>

-----------------------------------------------------------------------------
(* Registry.Publish on the bridge goroutine *)

\* Lookup under the lock.  It matches on the key alone.
AckLookup(a, result) ==
    LET t == inflight[a.key]
        closed == t = None \/ poisoned[a.key] # None \/ Quarantined(a.key)
    IN  /\ sink = Idle
        /\ \/ air' = air \ {a}
           \/ (Duplicates \/ result = "IN_PROGRESS") /\ air' = air
        /\ IF a.target # "gcs"
           THEN UNCHANGED <<sink, quarantined>>
           ELSE /\ quarantined' = AfterExpiry(a.key)
                /\ sink' = IF closed \/ ~Final(result) THEN Idle
                           ELSE [to |-> t, ack |-> [tx |-> a.tx, result |-> result]]
        /\ UNCHANGED <<now, epoch, nextID, inflight, poisoned, txVars,
                       callVars, ackChan, resolver, log>>

\* The non-blocking send, after the lock has been released.
AckSend ==
    /\ sink # Idle
    /\ ackChan' = IF ackChan[sink.to] = NoAck
                  THEN [ackChan EXCEPT ![sink.to] = sink.ack]
                  ELSE ackChan
    /\ sink' = Idle
    /\ UNCHANGED <<registry, txVars, callVars, resolver, log, air>>

-----------------------------------------------------------------------------
(* The world around the registry *)

AckLost(a) ==
    /\ a \in air
    /\ air' = air \ {a}
    /\ UNCHANGED <<registry, txVars, callVars, ackChan, sink, resolver, log>>

\* Time passes, never past the moment an answer in the air must have arrived.
Tick ==
    /\ now < MaxTime
    /\ \A a \in air : now < a.due
    /\ now' = now + 1
    /\ UNCHANGED <<epoch, nextID, inflight, poisoned, quarantined, txVars,
                   callVars, ackChan, sink, resolver, log, air>>

\* The process dies and a new one starts: nothing of the registry is stored.
\* What vehicles had been told, and their answers, outlive it.
Restart ==
    /\ epoch < MaxEpoch
    /\ epoch' = epoch + 1
    /\ nextID' = 0
    /\ inflight' = [k \in Keys |-> None]
    /\ poisoned' = [k \in Keys |-> None]
    /\ quarantined' = [k \in Keys |-> None]
    /\ state' = [t \in TxId |-> "UNISSUED"]
    /\ key' = [t \in TxId |-> CHOOSE k \in Keys : TRUE]
    /\ issuedAt' = NewTx
    /\ attestedAt' = NewTx
    /\ attestedAs' = [t \in TxId |-> <<None, None>>]
    /\ settledBy' = NewTx
    /\ ackChan' = [t \in TxId |-> NoAck]
    /\ pc' = [c \in Callers |-> "idle"]
    /\ callerTx' = [c \in Callers |-> None]
    /\ verdict' = [c \in Callers |-> "PENDING"]
    /\ sink' = Idle
    /\ resolver' = [o \in Operators |-> None]
    /\ log' = <<>>
    /\ air' = {[a EXCEPT !.tx = None] : a \in air}
    /\ UNCHANGED now

-----------------------------------------------------------------------------
ArmStep(c) ==
    \/ \E outcome \in {"sent", "error", "unknownLink"} : ArmWrite(c, outcome)
    \/ ArmUnroutable(c)
    \/ ArmWriteFailed(c)
    \/ ArmAnnounce(c)
    \/ ArmSelectAck(c)
    \/ \E why \in GiveUp : ArmSelectGiveUp(c, why)
    \/ ArmSettle(c)
    \/ ArmReport(c)

Arm(c, k) == ArmRefused(c, k) \/ ArmIssue(c, k)

Resolve(o, k) ==
    \E refEpoch \in 1..epoch, refId \in TxId :
        \/ ResolveRefused(o, k, refEpoch, refId)
        \/ ResolveArm(o, k, refEpoch, refId)

Next ==
    \/ \E c \in Callers, k \in Keys : Arm(c, k)
    \/ \E c \in Callers : ArmStep(c)
    \/ \E o \in Operators, k \in Keys : Resolve(o, k)
    \/ \E o \in Operators : ResolvePublish(o)
    \/ \E k \in Keys : QuarantineRemaining(k)
    \/ \E a \in air \cup Overheard, result \in Results : AckLookup(a, result)
    \/ AckSend
    \/ \E a \in air : AckLost(a)
    \/ Tick
    \/ Restart

Spec == Init /\ [][Next]_vars

\* A goroutine that can run eventually runs, WriteTo returns, and the timer of
\* Arm's select fires: that is all the fairness the registry relies on.
Fairness ==
    /\ \A c \in Callers : WF_vars(ArmStep(c))
    /\ \A o \in Operators : WF_vars(ResolvePublish(o))
    /\ WF_vars(AckSend)

FairSpec == Spec /\ Fairness

-----------------------------------------------------------------------------
(* Properties *)

PCs == {"idle", "write", "unroutable", "writeFailed", "announce", "await",
        "settle", "report"}

\* Every variable of the registry keeps its type.
TypeOK ==
    /\ now \in Nat
    /\ epoch \in Nat
    /\ nextID \in 0..MaxTx
    /\ inflight \in [Keys -> TxId \cup {None}]
    /\ poisoned \in [Keys -> TxId \cup {None}]
    /\ quarantined \in [Keys -> Nat]
    /\ state \in [TxId -> States]
    /\ key \in [TxId -> Keys]
    /\ issuedAt \in [TxId -> Nat]
    /\ attestedAt \in [TxId -> Nat]
    /\ attestedAs \in [TxId -> Nat \X Nat]
    /\ settledBy \in [TxId -> TxId \cup {None}]
    /\ ackChan \in [TxId -> Ack \cup {NoAck}]
    /\ pc \in [Callers -> PCs]
    /\ callerTx \in [Callers -> TxId \cup {None}]
    /\ verdict \in [Callers -> {"PENDING", "TIMED_OUT", "CANCELLED"} \cup Answered]
    /\ sink \in [to : TxId, ack : Ack] \cup {Idle}
    /\ resolver \in [Operators -> TxId \cup {None}]
    /\ log \in Seq(Snapshot)
    /\ air \in SUBSET Answer

\* "inflight, poisoned, and quarantined are mutually exclusive per key"
\* (registry.go:77), whatever the interleaving of Arm calls, attestations and
\* answers, for a quarantine that has not expired and for one not yet removed.
Exclusive ==
    \A k \in Keys :
        /\ inflight[k] # None => poisoned[k] = None /\ quarantined[k] = None
        /\ poisoned[k] # None => quarantined[k] = None

\* A transaction that ended ambiguously closes its key: no later transaction
\* of the same process exists on that key unless an operator attested this very
\* transaction and the whole quarantine had passed when the later one was issued.
AmbiguityClosesKey ==
    \A t, u \in TxId :
        /\ t < u /\ u <= nextID
        /\ key[t] = key[u]
        /\ state[t] \in Ambiguous
        => /\ attestedAs[t] = <<epoch, t>>
           /\ issuedAt[u] >= attestedAt[t] + Quarantine

\* The answer that settles a transaction is the vehicle's answer to that very
\* transaction, although COMMAND_ACK carries no transaction id: as long as an
\* answer takes less than the quarantine, the link delivers it once, and no
\* earlier process left answers behind.
OwnAnswer ==
    AckDelay < Quarantine /\ ~Duplicates /\ epoch = 1 =>
        \A t \in TxId : state[t] \in Answered => settledBy[t] = t

\* Positions of the snapshots of one transaction in the log.
At(t, S) == {i \in 1..Len(log) : log[i].tx = t /\ log[i].state \in S}

\* ADR 0004: publishing keeps pending-before-terminal ordering even if the ACK
\* races the write.  PENDING comes first and once; a terminal state is published
\* once besides its attestation, and only SEND_FAILED comes without PENDING.
PendingBeforeTerminal ==
    \A t \in TxId :
        LET pending == At(t, {"PENDING"})
            terminal == At(t, Terminal)
        IN  /\ \A i \in pending, j \in pending : i = j
            /\ \A i \in pending, j \in terminal : i < j
            /\ terminal # {} /\ state[t] # "SEND_FAILED" => pending # {}
            /\ \A i, j \in terminal :
                 log[i].resolved = log[j].resolved => i = j
            /\ \A i, j \in terminal : log[i].state = log[j].state

\* The gate of a key as the three maps and the clock show it: an expired
\* quarantine is open whether or not it has been removed from the map.
GateIn(tx, suspect, until, time) ==
    CASE tx # None -> [phase |-> "busy", tx |-> tx, until |-> 0]
      [] tx = None /\ suspect # None ->
            [phase |-> "ambiguous", tx |-> suspect, until |-> 0]
      [] tx = None /\ suspect = None /\ until # None /\ time < until ->
            [phase |-> "cooling", tx |-> 0, until |-> until]
      [] OTHER -> [phase |-> "open", tx |-> 0, until |-> 0]

Gates == [k \in Keys |->
            GateIn(inflight[k], poisoned[k], quarantined[k], now)]

Gate == INSTANCE CommandGate WITH clock <- now, lastTx <- nextID, gate <- Gates

\* The registry, with its goroutines and its lazy expiry, implements the gate.
ImplementsGate == Gate!Spec

\* Every Arm call returns, also when the vehicle never answers.
ArmReturns == \A c \in Callers : pc[c] # "idle" ~> pc[c] = "idle"

\* An ambiguity is eventually told to the browsers, so that an operator can
\* attest it, unless the process dies first.
AmbiguityIsPublished ==
    \A t \in TxId, e \in 1..MaxEpoch :
        (epoch = e /\ state[t] \in Ambiguous) ~>
        (epoch # e \/ At(t, Ambiguous) # {})

=============================================================================
