--------------------------- MODULE RecordingStore ---------------------------
(***************************************************************************)
(* The recording store of internal/recording: lifecycle calls, the event   *)
(* queue, the single writer goroutine and the SQLite rows they share.      *)
(*                                                                         *)
(* The lifecycle token lets one Start, Stop, Delete or Shutdown run at a   *)
(* time, so one variable, op, is the call that holds it.  A call that runs *)
(* into its deadline returns and leaves its command in the queue: the      *)
(* field op of a command is the number of the call that sent it, and the   *)
(* context of a command is over once that call has returned or expired.    *)
(*                                                                         *)
(* A step is what happens between two points where another goroutine, or   *)
(* a crash, can tell the difference: each database commit of the writer is *)
(* a step.  Reading current and inserting the row (Start), or reading      *)
(* current and the row (Delete), is one step because only the token's      *)
(* holder makes current non-nil; clearCurrent joins the commit before it   *)
(* because an enqueue between the two could as well come first.            *)
(***************************************************************************)
EXTENDS Integers, Sequences, FiniteSets

CONSTANTS
    Queue,          \* Config.Queue
    BatchSize,      \* Config.BatchSize
    MaxEvents,      \* Config.MaxEvents (MaxBytes acts the same way)
    MaxFailures,    \* maxConsecutiveWriteFailures
    MaxRecordings,  \* Config.MaxRecordings
    DbFails,        \* may a SQLite operation fail or run into its deadline?
    MaxId,          \* bound: recordings ever created
    MaxSeq,         \* bound: events of one recording
    MaxOps,         \* bound: lifecycle calls of one process
    MaxEpoch        \* bound: process lifetimes

ASSUME SizesAssumption == Queue \in Nat \ {0} /\ BatchSize \in Nat \ {0}
ASSUME LimitsAssumption ==
    MaxEvents \in Nat \ {0} /\ MaxFailures \in Nat \ {0} /\ MaxRecordings \in Nat \ {0}
ASSUME DbAssumption == DbFails \in BOOLEAN
ASSUME StoreBounds == MaxId \in Nat /\ MaxSeq \in Nat /\ MaxOps \in Nat /\ MaxEpoch \in Nat \ {0}

VARIABLES
    \* the database
    rows,        \* recordings.status by id; "none" is a row that does not exist
    events,      \* the sequence numbers in recording_events, by recording id
    nextId,      \* sqlite_sequence: AUTOINCREMENT never reuses an id
    \* Store
    epoch,       \* the process lifetime
    current,     \* Store.current: id and nextSeq, id None when nil
    closed,      \* Store.closed
    closeSent,   \* Store.closeSent
    closing,     \* stopID of Store.closeCommand
    closeComplete, \* Store.closeComplete
    items,       \* Store.items
    op, opNo,    \* the call that holds the lifecycle token, and its number
    \* runWriter
    exited,      \* Store.done is closed
    batch,       \* the records not written yet
    terminal,    \* recordings that take no more records
    totals,      \* events written, by recording
    failures,    \* consecutiveFailures
    durID, timer, \* durationID, durationC
    sweepDue,    \* sweepC is ready
    mark,        \* a markTerminal the writer has decided on and not committed
    cmd,         \* what the writer does once its flush is over
    \* history variables
    issued,      \* records this process gave a sequence number, until the deletion
                 \* of their recording
    counted      \* records whose loss is in this process's Stats

db == <<rows, events, nextId>>
store == <<epoch, current, closed, closeSent, closing, closeComplete>>
calls == <<op, opNo>>
limits == <<totals, failures, durID, timer>>
writer == <<exited, batch, terminal, limits, sweepDue, mark, cmd>>
history == <<issued, counted>>
vars == <<db, store, items, calls, writer, history>>

None == 0
Ids == 1..MaxId
Seqs == 1..MaxSeq
Nobody == [id |-> None, nextSeq |-> 0]
\* A command of the writer is also an item of the queue: seq None.
Item(kind, id, seq, n) == [kind |-> kind, id |-> id, seq |-> seq, op |-> n]
NoCmd == Item("none", None, None, None)
NoMark == [id |-> None, status |-> "none"]
NoOp == [kind |-> "none", pc |-> "idle", active |-> Nobody,
         expired |-> FALSE, done |-> FALSE, err |-> FALSE]
Op(kind, pc, active) == [NoOp EXCEPT !.kind = kind, !.pc = pc, !.active = active]
Statuses == {"active", "stopped", "limit_reached", "error"}

Exists(id) == rows[id] # "none"
IsRecord(item) == item.kind = "record"
Records(s) == {s[i] : i \in {j \in DOMAIN s : IsRecord(s[j])}}

Init ==
    /\ rows = [i \in Ids |-> "none"] /\ events = [i \in Ids |-> {}] /\ nextId = 1
    /\ epoch = 1 /\ current = Nobody
    /\ closed = FALSE /\ closeSent = FALSE /\ closing = None /\ closeComplete = FALSE
    /\ items = <<>> /\ op = NoOp /\ opNo = 0
    /\ exited = FALSE /\ batch = <<>>
    /\ terminal = {}
    /\ totals = [i \in Ids |-> 0] /\ failures = [i \in Ids |-> 0]
    /\ durID = None /\ timer = "off" /\ sweepDue = FALSE
    /\ mark = NoMark /\ cmd = NoCmd
    /\ issued = {} /\ counted = {}

-----------------------------------------------------------------------------
(* The lifecycle calls.  A refused call changes nothing. *)

Opened == cmd.kind # "boot"
Calls == Opened /\ op.pc = "idle" /\ opNo < MaxOps /\ opNo' = opNo + 1

\* The row is inserted before the writer hears of the recording.
StartRecording ==
    /\ Calls /\ ~closed /\ current = Nobody /\ nextId <= MaxId
    /\ rows' = [rows EXCEPT ![nextId] = "active"]
    /\ nextId' = nextId + 1
    /\ op' = Op("start", "send", [id |-> nextId, nextSeq |-> 0])
    /\ UNCHANGED <<events, store, items, writer, history>>

StopStillTaking ==
    /\ Calls /\ ~closed /\ current # Nobody
    /\ op' = Op("stop", "send", current)
    /\ UNCHANGED <<db, store, items, writer, history>>
\* The writer is told only after the recording stops taking events.
StopRecording ==
    /\ Calls /\ ~closed /\ current # Nobody
    /\ op' = Op("stop", "send", current)
    /\ current' = Nobody
    /\ UNCHANGED <<db, epoch, closed, closeSent, closing, closeComplete, items, writer, history>>

DeleteRecording(id) ==
    /\ Calls /\ ~closed /\ current.id # id
    /\ Exists(id) /\ rows[id] # "active"
    /\ op' = Op("delete", "send", [id |-> id, nextSeq |-> 0])
    /\ UNCHANGED <<db, store, items, writer, history>>

\* The close command survives a Shutdown that runs into its deadline.
Shutdown ==
    /\ Calls /\ ~closeComplete
    /\ closed' = TRUE
    /\ current' = Nobody
    /\ closing' = IF closed THEN closing ELSE current.id
    /\ op' = Op("close", IF closeSent THEN "wait" ELSE "send", [id |-> closing', nextSeq |-> 0])
    /\ UNCHANGED <<db, epoch, closeSent, closeComplete, items, writer, history>>

\* The deadline of the call's context passes, or its client goes away.
Expire ==
    /\ op.pc # "idle" /\ ~op.expired
    /\ op' = [op EXCEPT !.expired = TRUE]
    /\ UNCHANGED <<db, store, items, opNo, writer, history>>

HasRoom == Len(items) < Queue

\* sendCommand finds room in the queue.
SendCommand ==
    /\ op.pc = "send" /\ HasRoom
    /\ items' = Append(items, Item(op.kind, op.active.id, None, opNo))
    /\ op' = [op EXCEPT !.pc = "wait"]
    /\ closeSent' = (closeSent \/ op.kind = "close")
    /\ UNCHANGED <<db, epoch, current, closed, closing, closeComplete, opNo, writer, history>>

RestoredAfresh == [op.active EXCEPT !.nextSeq = 0]
\* What Stop puts back when its command did not reach the queue.
Restored == op.active

\* sendCommand gives up.  Stop takes its recording back; Start calls
\* markStartFailure with the context that has just expired, which updates no row.
SendTimeout ==
    /\ op.pc = "send" /\ op.expired
    /\ current' = IF op.kind = "stop" /\ ~closed /\ current = Nobody THEN Restored ELSE current
    /\ op' = NoOp
    /\ UNCHANGED <<db, epoch, closed, closeSent, closing, closeComplete, items, opNo, writer, history>>

\* waitCommand sees done; Shutdown also waits for the writer to return.
WaitDone ==
    /\ op.pc = "wait"
    /\ IF op.kind = "close" THEN exited ELSE op.done
    /\ current' = IF op.kind = "start" THEN op.active ELSE current
    /\ closeComplete' = (closeComplete \/ op.kind = "close")
    /\ op' = NoOp
    /\ UNCHANGED <<db, epoch, closed, closeSent, closing, items, opNo, writer, history>>

\* waitCommand gives up; a command already done may lose this race.
WaitTimeout ==
    /\ op.pc = "wait" /\ op.expired
    /\ op' = NoOp
    /\ UNCHANGED <<db, store, items, opNo, writer, history>>

CallStep == SendCommand \/ SendTimeout \/ WaitDone \/ WaitTimeout

-----------------------------------------------------------------------------
(* Recorder.Publish. *)

\* A record the queue has no room for has used its sequence number.
Enqueue ==
    /\ current # Nobody /\ ~closed /\ current.nextSeq < MaxSeq
    /\ LET seq == current.nextSeq + 1
           record == Item("record", current.id, seq, None)
       IN /\ current' = [current EXCEPT !.nextSeq = seq]
          /\ issued' = issued \cup {record}
          /\ IF HasRoom
             THEN items' = Append(items, record) /\ UNCHANGED counted
             ELSE counted' = counted \cup {record} /\ UNCHANGED items
    /\ UNCHANGED <<db, epoch, closed, closeSent, closing, closeComplete, calls, writer>>

-----------------------------------------------------------------------------
(* The writer. *)

\* The context of a start or delete command is its call's context.
ContextOver(c) == c.op # opNo \/ op.pc = "idle" \/ op.expired
Replied(c, failed) ==
    IF c.op = opNo /\ op.pc = "wait" THEN [op EXCEPT !.done = TRUE, !.err = failed] ELSE op

\* A batch is one transaction: a missing parent or a used key fails all of it.
Writable(id, records) ==
    Exists(id) /\ {r.seq : r \in records} \cap events[id] = {}
LimitPassed(id, n) == n > MaxEvents \/ (durID = id /\ timer = "fired")
\* limitReason.  The deadline and the age of the recording pass together here.
LimitReached(id, n) == n >= MaxEvents \/ (durID = id /\ timer = "fired")

\* writeBatch has committed the records of one recording.
BatchWritten(id, records) ==
    /\ Writable(id, records)
    /\ events' = [events EXCEPT ![id] = @ \cup {r.seq : r \in records}]
    /\ totals' = [totals EXCEPT ![id] = @ + Cardinality(records)]
    /\ failures' = [failures EXCEPT ![id] = 0]
    /\ mark' = IF LimitReached(id, totals'[id]) THEN [id |-> id, status |-> "limit_reached"] ELSE NoMark
    /\ UNCHANGED counted

\* writeBatch has failed; a deadline is terminal at once. The code adds one write error
\* for the batch, whatever its length: counted holds the records that error stands for.
BatchFailed(id, records) ==
    /\ DbFails \/ ~Writable(id, records)
    /\ counted' = counted \cup records
    /\ failures' = [failures EXCEPT ![id] = @ + 1]
    /\ \E deadline \in BOOLEAN :
          mark' = IF deadline \/ failures'[id] >= MaxFailures
                  THEN [id |-> id, status |-> "error"] ELSE NoMark
    /\ UNCHANGED <<events, totals>>

\* flush: the records of recordings that have ended are discarded.
Flush ==
    LET live == {r \in Records(batch) : r.id \notin terminal} IN
    /\ batch' = <<>>
    /\ IF live = {} THEN mark' = NoMark /\ UNCHANGED <<events, totals, failures, counted>>
       ELSE \E id \in {r.id : r \in live} :
              LET records == {r \in live : r.id = id} IN
              BatchWritten(id, records) \/ BatchFailed(id, records)

WriterFree == ~exited /\ mark = NoMark /\ cmd = NoCmd
SelectAny == WriterFree
\* The preflight of the loop: an elapsed duration deadline goes first.
Select == WriterFree /\ timer # "fired"
Taken == items # <<>> /\ items' = Tail(items)

TakeRecord ==
    /\ Select /\ Taken /\ IsRecord(Head(items))
    /\ Head(items).id \notin terminal
    /\ batch' = Append(batch, Head(items))
    /\ cmd' = IF Len(batch') >= BatchSize THEN Item("flush", None, None, None) ELSE cmd
    /\ UNCHANGED <<db, store, calls, exited, terminal, limits, sweepDue, mark, history>>

DropRecord ==
    /\ Select /\ Taken /\ IsRecord(Head(items))
    /\ Head(items).id \in terminal
    /\ counted' = counted \cup {Head(items)}
    /\ UNCHANGED <<db, store, calls, writer, issued>>

\* A start whose caller has given up ends here.
TakeStart ==
    /\ Select /\ Taken /\ Head(items).kind = "start"
    /\ LET id == Head(items).id IN
       IF ContextOver(Head(items))
       THEN mark' = [id |-> id, status |-> "error"] /\ cmd' = Head(items)
            /\ UNCHANGED <<op, durID, timer>>
       ELSE durID' = id /\ timer' = "armed" /\ op' = Replied(Head(items), FALSE)
            /\ UNCHANGED <<mark, cmd>>
    /\ UNCHANGED <<db, store, opNo, exited, batch, terminal, totals, failures, sweepDue, history>>

\* Every other command flushes first.
FlushThen(c) ==
    /\ Flush /\ cmd' = c
    /\ UNCHANGED <<rows, nextId, store, calls, exited, terminal, durID, timer, issued>>

TakeCommand ==
    /\ Select /\ Taken /\ Head(items).kind \in {"stop", "delete", "close"}
    /\ FlushThen(Head(items)) /\ UNCHANGED sweepDue

\* The batch is full, or the batch timer has fired.
FlushFull ==
    /\ ~exited /\ mark = NoMark /\ cmd.kind = "flush"
    /\ FlushThen(NoCmd) /\ UNCHANGED <<items, sweepDue>>
FlushTimer ==
    /\ Select /\ batch # <<>>
    /\ FlushThen(NoCmd) /\ UNCHANGED <<items, sweepDue>>

TakeDurationMarked ==
    /\ WriterFree /\ timer = "fired"
    /\ terminal' = terminal \cup {durID} /\ mark' = [id |-> durID, status |-> "limit_reached"]
    /\ cmd' = Item("flush", None, None, None)
    /\ UNCHANGED <<db, store, items, calls, exited, batch, limits, sweepDue, history>>
\* The duration deadline: the accepted events are written before the recording ends.
TakeDuration ==
    /\ WriterFree /\ timer = "fired"
    /\ FlushThen(Item("expire", durID, None, None)) /\ UNCHANGED <<items, sweepDue>>

TakeSweep ==
    /\ Select /\ sweepDue /\ sweepDue' = FALSE
    /\ FlushThen(Item("sweep", None, None, None)) /\ UNCHANGED items

\* markStopped: only an active row ends.
Stopped(id, status) ==
    IF rows[id] = "active" THEN [rows EXCEPT ![id] = status] ELSE rows
WithoutTimer(id) ==
    IF durID = id THEN durID' = None /\ timer' = "off" ELSE UNCHANGED <<durID, timer>>
StillOpen(id) == terminal
\* What markTerminal makes of the map terminal.
Ended(id) == terminal \cup {id}

\* markTerminal: the recording takes no more events whether or not the row is updated.
MarkTerminal ==
    /\ ~exited /\ mark # NoMark
    /\ \/ rows' = Stopped(mark.id, mark.status)
       \/ DbFails /\ UNCHANGED rows
    /\ terminal' = Ended(mark.id)
    /\ current' = IF current.id = mark.id THEN Nobody ELSE current
    /\ WithoutTimer(mark.id)
    /\ mark' = NoMark
    /\ UNCHANGED <<events, nextId, epoch, closed, closeSent, closing, closeComplete, items,
                   calls, exited, batch, totals, failures, sweepDue, cmd, history>>

Runs(kind) == ~exited /\ mark = NoMark /\ cmd.kind = kind
CmdOver == cmd' = NoCmd

\* The reply to a start that was marked terminal.
RunStart ==
    /\ Runs("start") /\ CmdOver /\ op' = Replied(cmd, FALSE)
    /\ UNCHANGED <<db, store, items, opNo, exited, batch, terminal, limits, sweepDue, mark, history>>

RunExpire ==
    /\ Runs("expire") /\ CmdOver
    /\ mark' = IF cmd.id # None /\ cmd.id \notin terminal
               THEN [id |-> cmd.id, status |-> "limit_reached"] ELSE mark
    /\ IF mark' = mark THEN timer' = "off" ELSE UNCHANGED timer
    /\ UNCHANGED <<db, store, items, calls, exited, batch, terminal, totals, failures, durID,
                   sweepDue, history>>

ReturnsIfActive == cmd.kind = "close" /\ cmd.id # None
\* runWriter returns after a close command.
Returns == cmd.kind = "close"

\* stop and close: the writer's part of Stop and Shutdown.
RunStop ==
    /\ Runs("stop") \/ Runs("close")
    /\ CmdOver
    /\ IF cmd.id # None /\ cmd.id \notin terminal
       THEN /\ \/ rows' = Stopped(cmd.id, "stopped") /\ op' = Replied(cmd, rows[cmd.id] # "active")
               \/ DbFails /\ UNCHANGED rows /\ op' = Replied(cmd, TRUE)
            /\ terminal' = terminal \cup {cmd.id}
            /\ WithoutTimer(cmd.id)
       ELSE op' = Replied(cmd, FALSE) /\ UNCHANGED <<rows, terminal, durID, timer>>
    /\ exited' = Returns
    /\ UNCHANGED <<events, nextId, store, items, opNo, batch, totals, failures, sweepDue, mark, history>>

\* deleteRecording: the events go in chunks, oldest first, and the row last.
Deleted(id) ==
    /\ rows' = [rows EXCEPT ![id] = "none"]
    /\ events' = [events EXCEPT ![id] = {}]
    /\ issued' = {r \in issued : r.id # id}
DeletedPartly(id) ==
    /\ DbFails /\ UNCHANGED rows
    /\ \E n \in 0..MaxSeq : events' = [events EXCEPT ![id] = {s \in @ : s > n}]
    /\ issued' = {r \in issued : r.id # id}
Deletable(id) == Exists(id) /\ rows[id] # "active"

RunDelete ==
    /\ Runs("delete") /\ CmdOver
    /\ \/ /\ ~ContextOver(cmd) /\ Deletable(cmd.id) /\ Deleted(cmd.id)
          /\ terminal' = terminal \cup {cmd.id}
          /\ totals' = [totals EXCEPT ![cmd.id] = 0]
          /\ failures' = [failures EXCEPT ![cmd.id] = 0]
          /\ WithoutTimer(cmd.id)
          /\ op' = Replied(cmd, FALSE)
       \/ /\ ~ContextOver(cmd) /\ DeletedPartly(cmd.id) /\ op' = Replied(cmd, TRUE)
          /\ UNCHANGED <<terminal, limits>>
       \/ /\ ContextOver(cmd) \/ ~Deletable(cmd.id)
          /\ op' = Replied(cmd, TRUE) /\ UNCHANGED <<rows, events, terminal, limits, issued>>
    /\ UNCHANGED <<nextId, store, items, opNo, exited, batch, sweepDue, mark, counted>>

\* sweep, at startup ("boot") and in the writer: oldest first, one at a time.
\* Age and total size are outside the model: they may ask for any deletion.
Candidates == {i \in Ids : Deletable(i)}
TooMany == Cardinality({i \in Ids : Exists(i)}) > MaxRecordings
SweepDelete ==
    /\ Runs("sweep") \/ Runs("boot")
    /\ \E oldest \in Candidates :
          /\ \A i \in Candidates : oldest <= i
          /\ \/ Deleted(oldest) /\ UNCHANGED cmd
             \/ Runs("sweep") /\ DeletedPartly(oldest) /\ CmdOver
    /\ UNCHANGED <<nextId, store, items, calls, exited, batch, terminal, limits, sweepDue, mark, counted>>
SweepOver ==
    /\ Runs("sweep") \/ Runs("boot")
    /\ Candidates = {} \/ ~TooMany
    /\ CmdOver
    /\ UNCHANGED <<db, store, items, calls, exited, batch, terminal, limits, sweepDue, mark, history>>

WriterStep ==
    \/ TakeRecord \/ DropRecord \/ TakeStart \/ TakeCommand
    \/ FlushFull \/ FlushTimer \/ TakeDuration \/ TakeSweep
    \/ MarkTerminal \/ RunStart \/ RunExpire \/ RunStop \/ RunDelete
    \/ SweepDelete \/ SweepOver

-----------------------------------------------------------------------------
(* Time and crashes. *)

DurationTimer ==
    /\ timer = "armed" /\ timer' = "fired"
    /\ UNCHANGED <<db, store, items, calls, exited, batch, terminal, totals, failures, durID,
                   sweepDue, mark, cmd, history>>
SweepTimer ==
    /\ ~sweepDue /\ ~exited /\ sweepDue' = TRUE
    /\ UNCHANGED <<db, store, items, calls, exited, batch, terminal, limits, mark, cmd, history>>

\* The process dies at any point, or exits, and Open runs again.
Restart ==
    /\ epoch < MaxEpoch /\ epoch' = epoch + 1
    /\ rows' = [i \in Ids |-> IF rows[i] = "active" THEN "error" ELSE rows[i]]
    /\ current' = Nobody
    /\ closed' = FALSE /\ closeSent' = FALSE /\ closing' = None /\ closeComplete' = FALSE
    /\ items' = <<>> /\ op' = NoOp /\ opNo' = 0
    /\ exited' = FALSE /\ batch' = <<>> /\ terminal' = {}
    /\ totals' = [i \in Ids |-> 0] /\ failures' = [i \in Ids |-> 0]
    /\ durID' = None /\ timer' = "off" /\ sweepDue' = FALSE
    /\ mark' = NoMark /\ cmd' = Item("boot", None, None, None)
    /\ issued' = {} /\ counted' = {}
    /\ UNCHANGED <<events, nextId>>

Next ==
    \/ StartRecording \/ StopRecording \/ (\E id \in Ids : DeleteRecording(id)) \/ Shutdown
    \/ Expire \/ CallStep \/ Enqueue
    \/ WriterStep
    \/ DurationTimer \/ SweepTimer \/ Restart

Spec == Init /\ [][Next]_vars
\* Goroutines are scheduled, and contexts and timers fire.
FairSpec ==
    /\ Spec
    /\ WF_vars(CallStep) /\ WF_vars(Expire) /\ WF_vars(WriterStep)
    /\ WF_vars(DurationTimer)
\* select draws evenly among its ready cases, so the queue's turn always comes.
TakeItem == TakeRecord \/ DropRecord \/ TakeStart \/ TakeCommand
FairSelectSpec == FairSpec /\ SF_vars(TakeItem)

-----------------------------------------------------------------------------
(* Properties. *)

ItemType == [kind : {"record", "start", "stop", "delete", "close"}, id : Ids \cup {None},
             seq : Seqs \cup {None}, op : 0..MaxOps]
CmdType == [kind : {"none", "flush", "start", "stop", "delete", "close", "expire", "sweep", "boot"},
            id : Ids \cup {None}, seq : {None}, op : 0..MaxOps]
Active == [id : Ids \cup {None}, nextSeq : 0..MaxSeq]

\* Every variable of the store and of its writer keeps its type, the queue its capacity.
TypeOK ==
    /\ rows \in [Ids -> Statuses \cup {"none"}] /\ events \in [Ids -> SUBSET Seqs]
    /\ nextId \in 1..MaxId + 1 /\ epoch \in 1..MaxEpoch /\ current \in Active
    /\ {closed, closeSent, closeComplete, exited, sweepDue} \subseteq BOOLEAN
    /\ closing \in Ids \cup {None}
    /\ items \in Seq(ItemType) /\ Len(items) <= Queue
    /\ op \in [kind : {"none", "start", "stop", "delete", "close"}, pc : {"idle", "send", "wait"},
               active : Active, expired : BOOLEAN, done : BOOLEAN, err : BOOLEAN]
    /\ opNo \in 0..MaxOps
    /\ batch \in Seq(ItemType) /\ Len(batch) <= BatchSize
    /\ terminal \subseteq Ids
    /\ totals \in [Ids -> 0..MaxSeq] /\ failures \in [Ids -> 0..MaxFailures]
    /\ durID \in Ids \cup {None} /\ timer \in {"off", "armed", "fired"}
    /\ mark \in [id : Ids \cup {None}, status : Statuses \cup {"none"}]
    /\ cmd \in CmdType
    /\ issued \subseteq ItemType /\ counted \subseteq ItemType

Pending == batch \o items

\* The state has its types, the queue its capacity; the records on their way to SQLite are of
\* one recording, in the order they were published, and all younger than the ones already
\* there: the primary key of recording_events is never used twice, whatever Stop had to
\* take back.
Ordered ==
    /\ TypeOK
    /\ \A i, j \in DOMAIN Pending : i < j /\ IsRecord(Pending[i]) /\ IsRecord(Pending[j]) =>
          Pending[i].id = Pending[j].id /\ Pending[i].seq < Pending[j].seq
    /\ \A r \in Records(Pending) : \A s \in events[r.id] : s < r.seq

\* Loss is observable (ADR 0002): an event that got a sequence number is stored, on its
\* way, or one of those that an error or drop counted in Stats stands for (a failed batch
\* adds one error, so that the totals of Stats do not say how many events are lost);
\* flush never discards one silently, because a recording ends only when nothing of it
\* is in the batch.
Accounted ==
    \A r \in issued : r.seq \in events[r.id] \/ r \in Records(Pending) \cup counted

\* Once Stop has its answer, or the writer has returned, everything the recording
\* accepted has been written or counted, and its row has ended (StopRecording: after
\* flushing every accepted event; Close: flushes accepted events).
StopIsComplete ==
    /\ op.kind = "stop" /\ op.done =>
          /\ \A r \in Records(Pending) : r.id # op.active.id
          /\ rows[op.active.id] # "active" \/ op.err \/ DbFails
    /\ exited =>
          /\ Records(Pending) = {}
          /\ closing # None => rows[closing] # "active" \/ DbFails

\* A recording exceeds its event limit by its final batch at most (ADR 0002).
LimitHolds == \A id \in Ids : Cardinality(events[id]) < MaxEvents + BatchSize

\* A recording that has ended keeps its status and takes no event, from the writer's
\* batches, a late stop, or the recovery of a restart; it can only be deleted.
EndedIsFinal ==
    [][\A id \in Ids : Exists(id) /\ rows[id] # "active" =>
          /\ rows'[id] \in {rows[id], "none"}
          /\ events'[id] \subseteq events[id]]_vars

\* The duration deadline ends a recording however busy the writer is, unless a
\* shutdown ends the writer first.
DurationEnds == \A id \in Ids : (durID = id /\ timer = "fired") ~> (id \in terminal \/ exited)

\* A close command that reached the queue ends the writer.
CloseEnds == closeSent ~> exited

\* Nothing is under way in the store.
Quiet == op = NoOp /\ items = <<>> /\ batch = <<>> /\ mark = NoMark /\ cmd = NoCmd

\* ErrRecordingInUse says of an active row "stop it first": it can be stopped.
ActiveCanBeStopped == Quiet => \A id \in Ids : rows[id] = "active" => current.id = id
=============================================================================
