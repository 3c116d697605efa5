------------------------ MODULE RecordingStoreProofs ------------------------
(***************************************************************************)
(* Proofs about RecordingStore for every queue, batch size and limit, with *)
(* a database that may fail and any number of restarts.                    *)
(*                                                                         *)
(* The thread of the argument: at any time the records on their way to     *)
(* SQLite are of one recording.  A new recording takes events only after   *)
(* the writer has answered its start command; by then the queue is empty,  *)
(* and what the batch still held has been flushed by the command that      *)
(* ended the recording before (Settled).                                   *)
(***************************************************************************)
EXTENDS RecordingStore, TLAPS, FiniteSetTheorems

\* The records on their way: in the writer's batch or in the queue.
OnTheWay == Records(batch) \cup Records(items)

\* The recordings that take events, or may again: the current one, the one a Start is
\* about to install, the one a Stop may have to put back.
Lends == op.kind \in {"start", "stop"}
Takes(id) == id # None /\ (id = current.id \/ (Lends /\ id = op.active.id))
\* What they are numbered up to.
NumberOf(id) == IF id = current.id THEN current.nextSeq ELSE op.active.nextSeq

\* The call that holds the lifecycle token, and what it implies for current and closed.
CallsHold ==
    /\ op.pc = "idle" <=> op.kind = "none"
    /\ op.pc # "idle" => opNo > 0
    /\ op.done => op.pc = "wait"
    /\ current.id = None => current = Nobody
    /\ Lends => current = Nobody /\ ~closed
    /\ op.kind \in {"start", "stop", "delete"} => op.active.id # None
    /\ op.kind = "start" => op.active.nextSeq = 0
    /\ op.kind = "close" => closed /\ op.active.id = closing /\ (op.pc = "send" => ~closeSent)
    /\ closed => current = Nobody /\ op.kind \in {"none", "close"}
    /\ closeSent => closed

\* An id that is not handed out yet is nowhere.
Unused ==
    /\ \A i \in Ids : i >= nextId => rows[i] = "none" /\ events[i] = {} /\ totals[i] = 0
    /\ \A i \in terminal \cup {current.id, op.active.id, closing, durID, mark.id, cmd.id} : i < nextId
    /\ \A j \in DOMAIN items : items[j].id < nextId

\* A command in the queue or in the writer's hands is that of an earlier call, or of the
\* call that waits for it.
OfItsCall(c) ==
    /\ c.op <= opNo
    /\ op.pc = "send" => c.op < opNo
    /\ op.pc = "wait" /\ c.op = opNo => c.kind = op.kind /\ c.id = op.active.id /\ ~op.done

\* No record is of a recording whose start the writer has not answered.
NotStarted(c) ==
    /\ c.id # current.id
    /\ \A r \in OnTheWay : r.id # c.id
    /\ op.kind = "stop" => op.active.id # c.id
    /\ op.kind = "start" /\ op.active.id = c.id => op.pc = "wait" /\ c.op = opNo

\* The commands on their way.  Nothing follows the command of a waiting Start or Stop, nor
\* the close command.
Commands ==
    /\ \A j \in DOMAIN items :
          /\ IF IsRecord(items[j]) THEN items[j] = Item("record", items[j].id, items[j].seq, None)
                                        /\ items[j].id # None /\ items[j].seq # None
             ELSE items[j].seq = None
          /\ OfItsCall(items[j])
          /\ items[j].kind \in {"start", "stop", "delete"} => items[j].id # None
          /\ items[j].kind = "start" => NotStarted(items[j])
          /\ Lends /\ op.pc = "wait" /\ items[j].op = opNo => j = Len(items)
          /\ items[j].kind = "close" => closeSent /\ items[j].id = closing /\ j = Len(items)
    /\ OfItsCall(cmd)
    /\ cmd.kind \in {"start", "stop", "delete"} => cmd.id # None
    /\ cmd.kind = "start" => NotStarted(cmd)
    /\ Lends /\ op.pc = "wait" /\ (cmd.op = opNo \/ op.done) => items = <<>>
    /\ cmd.kind = "close" => closeSent /\ cmd.id = closing /\ items = <<>>
    /\ exited => closeSent /\ items = <<>> /\ batch = <<>>

\* The command of the call that waits is in one place.
AskedOnce ==
    op.pc = "wait" =>
        /\ \A i, j \in DOMAIN items : items[i].op = opNo /\ items[j].op = opNo => i = j
        /\ cmd.op = opNo => \A j \in DOMAIN items : items[j].op # opNo

\* What the writer holds between two steps: records of recordings that go on; only a full
\* batch waits for its flush, and a recording is marked when its batch is empty.
WriterHolds ==
    /\ \A j \in DOMAIN batch :
          /\ batch[j] = Item("record", batch[j].id, batch[j].seq, None)
          /\ batch[j].id \in Ids \ terminal /\ batch[j].seq \in Seqs
    /\ cmd.kind # "flush" => Len(batch) < BatchSize
    /\ cmd.kind \notin {"none", "flush", "start"} => batch = <<>>
    /\ mark.id = None => mark = NoMark
    /\ mark # NoMark => /\ mark.status \in {"error", "limit_reached"}
                        /\ batch = <<>> \/ (cmd.kind = "start" /\ mark.id = cmd.id)
    /\ \A i \in Ids \ (terminal \cup {mark.id}) : failures[i] < MaxFailures
    /\ cmd.kind = "none" => cmd = NoCmd

\* The records on their way are of one recording, the one that takes events if there is one.
OneRecording ==
    /\ \A r, q \in OnTheWay : r.id = q.id
    /\ current # Nobody \/ (op.kind = "stop" /\ op.pc = "send") => \A r \in OnTheWay : Takes(r.id)
    /\ Lends /\ op.done => OnTheWay = {}

\* Once no recording takes events, what is on its way belongs to one that has ended or is
\* about to be stopped behind it.
Settled ==
    current = Nobody /\ ~closed /\ ~(op.kind = "stop" /\ op.pc = "send") =>
        \A r \in OnTheWay :
            \/ r.id \in terminal
            \/ cmd.kind = "stop" /\ cmd.id = r.id
            \/ \E j \in DOMAIN items : items[j].kind = "stop" /\ items[j].id = r.id

\* Sequence numbers go up along the way to the database and never come back.
Increasing(s) ==
    \A i, j \in DOMAIN s : i < j /\ IsRecord(s[i]) /\ IsRecord(s[j]) => s[i].seq < s[j].seq
Numbered ==
    /\ Increasing(batch) /\ Increasing(items)
    /\ \A r \in Records(batch), q \in Records(items) : r.seq < q.seq
    /\ \A r \in OnTheWay : totals[r.id] < r.seq /\ \A s \in events[r.id] : s < r.seq
    /\ \A id \in Ids : Takes(id) =>
          /\ totals[id] <= NumberOf(id)
          /\ \A s \in events[id] : s <= NumberOf(id)
          /\ \A r \in OnTheWay : r.id = id => r.seq <= NumberOf(id)

\* A recording that may still be written has an active row; an ended one has none, unless
\* the database refused.
RowsFollow ==
    /\ \A id \in Ids : Takes(id) \/ (\E r \in OnTheWay : r.id = id) =>
          id \in terminal \/ rows[id] = "active"
    /\ \A id \in terminal : rows[id] # "active" \/ DbFails
    /\ op.kind = "stop" /\ op.done => rows[op.active.id] # "active" \/ DbFails
    /\ exited /\ closing # None => rows[closing] # "active" \/ DbFails

\* The inductive invariant of the store.
StoreInv ==
    TypeOK /\ CallsHold /\ Unused /\ Commands /\ AskedOnce /\ WriterHolds /\ OneRecording
    /\ Settled /\ Numbered /\ RowsFollow

\* The writer's totals bound what the database holds of a recording that may still be
\* written, and are below the limit until it is marked.
TotalsBound ==
    \A id \in Ids :
        /\ Cardinality(events[id]) < MaxEvents + BatchSize
        /\ id >= nextId \/ Takes(id) \/ (\E r \in OnTheWay : r.id = id) =>
              /\ Cardinality(events[id]) <= totals[id]
              /\ id \in terminal \/ mark.id = id \/ totals[id] < MaxEvents

-----------------------------------------------------------------------------
(* Sequences of items. *)

LEMMA RecordsDef ==
    ASSUME NEW s \in Seq(ItemType)
    PROVE  /\ Records(s) \in SUBSET ItemType
           /\ \A r \in Records(s) : IsRecord(r) /\ \E j \in 1..Len(s) : s[j] = r
           /\ \A j \in 1..Len(s) : IsRecord(s[j]) => s[j] \in Records(s)
  BY DEF Records

LEMMA RecordsEmpty == Records(<<>>) = {}
  BY DEF Records

\* Append adds the item if it is a record, at the end.
LEMMA RecordsAppend ==
    ASSUME NEW s \in Seq(ItemType), NEW x \in ItemType
    PROVE  /\ Append(s, x) \in Seq(ItemType) /\ Len(Append(s, x)) = Len(s) + 1
           /\ IsRecord(x) => Records(Append(s, x)) = Records(s) \cup {x}
           /\ ~IsRecord(x) => Records(Append(s, x)) = Records(s)
           /\ Increasing(s) /\ (IsRecord(x) => \A r \in Records(s) : r.seq < x.seq)
                => Increasing(Append(s, x))
<1> DEFINE a == Append(s, x)
<1>1. a \in Seq(ItemType) /\ Len(a) = Len(s) + 1 /\ a[Len(s) + 1] = x
      /\ \A j \in 1..Len(s) : a[j] = s[j]
  OBVIOUS
<1>2. DOMAIN a = 1..(Len(s) + 1) /\ DOMAIN s = 1..Len(s) /\ Len(s) \in Nat
  BY <1>1
<1> HIDE DEF a
<1>3. IsRecord(x) => Records(a) = Records(s) \cup {x}
  BY <1>1, <1>2 DEF Records
<1>4. ~IsRecord(x) => Records(a) = Records(s)
  <2>1. \A j \in DOMAIN a : IsRecord(a[j]) /\ ~IsRecord(x) => j \in DOMAIN s
    BY <1>1, <1>2
  <2> QED
    BY <1>1, <1>2, <2>1 DEF Records
<1>5. Increasing(s) /\ (IsRecord(x) => \A r \in Records(s) : r.seq < x.seq) => Increasing(a)
  <2> SUFFICES ASSUME Increasing(s), IsRecord(x) => \A r \in Records(s) : r.seq < x.seq,
                      NEW i \in DOMAIN a, NEW j \in DOMAIN a, i < j, IsRecord(a[i]), IsRecord(a[j])
               PROVE  a[i].seq < a[j].seq
    BY DEF Increasing
  <2>1. i \in 1..Len(s) /\ a[i] = s[i] /\ a[i] \in Records(s)
    BY <1>1, <1>2, RecordsDef
  <2>2. CASE j \in 1..Len(s)
    BY <2>1, <2>2, <1>1, <1>2 DEF Increasing
  <2>3. CASE j = Len(s) + 1
    BY <2>1, <2>3, <1>1
  <2> QED
    BY <2>2, <2>3, <1>2
<1> QED
  BY <1>1, <1>3, <1>4, <1>5 DEF a

\* An id below a bound everywhere in the queue, and in what is appended.
LEMMA AppendIds ==
    ASSUME NEW s \in Seq(ItemType), NEW x, NEW n, x.id < n, \A j \in DOMAIN s : s[j].id < n
    PROVE  \A j \in DOMAIN Append(s, x) : Append(s, x)[j].id < n
<1>1. /\ DOMAIN Append(s, x) = 1..(Len(s) + 1) /\ DOMAIN s = 1..Len(s) /\ Len(s) \in Nat
      /\ Append(s, x)[Len(s) + 1] = x
      /\ \A j \in 1..Len(s) : Append(s, x)[j] = s[j]
  OBVIOUS
<1> QED
  BY <1>1

\* Tail takes the head away; in an increasing queue it was the oldest record.
LEMMA RecordsTail ==
    ASSUME NEW s \in Seq(ItemType), s # <<>>
    PROVE  /\ Head(s) \in ItemType /\ Head(s) = s[1] /\ 1 \in DOMAIN s
           /\ Tail(s) \in Seq(ItemType) /\ Len(Tail(s)) = Len(s) - 1 /\ Len(s) \in Nat \ {0}
           /\ \A j \in DOMAIN Tail(s) : j + 1 \in DOMAIN s /\ Tail(s)[j] = s[j + 1]
           /\ IsRecord(Head(s)) => Records(s) = Records(Tail(s)) \cup {Head(s)}
           /\ ~IsRecord(Head(s)) => Records(s) = Records(Tail(s))
           /\ Increasing(s) => /\ Increasing(Tail(s))
                               /\ IsRecord(Head(s)) => \A r \in Records(Tail(s)) : Head(s).seq < r.seq
<1> DEFINE t == Tail(s)
<1>1. /\ Head(s) = s[1] /\ Len(s) \in Nat \ {0} /\ DOMAIN s = 1..Len(s)
      /\ t \in Seq(ItemType) /\ Len(t) = Len(s) - 1 /\ DOMAIN t = 1..(Len(s) - 1)
      /\ \A j \in 1..(Len(s) - 1) : t[j] = s[j + 1]
  OBVIOUS
<1>2. 1 \in DOMAIN s /\ s[1] \in ItemType
  BY <1>1
<1> HIDE DEF t
<1>3. \A j \in DOMAIN t : j + 1 \in DOMAIN s /\ t[j] = s[j + 1]
  BY <1>1
<1>4. \A j \in DOMAIN s : j = 1 \/ (j - 1 \in DOMAIN t /\ s[j] = t[j - 1])
  <2> SUFFICES ASSUME NEW j \in DOMAIN s, j # 1 PROVE j - 1 \in DOMAIN t /\ s[j] = t[j - 1]
    OBVIOUS
  <2>1. j - 1 \in 1..(Len(s) - 1) /\ (j - 1) + 1 = j
    BY <1>1
  <2> QED
    BY <1>1, <2>1
<1>5. \A r : r \in Records(t) => r \in Records(s)
  BY <1>3 DEF Records
<1>6. \A r : r \in Records(s) => r \in Records(t) \/ (r = s[1] /\ IsRecord(s[1]))
  BY <1>4 DEF Records
<1>7. IsRecord(s[1]) => s[1] \in Records(s)
  BY <1>2 DEF Records
<1>8. Increasing(s) => Increasing(t)
  <2> SUFFICES ASSUME Increasing(s), NEW i \in DOMAIN t, NEW j \in DOMAIN t, i < j,
                      IsRecord(t[i]), IsRecord(t[j])
               PROVE  t[i].seq < t[j].seq
    BY DEF Increasing
  <2>1. i + 1 < j + 1
    BY <1>1
  <2> QED
    BY <1>3, <2>1 DEF Increasing
<1>9. Increasing(s) /\ IsRecord(s[1]) => \A r \in Records(t) : s[1].seq < r.seq
  <2> SUFFICES ASSUME Increasing(s), IsRecord(s[1]), NEW r \in Records(t) PROVE s[1].seq < r.seq
    OBVIOUS
  <2>1. PICK j \in DOMAIN t : t[j] = r /\ IsRecord(r)
    BY DEF Records
  <2>2. 1 < j + 1
    BY <1>1
  <2> QED
    BY <1>2, <1>3, <2>1, <2>2 DEF Increasing
<1> QED
  BY <1>1, <1>2, <1>3, <1>5, <1>6, <1>7, <1>8, <1>9 DEF t

-----------------------------------------------------------------------------
(* The parts of the type invariant, and the records they imply. *)

OpType == [kind : {"none", "start", "stop", "delete", "close"}, pc : {"idle", "send", "wait"},
           active : Active, expired : BOOLEAN, done : BOOLEAN, err : BOOLEAN]
MarkType == [id : Ids \cup {None}, status : Statuses \cup {"none"}]

DbOK ==
    /\ rows \in [Ids -> Statuses \cup {"none"}] /\ events \in [Ids -> SUBSET Seqs]
    /\ nextId \in 1..MaxId + 1
SessionOK ==
    /\ epoch \in 1..MaxEpoch /\ current \in Active /\ closing \in Ids \cup {None}
    /\ closed \in BOOLEAN /\ closeSent \in BOOLEAN /\ closeComplete \in BOOLEAN
CallOK == op \in OpType /\ opNo \in 0..MaxOps
QueueOK == items \in Seq(ItemType) /\ Len(items) <= Queue
BatchOK ==
    /\ batch \in Seq(ItemType) /\ Len(batch) <= BatchSize
    /\ exited \in BOOLEAN /\ sweepDue \in BOOLEAN /\ terminal \subseteq Ids
CountsOK == totals \in [Ids -> 0..MaxSeq] /\ failures \in [Ids -> 0..MaxFailures]
TimerOK == durID \in Ids \cup {None} /\ timer \in {"off", "armed", "fired"}
TurnOK == mark \in MarkType /\ cmd \in CmdType
HistoryOK == issued \subseteq ItemType /\ counted \subseteq ItemType

LEMMA TypeParts ==
    TypeOK <=> /\ DbOK /\ SessionOK /\ CallOK /\ QueueOK /\ BatchOK /\ CountsOK /\ TimerOK
               /\ TurnOK /\ HistoryOK
  BY DEF TypeOK, DbOK, SessionOK, CallOK, QueueOK, BatchOK, CountsOK, TimerOK, TurnOK, HistoryOK,
         OpType, MarkType

\* Of a record on its way.
LEMMA WayFacts ==
    ASSUME StoreInv
    PROVE  /\ batch \in Seq(ItemType) /\ items \in Seq(ItemType)
           /\ Records(batch) \subseteq OnTheWay /\ Records(items) \subseteq OnTheWay
           /\ \A r \in OnTheWay :
                 /\ r \in ItemType /\ IsRecord(r) /\ r = Item("record", r.id, r.seq, None)
                 /\ r.id \in Ids /\ r.seq \in Seqs /\ r.id < nextId
           /\ \A r \in Records(batch) : r.id \notin terminal
           /\ \A j \in DOMAIN batch : batch[j] \in Records(batch)
           /\ \A j \in DOMAIN items : IsRecord(items[j]) => items[j] \in Records(items)
<1>1. batch \in Seq(ItemType) /\ items \in Seq(ItemType)
  BY DEF StoreInv, TypeOK
<1>2. \A j \in DOMAIN batch : IsRecord(batch[j])
  BY DEF StoreInv, WriterHolds, IsRecord, Item
<1>3. ASSUME NEW r \in Records(batch)
      PROVE  /\ r \in ItemType /\ IsRecord(r) /\ r = Item("record", r.id, r.seq, None)
             /\ r.id \in Ids /\ r.seq \in Seqs /\ r.id \notin terminal
  <2>1. PICK j \in DOMAIN batch : batch[j] = r /\ IsRecord(r)
    BY <1>1, RecordsDef
  <2>2. r \in ItemType
    BY <1>1, RecordsDef
  <2> QED
    BY <2>1, <2>2 DEF StoreInv, WriterHolds
<1>4. ASSUME NEW r \in Records(items)
      PROVE  /\ r \in ItemType /\ IsRecord(r) /\ r = Item("record", r.id, r.seq, None)
             /\ r.id \in Ids /\ r.seq \in Seqs /\ r.id < nextId
  <2>1. PICK j \in DOMAIN items : items[j] = r /\ IsRecord(r)
    BY <1>1, RecordsDef
  <2>2. r \in ItemType
    BY <1>1, RecordsDef
  <2>3. r = Item("record", r.id, r.seq, None) /\ r.id # None /\ r.seq # None
    BY <2>1 DEF StoreInv, Commands
  <2>4. r.id < nextId
    BY <2>1 DEF StoreInv, Unused
  <2>5. r.id \in Ids /\ r.seq \in Seqs
    BY <2>2, <2>3 DEF ItemType
  <2> QED
    BY <2>1, <2>2, <2>3, <2>4, <2>5
<1>5. \A r \in Records(batch) : r.id < nextId
  <2> SUFFICES ASSUME NEW r \in Records(batch) PROVE r.id < nextId
    OBVIOUS
  <2>1. r.id \in Ids /\ r.id \notin terminal /\ r \in OnTheWay
    BY <1>3 DEF OnTheWay
  <2>2. rows[r.id] = "active"
    BY <2>1 DEF StoreInv, RowsFollow
  <2>3. r.id >= nextId => rows[r.id] = "none"
    BY <2>1 DEF StoreInv, Unused
  <2>4. nextId \in Nat /\ r.id \in Nat
    BY <2>1, StoreBounds DEF StoreInv, TypeOK, Ids
  <2> QED
    BY <2>2, <2>3, <2>4
<1>6. \A j \in DOMAIN batch : batch[j] \in Records(batch)
  BY <1>1, <1>2, RecordsDef
<1>7. \A j \in DOMAIN items : IsRecord(items[j]) => items[j] \in Records(items)
  BY <1>1, RecordsDef
<1> QED
  BY <1>1, <1>3, <1>4, <1>5, <1>6, <1>7 DEF OnTheWay

\* The batch of one recording: no more records than it has places, nor than numbers from
\* the total so far to its last record.
LEMMA BatchCounts ==
    ASSUME StoreInv, NEW id \in Ids, Records(batch) # {}, \A r \in Records(batch) : r.id = id
    PROVE  /\ IsFiniteSet(Records(batch)) /\ Cardinality(Records(batch)) \in Nat
           /\ Cardinality(Records(batch)) <= Len(batch)
           /\ \E last \in Records(batch) :
                 /\ totals[id] + Cardinality(Records(batch)) <= last.seq
                 /\ \A r \in Records(batch) : r.seq <= last.seq
<1> DEFINE R == Records(batch)  n == Len(batch)
<1>1. batch \in Seq(ItemType) /\ n \in Nat /\ DOMAIN batch = 1..n
  BY WayFacts
<1>2. R = {batch[j] : j \in 1..n}
  BY <1>1, WayFacts DEF Records, OnTheWay
<1>3. n # 0
  BY <1>1, <1>2
<1>4. ExistsSurjection(1..n, R)
  <2> DEFINE f == [j \in 1..n |-> batch[j]]
  <2>1. f \in Surjection(1..n, R)
    BY <1>2 DEF Surjection
  <2> QED
    BY <2>1 DEF ExistsSurjection
<1>5. IsFiniteSet(R) /\ Cardinality(R) <= n
  <2>1. IsFiniteSet(1..n)
    BY <1>1, FS_Interval
  <2>2. PICK f : f \in Surjection(1..n, R)
    BY <1>4 DEF ExistsSurjection
  <2> HIDE DEF R
  <2>3. IsFiniteSet(R)
    BY <2>1, <2>2, FS_Surjection
  <2> QED
    BY <1>1, <1>4, <2>3, FS_SurjCardinalityBound
<1>6. Cardinality(R) \in Nat
  BY <1>5, FS_CardinalityType
<1> DEFINE last == batch[n]
<1>7. last \in R /\ n \in DOMAIN batch
  BY <1>1, <1>3, WayFacts
<1>8. \A r \in R : r.seq \in Seqs /\ totals[id] < r.seq /\ r = Item("record", id, r.seq, None)
  BY WayFacts DEF StoreInv, Numbered
<1>9. \A r \in R : r.seq <= last.seq
  <2> SUFFICES ASSUME NEW r \in R PROVE r.seq <= last.seq
    OBVIOUS
  <2>1. PICK j \in 1..n : batch[j] = r
    BY <1>2
  <2>2. IsRecord(r) /\ IsRecord(last) /\ r.seq \in Int /\ last.seq \in Int
    BY <1>7, <1>8, WayFacts DEF Seqs
  <2>3. CASE j = n
    BY <2>1, <2>2, <2>3
  <2>4. CASE j < n
    <3>1. Increasing(batch)
      BY DEF StoreInv, Numbered
    <3> QED
      BY <1>1, <1>7, <2>1, <2>2, <2>4, <3>1 DEF Increasing
  <2>5. j \in 1..Len(batch) /\ Len(batch) \in Nat
    BY <1>1, <2>1
  <2> QED
    BY <2>3, <2>4, <2>5
<1> DEFINE T == (totals[id] + 1)..last.seq
<1>10. totals[id] \in Nat /\ last.seq \in Nat /\ totals[id] < last.seq
  BY <1>7, <1>8, StoreBounds DEF StoreInv, TypeOK, Seqs
<1>11. IsFiniteSet(T) /\ Cardinality(T) = last.seq - totals[id]
  <2> DEFINE a == totals[id] + 1  b == last.seq
  <2>1. a \in Int /\ b \in Int /\ ~(a > b) /\ b - a + 1 = last.seq - totals[id]
    BY <1>10
  <2> HIDE DEF a, b
  <2>2. IsFiniteSet(a..b) /\ Cardinality(a..b) = IF a > b THEN 0 ELSE b - a + 1
    BY <2>1, FS_Interval
  <2> QED
    BY <2>1, <2>2 DEF a, b
<1>12. \A r \in R : r.seq \in T
  BY <1>8, <1>9, <1>10, StoreBounds DEF Seqs
<1> DEFINE g == [r \in R |-> r.seq]
<1>13. g \in Injection(R, T)
  <2> HIDE DEF T, R
  <2>1. g \in [R -> T]
    BY <1>12
  <2>2. \A r, q \in R : g[r] = g[q] => r = q
    <3> SUFFICES ASSUME NEW r \in R, NEW q \in R, r.seq = q.seq PROVE r = q
      OBVIOUS
    <3> QED
      BY <1>8
  <2> QED
    BY <2>1, <2>2 DEF Injection, IsInjective
<1>14. Cardinality(R) <= last.seq - totals[id]
  <2> HIDE DEF T, R, g
  <2>1. Cardinality(R) <= Cardinality(T)
    BY <1>11, <1>13, FS_Injection
  <2> QED
    BY <1>11, <2>1
<1>15. totals[id] + Cardinality(R) <= last.seq
  BY <1>6, <1>10, <1>14
<1> QED
  BY <1>5, <1>6, <1>7, <1>9, <1>15

\* What flush does: the batch is of one recording that goes on, and is written or counted
\* as lost as a whole.
FlushWrites(id) ==
    /\ events' = [events EXCEPT ![id] = @ \cup {r.seq : r \in Records(batch)}]
    /\ totals' = [totals EXCEPT ![id] = @ + Cardinality(Records(batch))]
    /\ failures' = [failures EXCEPT ![id] = 0]
    /\ totals'[id] >= MaxEvents => mark'.id = id
    /\ UNCHANGED counted
FlushLoses(id) ==
    /\ counted' = counted \cup Records(batch)
    /\ failures' = [failures EXCEPT ![id] = @ + 1]
    /\ failures'[id] >= MaxFailures => mark'.id = id
    /\ UNCHANGED <<events, totals>>
FlushNothing ==
    Records(batch) = {} /\ mark' = NoMark /\ UNCHANGED <<events, totals, failures, counted>>
FlushOf(id) ==
    /\ Records(batch) # {} /\ \A r \in Records(batch) : r.id = id
    /\ rows[id] = "active" /\ id < nextId
    /\ FlushWrites(id) \/ FlushLoses(id)
    /\ mark' = NoMark \/ (mark'.id = id /\ mark' \in MarkType /\ mark'.status \in {"error", "limit_reached"})

LEMMA FlushEffect ==
    ASSUME StoreInv, Flush
    PROVE  batch' = <<>> /\ (FlushNothing \/ \E id \in Ids \ terminal : FlushOf(id))
<1> DEFINE live == {r \in Records(batch) : r.id \notin terminal}
<1>1. live = Records(batch)
  BY WayFacts
<1>2. CASE Records(batch) = {}
  BY <1>1, <1>2 DEF Flush, FlushNothing
<1>3. CASE Records(batch) # {}
  <2>1. PICK id \in {r.id : r \in live} :
            LET records == {r \in live : r.id = id} IN BatchWritten(id, records) \/ BatchFailed(id, records)
    BY <1>1, <1>3 DEF Flush
  <2>2. id \in Ids \ terminal /\ id < nextId /\ \E r \in OnTheWay : r.id = id
    BY <1>1, WayFacts
  <2>3. \A r \in Records(batch) : r.id = id
    BY <2>2, WayFacts DEF StoreInv, OneRecording
  <2>4. {r \in live : r.id = id} = Records(batch)
    BY <1>1, <2>3
  <2>5. rows[id] = "active"
    BY <2>2 DEF StoreInv, RowsFollow
  <2>6. BatchWritten(id, Records(batch)) \/ BatchFailed(id, Records(batch))
    BY <2>1, <2>4
  <2>t. totals \in [Ids -> 0..MaxSeq] /\ failures \in [Ids -> 0..MaxFailures] /\ events \in [Ids -> SUBSET Seqs]
    BY DEF StoreInv, TypeOK
  <2>7. FlushOf(id)
    <3>1. CASE BatchWritten(id, Records(batch))
      <4>1. mark' = NoMark \/ mark' = [id |-> id, status |-> "limit_reached"]
        BY <3>1 DEF BatchWritten
      <4>2. totals'[id] >= MaxEvents => mark'.id = id
        BY <3>1 DEF BatchWritten, LimitReached
      <4>3. FlushWrites(id)
        BY <3>1, <4>2 DEF BatchWritten, FlushWrites
      <4> QED
        BY <1>3, <2>2, <2>3, <2>5, <4>1, <4>3 DEF FlushOf, MarkType, Statuses
    <3>2. CASE BatchFailed(id, Records(batch))
      <4>1. mark' = NoMark \/ mark' = [id |-> id, status |-> "error"]
        BY <3>2 DEF BatchFailed
      <4>2. failures'[id] >= MaxFailures => mark'.id = id
        BY <3>2 DEF BatchFailed
      <4>3. FlushLoses(id)
        BY <3>2, <4>2 DEF BatchFailed, FlushLoses
      <4> QED
        BY <1>3, <2>2, <2>3, <2>5, <4>1, <4>3 DEF FlushOf, MarkType, Statuses
    <3> QED
      BY <2>6, <3>1, <3>2
  <2> QED
    BY <2>2, <2>7 DEF Flush
<1> QED
  BY <1>2, <1>3 DEF Flush

-----------------------------------------------------------------------------
(* Every step keeps the types. *)

LEMMA ValueTypes ==
    /\ Nobody \in Active /\ NoOp \in OpType /\ NoMark \in MarkType /\ NoCmd \in CmdType
    /\ \A k \in {"flush", "sweep", "boot"} : Item(k, None, None, None) \in CmdType
    /\ \A i \in Ids \cup {None} : Item("expire", i, None, None) \in CmdType
    /\ \A k \in {"start", "stop", "delete", "close"}, p \in {"send", "wait"}, a \in Active :
          Op(k, p, a) \in OpType
    /\ \A i \in Ids \cup {None} : [id |-> i, nextSeq |-> 0] \in Active
    /\ \A i \in Ids : \A st \in Statuses : [id |-> i, status |-> st] \in MarkType
<1> USE StoreBounds
<1>1. Nobody \in Active /\ NoMark \in MarkType /\ NoCmd \in CmdType
  BY DEF Nobody, Active, None, NoMark, MarkType, NoCmd, Item, CmdType
<1>2. NoOp \in OpType
  BY <1>1 DEF NoOp, OpType
<1>3. \A k \in {"flush", "sweep", "boot"} : Item(k, None, None, None) \in CmdType
  BY DEF Item, CmdType, None
<1>4. \A i \in Ids \cup {None} : Item("expire", i, None, None) \in CmdType
  BY DEF Item, CmdType, None
<1>5. \A k \in {"start", "stop", "delete", "close"}, p \in {"send", "wait"}, a \in Active : Op(k, p, a) \in OpType
  BY <1>2 DEF Op, OpType
<1>6. \A i \in Ids \cup {None} : [id |-> i, nextSeq |-> 0] \in Active
  BY DEF Active
<1>7. \A i \in Ids : \A st \in Statuses : [id |-> i, status |-> st] \in MarkType
  BY DEF MarkType
<1> QED
  BY <1>1, <1>2, <1>3, <1>4, <1>5, <1>6, <1>7

LEMMA InitTypes == Init => TypeOK
<1> SUFFICES ASSUME Init PROVE TypeOK
  OBVIOUS
<1>1. DbOK /\ CountsOK
  BY StoreBounds, LimitsAssumption DEF Init, DbOK, CountsOK
<1>b. /\ closed \in BOOLEAN /\ closeSent \in BOOLEAN /\ closeComplete \in BOOLEAN
      /\ exited \in BOOLEAN /\ sweepDue \in BOOLEAN
  BY Zenon DEF Init
<1>2. SessionOK
  <2>1. epoch \in 1..MaxEpoch
    BY StoreBounds DEF Init
  <2> QED
    BY <1>b, <2>1, ValueTypes DEF Init, SessionOK
<1>3. CallOK /\ TurnOK
  BY ValueTypes, StoreBounds DEF Init, CallOK, TurnOK
<1>4. QueueOK
  BY SizesAssumption DEF Init, QueueOK
<1>5. BatchOK
  <2>1. batch \in Seq(ItemType) /\ Len(batch) <= BatchSize
    BY SizesAssumption DEF Init
  <2> QED
    BY <1>b, <2>1 DEF Init, BatchOK
<1>6. TimerOK /\ HistoryOK
  BY DEF Init, TimerOK, HistoryOK
<1> QED
  BY <1>1, <1>2, <1>3, <1>4, <1>5, <1>6, TypeParts

\* The answer to a command changes only what the waiting call knows.
LEMMA RepliedFacts ==
    ASSUME StoreInv, NEW c, NEW f \in BOOLEAN
    PROVE  /\ Replied(c, f) \in OpType
           /\ Replied(c, f).kind = op.kind /\ Replied(c, f).pc = op.pc /\ Replied(c, f).active = op.active
           /\ Replied(c, f).expired = op.expired
           /\ Replied(c, f).done => op.done \/ (c.op = opNo /\ op.pc = "wait")
<1>1. op \in OpType
  BY DEF StoreInv, TypeOK, OpType
<1> QED
  BY <1>1 DEF Replied, OpType

LEMMA CallTypes ==
    ASSUME StoreInv,
           \/ StartRecording \/ StopRecording \/ (\E id \in Ids : DeleteRecording(id)) \/ Shutdown
           \/ Expire \/ CallStep \/ Enqueue
    PROVE  TypeOK'
<1> USE DEF db, store, calls, limits, writer, history
<1>0. /\ DbOK /\ SessionOK /\ CallOK /\ QueueOK /\ BatchOK /\ CountsOK /\ TimerOK /\ TurnOK /\ HistoryOK
  BY TypeParts DEF StoreInv
<1>p. (DbOK /\ SessionOK /\ CallOK /\ QueueOK /\ BatchOK /\ CountsOK /\ TimerOK /\ TurnOK /\ HistoryOK)'
        => TypeOK'
  BY DEF TypeOK, DbOK, SessionOK, CallOK, QueueOK, BatchOK, CountsOK, TimerOK, TurnOK, HistoryOK,
         OpType, MarkType
<1>w. ASSUME UNCHANGED writer PROVE (BatchOK /\ CountsOK /\ TimerOK /\ TurnOK)'
  BY <1>0, <1>w DEF BatchOK, CountsOK, TimerOK, TurnOK
<1>c. Calls => opNo' \in 0..MaxOps
  BY <1>0, StoreBounds DEF Calls, CallOK
<1>o. op \in OpType /\ op.active \in Active /\ current \in Active /\ current.id \in Ids \cup {None}
  BY <1>0 DEF CallOK, SessionOK, OpType, Active
<1>1. CASE StartRecording
  <2>1. nextId \in Ids /\ nextId' \in 1..MaxId + 1
    BY <1>0, <1>1, StoreBounds DEF StartRecording, DbOK, Ids
  <2>2. DbOK'
    BY <1>0, <1>1, <2>1 DEF StartRecording, DbOK, Statuses
  <2>3. CallOK'
    BY <1>1, <1>c, <2>1, ValueTypes DEF StartRecording, CallOK
  <2> QED
    BY <1>0, <1>1, <1>p, <1>w, <2>2, <2>3 DEF StartRecording, SessionOK, QueueOK, HistoryOK
<1>2. CASE StopRecording
  <2>1. CallOK' /\ SessionOK'
    BY <1>0, <1>2, <1>c, <1>o, ValueTypes DEF StopRecording, CallOK, SessionOK
  <2> QED
    BY <1>0, <1>2, <1>p, <1>w, <2>1 DEF StopRecording, DbOK, QueueOK, HistoryOK
<1>3. ASSUME NEW id \in Ids, DeleteRecording(id) PROVE TypeOK'
  <2>1. CallOK'
    BY <1>3, <1>c, ValueTypes DEF DeleteRecording, CallOK
  <2> QED
    BY <1>0, <1>3, <1>p, <1>w, <2>1 DEF DeleteRecording, DbOK, SessionOK, QueueOK, HistoryOK
<1>4. CASE Shutdown
  <2>1. SessionOK'
    BY <1>0, <1>4, <1>o, ValueTypes DEF Shutdown, SessionOK
  <2>2. closing' \in Ids \cup {None}
    BY <2>1 DEF SessionOK
  <2>3. op' \in OpType
    <3>1. [id |-> closing', nextSeq |-> 0] \in Active
      BY <2>2, ValueTypes
    <3>2. (IF closeSent THEN "wait" ELSE "send") \in {"send", "wait"}
      OBVIOUS
    <3>3. op' = Op("close", IF closeSent THEN "wait" ELSE "send", [id |-> closing', nextSeq |-> 0])
      BY <1>4 DEF Shutdown
    <3> QED
      BY <3>1, <3>2, <3>3, ValueTypes
  <2>4. CallOK'
    BY <1>4, <1>c, <2>3 DEF Shutdown, CallOK
  <2> QED
    BY <1>0, <1>4, <1>p, <1>w, <2>1, <2>4 DEF Shutdown, DbOK, QueueOK, HistoryOK
<1>5. CASE Expire
  <2>1. CallOK'
    BY <1>0, <1>5 DEF Expire, CallOK, OpType
  <2> QED
    BY <1>0, <1>5, <1>p, <1>w, <2>1 DEF Expire, DbOK, SessionOK, QueueOK, HistoryOK
<1>6. CASE SendCommand
  <2>1. CallOK'
    BY <1>0, <1>6 DEF SendCommand, CallOK, OpType
  <2>2. op.kind \in {"start", "stop", "delete", "close"}
    BY <1>o, <1>6 DEF SendCommand, StoreInv, CallsHold, OpType
  <2>3. Item(op.kind, op.active.id, None, opNo) \in ItemType
    BY <1>0, <1>o, <2>2, StoreBounds DEF Item, ItemType, CallOK, Active, None
  <2>4. QueueOK'
    <3>1. Append(items, Item(op.kind, op.active.id, None, opNo)) \in Seq(ItemType)
          /\ Len(Append(items, Item(op.kind, op.active.id, None, opNo))) = Len(items) + 1
      BY <1>0, <2>3 DEF QueueOK
    <3> QED
      BY <1>0, <1>6, <3>1, SizesAssumption DEF SendCommand, QueueOK, HasRoom
  <2>5. SessionOK'
    BY <1>0, <1>6 DEF SendCommand, SessionOK
  <2> QED
    BY <1>0, <1>6, <1>p, <1>w, <2>1, <2>4, <2>5 DEF SendCommand, DbOK, HistoryOK
<1>7. CASE SendTimeout
  <2>1. SessionOK' /\ CallOK'
    BY <1>0, <1>7, <1>o, ValueTypes DEF SendTimeout, SessionOK, CallOK, Restored
  <2> QED
    BY <1>0, <1>7, <1>p, <1>w, <2>1 DEF SendTimeout, DbOK, QueueOK, HistoryOK
<1>8. CASE WaitDone
  <2>1. SessionOK' /\ CallOK'
    BY <1>0, <1>8, <1>o, ValueTypes DEF WaitDone, SessionOK, CallOK
  <2> QED
    BY <1>0, <1>8, <1>p, <1>w, <2>1 DEF WaitDone, DbOK, QueueOK, HistoryOK
<1>9. CASE WaitTimeout
  <2>1. CallOK'
    BY <1>0, <1>9, ValueTypes DEF WaitTimeout, CallOK
  <2> QED
    BY <1>0, <1>9, <1>p, <1>w, <2>1 DEF WaitTimeout, DbOK, SessionOK, QueueOK, HistoryOK
<1>10. CASE Enqueue
  <2> DEFINE seq == current.nextSeq + 1
             record == Item("record", current.id, seq, None)
  <2>1. seq \in Seqs /\ seq \in 0..MaxSeq
    BY <1>o, <1>10, StoreBounds DEF Enqueue, Active, Seqs
  <2>2. record \in ItemType
    BY <1>o, <2>1, StoreBounds DEF Item, ItemType, None
  <2>3. current' \in Active
    BY <1>o, <1>10, <2>1 DEF Enqueue, Active
  <2>4. SessionOK'
    BY <1>0, <1>10, <2>3 DEF Enqueue, SessionOK
  <2>5. HistoryOK'
    BY <1>0, <1>10, <2>2 DEF Enqueue, HistoryOK
  <2>6. QueueOK'
    <3> HIDE DEF seq, record
    <3>1. Append(items, record) \in Seq(ItemType) /\ Len(Append(items, record)) = Len(items) + 1
      BY <1>0, <2>2 DEF QueueOK
    <3>2. items' = items \/ (items' = Append(items, record) /\ HasRoom)
      BY <1>10 DEF Enqueue, record, seq
    <3> QED
      BY <1>0, <3>1, <3>2, SizesAssumption DEF QueueOK, HasRoom
  <2> QED
    BY <1>0, <1>10, <1>p, <1>w, <2>4, <2>5, <2>6 DEF Enqueue, DbOK, CallOK
<1> QED
  BY <1>1, <1>2, <1>3, <1>4, <1>5, <1>6, <1>7, <1>8, <1>9, <1>10 DEF CallStep

\* A flush keeps the counts within their bounds.
LEMMA FlushTypes ==
    ASSUME StoreInv, mark = NoMark, Flush
    PROVE  /\ batch' = <<>> /\ events' \in [Ids -> SUBSET Seqs] /\ CountsOK' /\ mark' \in MarkType
           /\ counted' \subseteq ItemType
<1>0. DbOK /\ CountsOK /\ HistoryOK
  BY TypeParts DEF StoreInv
<1>1. batch' = <<>> /\ (FlushNothing \/ \E id \in Ids \ terminal : FlushOf(id))
  BY FlushEffect
<1>2. CASE FlushNothing
  BY <1>0, <1>1, <1>2, ValueTypes DEF FlushNothing, DbOK, CountsOK, HistoryOK
<1>3. ASSUME NEW id \in Ids \ terminal, FlushOf(id)
      PROVE  /\ events' \in [Ids -> SUBSET Seqs] /\ CountsOK' /\ mark' \in MarkType
             /\ counted' \subseteq ItemType
  <2>1. mark' \in MarkType
    BY <1>3, ValueTypes DEF FlushOf
  <2>2. Records(batch) # {} /\ \A r \in Records(batch) : r.id = id
    BY <1>3 DEF FlushOf
  <2>3. CASE FlushWrites(id)
    <3>1. {r.seq : r \in Records(batch)} \subseteq Seqs
      BY WayFacts
    <3>2. events' \in [Ids -> SUBSET Seqs]
      BY <1>0, <2>3, <3>1 DEF FlushWrites, DbOK
    <3>3. PICK last \in Records(batch) : totals[id] + Cardinality(Records(batch)) <= last.seq
      BY <2>2, BatchCounts
    <3>4. Cardinality(Records(batch)) \in Nat /\ last.seq \in Seqs
      BY <2>2, BatchCounts, WayFacts
    <3>5. totals[id] + Cardinality(Records(batch)) \in 0..MaxSeq
      BY <1>0, <3>3, <3>4, StoreBounds DEF CountsOK, Seqs
    <3>6. CountsOK'
      BY <1>0, <2>3, <3>5, LimitsAssumption DEF FlushWrites, CountsOK
    <3> QED
      BY <1>0, <2>1, <2>3, <3>2, <3>6 DEF FlushWrites, HistoryOK
  <2>4. CASE FlushLoses(id)
    <3>1. failures[id] < MaxFailures
      <4>1. mark.id \notin Ids
        BY DEF NoMark, None, Ids
      <4> QED
        BY <4>1 DEF StoreInv, WriterHolds
    <3>2. failures[id] + 1 \in 0..MaxFailures
      BY <1>0, <3>1, LimitsAssumption DEF CountsOK
    <3>3. CountsOK'
      BY <1>0, <2>4, <3>2 DEF FlushLoses, CountsOK
    <3>4. counted' \subseteq ItemType
      BY <1>0, <2>4, WayFacts DEF FlushLoses, HistoryOK
    <3> QED
      BY <1>0, <2>1, <2>4, <3>3, <3>4 DEF FlushLoses, DbOK
  <2> QED
    BY <1>3, <2>3, <2>4 DEF FlushOf
<1> QED
  BY <1>1, <1>2, <1>3

\* A command taken from the queue, or in the writer's hands.
LEMMA TakenFacts ==
    ASSUME StoreInv, Taken
    PROVE  /\ items # <<>> /\ items' = Tail(items) /\ items' \in Seq(ItemType) /\ Len(items') = Len(items) - 1
           /\ Len(items) \in Nat \ {0} /\ Head(items) = items[1] /\ 1 \in DOMAIN items
           /\ Head(items) \in ItemType
           /\ ~IsRecord(Head(items)) => Head(items) \in CmdType
           /\ IsRecord(Head(items)) => Records(items) = Records(items') \cup {Head(items)}
           /\ ~IsRecord(Head(items)) => Records(items) = Records(items')
           /\ \A j \in DOMAIN items' : j + 1 \in DOMAIN items /\ items'[j] = items[j + 1]
<1>1. items # <<>> /\ items' = Tail(items) /\ items \in Seq(ItemType)
  BY WayFacts DEF Taken
<1>2. /\ Head(items) \in ItemType /\ Head(items) = items[1] /\ 1 \in DOMAIN items
      /\ Tail(items) \in Seq(ItemType) /\ Len(Tail(items)) = Len(items) - 1 /\ Len(items) \in Nat \ {0}
      /\ \A j \in DOMAIN Tail(items) : j + 1 \in DOMAIN items /\ Tail(items)[j] = items[j + 1]
      /\ IsRecord(Head(items)) => Records(items) = Records(Tail(items)) \cup {Head(items)}
      /\ ~IsRecord(Head(items)) => Records(items) = Records(Tail(items))
  BY <1>1, RecordsTail
<1>3. ~IsRecord(Head(items)) => Head(items) \in CmdType
  <2>1. ~IsRecord(Head(items)) => Head(items).seq = None
    BY <1>2 DEF StoreInv, Commands
  <2> QED
    BY <1>2, <2>1 DEF ItemType, CmdType, IsRecord
<1> QED
  BY <1>1, <1>2, <1>3

LEMMA WriterTypes ==
    ASSUME StoreInv, WriterStep
    PROVE  TypeOK'
<1> USE DEF db, store, calls, limits, writer, history
<1>0. /\ DbOK /\ SessionOK /\ CallOK /\ QueueOK /\ BatchOK /\ CountsOK /\ TimerOK /\ TurnOK /\ HistoryOK
  BY TypeParts DEF StoreInv
<1>p. (DbOK /\ SessionOK /\ CallOK /\ QueueOK /\ BatchOK /\ CountsOK /\ TimerOK /\ TurnOK /\ HistoryOK)'
        => TypeOK'
  BY DEF TypeOK, DbOK, SessionOK, CallOK, QueueOK, BatchOK, CountsOK, TimerOK, TurnOK, HistoryOK,
         OpType, MarkType
<1>q. Taken => QueueOK'
  BY <1>0, TakenFacts, SizesAssumption DEF QueueOK
<1>e. <<>> \in Seq(ItemType) /\ Len(<<>>) <= BatchSize
  BY SizesAssumption
<1>f. ASSUME NEW c \in CmdType, mark = NoMark, FlushThen(c), QueueOK', sweepDue' \in BOOLEAN PROVE TypeOK'
  <2>1. /\ batch' = <<>> /\ events' \in [Ids -> SUBSET Seqs] /\ CountsOK' /\ mark' \in MarkType
        /\ counted' \subseteq ItemType
    BY <1>f, FlushTypes DEF FlushThen
  <2>2. BatchOK'
    BY <1>0, <1>e, <1>f, <2>1 DEF FlushThen, BatchOK
  <2>3. DbOK' /\ TurnOK' /\ HistoryOK'
    BY <1>0, <1>f, <2>1 DEF FlushThen, DbOK, TurnOK, HistoryOK
  <2>4. SessionOK' /\ CallOK' /\ TimerOK'
    BY <1>0, <1>f DEF FlushThen, SessionOK, CallOK, TimerOK
  <2> QED
    BY <1>f, <1>p, <2>1, <2>2, <2>3, <2>4
<1>c. cmd.id \in Ids \cup {None} /\ mark.id \in Ids \cup {None} /\ sweepDue \in BOOLEAN
  BY <1>0 DEF TurnOK, CmdType, MarkType, BatchOK
<1>t. \A i : WithoutTimer(i) => TimerOK'
  BY <1>0 DEF WithoutTimer, TimerOK
<1>r. \A i \in Ids, st \in Statuses : Stopped(i, st) \in [Ids -> Statuses \cup {"none"}]
  BY <1>0 DEF Stopped, DbOK
<1>d. ASSUME NEW i \in Ids, Deleted(i) \/ DeletedPartly(i), UNCHANGED nextId
      PROVE  DbOK' /\ issued' \subseteq ItemType
  <2>1. rows' \in [Ids -> Statuses \cup {"none"}]
    BY <1>0, <1>d DEF Deleted, DeletedPartly, DbOK
  <2>2. events' \in [Ids -> SUBSET Seqs]
    <3>1. CASE Deleted(i)
      BY <1>0, <3>1 DEF Deleted, DbOK
    <3>2. CASE DeletedPartly(i)
      <4>1. PICK n \in 0..MaxSeq : events' = [events EXCEPT ![i] = {s \in @ : s > n}]
        BY <3>2 DEF DeletedPartly
      <4> QED
        BY <1>0, <4>1 DEF DbOK
    <3> QED
      BY <1>d, <3>1, <3>2
  <2>3. issued' \subseteq ItemType
    BY <1>0, <1>d DEF Deleted, DeletedPartly, HistoryOK
  <2> QED
    BY <1>0, <1>d, <2>1, <2>2, <2>3 DEF DbOK
<1>1. CASE TakeRecord
  <2>1. Taken /\ Head(items) \in ItemType /\ IsRecord(Head(items))
    BY <1>1, TakenFacts DEF TakeRecord
  <2>2. Append(batch, Head(items)) \in Seq(ItemType) /\ Len(Append(batch, Head(items))) = Len(batch) + 1
    BY <1>0, <2>1 DEF BatchOK
  <2>3. Len(batch) < BatchSize
    BY <1>1 DEF TakeRecord, Select, WriterFree, NoCmd, Item, StoreInv, WriterHolds
  <2>4. BatchOK'
    BY <1>0, <1>1, <2>2, <2>3, SizesAssumption DEF TakeRecord, BatchOK
  <2>5. TurnOK'
    BY <1>0, <1>1, ValueTypes DEF TakeRecord, TurnOK
  <2> QED
    BY <1>0, <1>1, <1>p, <1>q, <2>1, <2>4, <2>5
       DEF TakeRecord, DbOK, SessionOK, CallOK, CountsOK, TimerOK, HistoryOK
<1>2. CASE DropRecord
  <2>1. HistoryOK'
    BY <1>0, <1>2, TakenFacts DEF DropRecord, HistoryOK
  <2> QED
    BY <1>0, <1>2, <1>p, <1>q, <2>1
       DEF DropRecord, DbOK, SessionOK, CallOK, BatchOK, CountsOK, TimerOK, TurnOK
<1>3. CASE TakeStart
  <2>1. Taken /\ Head(items).kind = "start" /\ Head(items) \in CmdType /\ Head(items).id \in Ids
    <3>1. Taken /\ Head(items).kind = "start"
      BY <1>3 DEF TakeStart
    <3>2. Head(items) \in ItemType /\ (~IsRecord(Head(items)) => Head(items) \in CmdType)
          /\ 1 \in DOMAIN items /\ Head(items) = items[1]
      BY <3>1, TakenFacts
    <3>3. Head(items).id # None
      BY <3>1, <3>2 DEF StoreInv, Commands
    <3> QED
      BY <3>1, <3>2, <3>3 DEF ItemType, IsRecord
  <2>2. CallOK'
    <3>1. op' = op \/ op' = Replied(Head(items), FALSE)
      BY <1>3 DEF TakeStart
    <3> QED
      BY <1>0, <1>3, <3>1, RepliedFacts DEF TakeStart, CallOK
  <2>3. TimerOK'
    BY <1>0, <1>3, <2>1 DEF TakeStart, TimerOK
  <2>4. TurnOK'
    BY <1>0, <1>3, <2>1, ValueTypes DEF TakeStart, TurnOK, Statuses
  <2> QED
    BY <1>0, <1>3, <1>p, <1>q, <2>1, <2>2, <2>3, <2>4
       DEF TakeStart, DbOK, SessionOK, BatchOK, CountsOK, HistoryOK
<1>4. CASE TakeCommand
  <2>1. Taken /\ mark = NoMark /\ ~IsRecord(Head(items)) /\ FlushThen(Head(items)) /\ sweepDue' = sweepDue
    BY <1>4 DEF TakeCommand, Select, WriterFree, IsRecord
  <2>2. Head(items) \in CmdType
    BY <2>1, TakenFacts
  <2> QED
    BY <1>c, <1>f, <1>q, <2>1, <2>2
<1>5. CASE FlushFull \/ FlushTimer
  <2>1. mark = NoMark /\ FlushThen(NoCmd) /\ sweepDue' = sweepDue /\ items' = items
    BY <1>5 DEF FlushFull, FlushTimer, Select, WriterFree
  <2>2. QueueOK'
    BY <1>0, <2>1 DEF QueueOK
  <2> QED
    BY <1>c, <1>f, <2>1, <2>2, ValueTypes
<1>6. CASE TakeDuration
  <2>1. mark = NoMark /\ FlushThen(Item("expire", durID, None, None)) /\ sweepDue' = sweepDue /\ items' = items
    BY <1>6 DEF TakeDuration, WriterFree
  <2>2. QueueOK' /\ Item("expire", durID, None, None) \in CmdType
    BY <1>0, <2>1, ValueTypes DEF QueueOK, TimerOK
  <2> QED
    BY <1>c, <1>f, <2>1, <2>2
<1>7. CASE TakeSweep
  <2>1. mark = NoMark /\ FlushThen(Item("sweep", None, None, None)) /\ sweepDue' \in BOOLEAN /\ items' = items
    BY <1>7 DEF TakeSweep, Select, WriterFree
  <2>2. QueueOK' /\ Item("sweep", None, None, None) \in CmdType
    BY <1>0, <2>1, ValueTypes DEF QueueOK
  <2> QED
    BY <1>f, <2>1, <2>2
<1>8. CASE MarkTerminal
  <2>1. mark.id \in Ids /\ mark.status \in Statuses
    BY <1>c, <1>8 DEF MarkTerminal, StoreInv, WriterHolds, Statuses
  <2>2. DbOK'
    BY <1>0, <1>8, <1>r, <2>1 DEF MarkTerminal, DbOK
  <2>3. SessionOK' /\ TurnOK'
    BY <1>0, <1>8, ValueTypes DEF MarkTerminal, SessionOK, TurnOK
  <2>4. BatchOK' /\ TimerOK'
    BY <1>0, <1>8, <1>t, <2>1 DEF MarkTerminal, BatchOK, Ended
  <2> QED
    BY <1>0, <1>8, <1>p, <2>2, <2>3, <2>4 DEF MarkTerminal, CallOK, QueueOK, CountsOK, HistoryOK
<1>9. CASE RunStart
  <2>1. CallOK'
    BY <1>0, <1>9, RepliedFacts DEF RunStart, CallOK
  <2> QED
    BY <1>0, <1>9, <1>p, <2>1, ValueTypes
       DEF RunStart, CmdOver, DbOK, SessionOK, QueueOK, BatchOK, CountsOK, TimerOK, TurnOK, HistoryOK
<1>10. CASE RunExpire
  <2>1. TurnOK'
    BY <1>0, <1>c, <1>10, ValueTypes DEF RunExpire, CmdOver, TurnOK, Statuses
  <2>2. TimerOK'
    BY <1>0, <1>10 DEF RunExpire, TimerOK
  <2> QED
    BY <1>0, <1>10, <1>p, <2>1, <2>2
       DEF RunExpire, DbOK, SessionOK, CallOK, QueueOK, BatchOK, CountsOK, HistoryOK
<1>11. CASE RunStop
  <2>1. CallOK'
    <3>1. \E f \in BOOLEAN : op' = Replied(cmd, f)
      BY <1>11 DEF RunStop
    <3> QED
      BY <1>0, <1>11, <3>1, RepliedFacts DEF RunStop, CallOK
  <2>2. /\ rows' \in [Ids -> Statuses \cup {"none"}] /\ terminal' \subseteq Ids /\ TimerOK'
    <3>1. CASE cmd.id # None /\ cmd.id \notin terminal
      <4>1. cmd.id \in Ids /\ "stopped" \in Statuses
        BY <1>c, <3>1 DEF Statuses
      <4>2. (rows' = Stopped(cmd.id, "stopped") \/ UNCHANGED rows) /\ terminal' = terminal \cup {cmd.id}
            /\ WithoutTimer(cmd.id)
        BY <1>11, <3>1 DEF RunStop
      <4> QED
        BY <1>0, <1>r, <1>t, <4>1, <4>2 DEF DbOK, BatchOK
    <3>2. CASE ~(cmd.id # None /\ cmd.id \notin terminal)
      BY <1>0, <1>11, <3>2 DEF RunStop, DbOK, BatchOK, TimerOK
    <3> QED
      BY <3>1, <3>2
  <2>3. exited' \in BOOLEAN
    BY <1>11 DEF RunStop, Returns
  <2>4. TurnOK' /\ DbOK' /\ BatchOK'
    BY <1>0, <1>11, <2>2, <2>3, ValueTypes DEF RunStop, CmdOver, TurnOK, DbOK, BatchOK
  <2> QED
    BY <1>0, <1>11, <1>p, <2>1, <2>2, <2>4 DEF RunStop, SessionOK, QueueOK, CountsOK, HistoryOK
<1>12. CASE RunDelete
  <2>1. cmd.id \in Ids
    BY <1>c, <1>12 DEF RunDelete, Runs, StoreInv, Commands
  <2>2. CallOK'
    <3>1. \E f \in BOOLEAN : op' = Replied(cmd, f)
      BY <1>12 DEF RunDelete
    <3> QED
      BY <1>0, <1>12, <3>1, RepliedFacts DEF RunDelete, CallOK
  <2>3. TurnOK'
    BY <1>0, <1>12, ValueTypes DEF RunDelete, CmdOver, TurnOK
  <2>4. DbOK' /\ issued' \subseteq ItemType
    <3>1. CASE Deleted(cmd.id) \/ DeletedPartly(cmd.id)
      BY <1>12, <1>d, <2>1, <3>1 DEF RunDelete
    <3>2. CASE UNCHANGED <<rows, events, issued>>
      BY <1>0, <1>12, <3>2 DEF RunDelete, DbOK, HistoryOK
    <3> QED
      BY <1>12, <3>1, <3>2 DEF RunDelete
  <2>5. terminal' \subseteq Ids /\ CountsOK' /\ TimerOK'
    <3>1. CASE UNCHANGED <<terminal, limits>>
      BY <1>0, <3>1 DEF BatchOK, CountsOK, TimerOK
    <3>2. CASE /\ terminal' = terminal \cup {cmd.id} /\ totals' = [totals EXCEPT ![cmd.id] = 0]
               /\ failures' = [failures EXCEPT ![cmd.id] = 0] /\ WithoutTimer(cmd.id)
      BY <1>0, <1>t, <2>1, <3>2, StoreBounds, LimitsAssumption DEF BatchOK, CountsOK
    <3> QED
      BY <1>12, <3>1, <3>2 DEF RunDelete
  <2>6. BatchOK' /\ HistoryOK'
    BY <1>0, <1>12, <2>4, <2>5 DEF RunDelete, BatchOK, HistoryOK
  <2> QED
    BY <1>0, <1>12, <1>p, <2>2, <2>3, <2>4, <2>5, <2>6 DEF RunDelete, SessionOK, QueueOK
<1>13. CASE SweepDelete
  <2>1. PICK oldest \in Ids : (Deleted(oldest) /\ UNCHANGED cmd) \/ (DeletedPartly(oldest) /\ CmdOver)
    BY <1>13 DEF SweepDelete, Candidates
  <2>2. DbOK' /\ issued' \subseteq ItemType
    BY <1>13, <1>d, <2>1 DEF SweepDelete
  <2>3. TurnOK' /\ HistoryOK'
    BY <1>0, <1>13, <2>1, <2>2, ValueTypes DEF SweepDelete, CmdOver, TurnOK, HistoryOK
  <2> QED
    BY <1>0, <1>13, <1>p, <2>2, <2>3 DEF SweepDelete, SessionOK, CallOK, QueueOK, BatchOK, CountsOK, TimerOK
<1>14. CASE SweepOver
  BY <1>0, <1>14, <1>p, ValueTypes
     DEF SweepOver, CmdOver, DbOK, SessionOK, CallOK, QueueOK, BatchOK, CountsOK, TimerOK, TurnOK, HistoryOK
<1> QED
  BY <1>1, <1>2, <1>3, <1>4, <1>5, <1>6, <1>7, <1>8, <1>9, <1>10, <1>11, <1>12, <1>13, <1>14 DEF WriterStep

LEMMA TimeTypes ==
    ASSUME StoreInv, DurationTimer \/ SweepTimer \/ Restart \/ UNCHANGED vars
    PROVE  TypeOK'
<1> USE DEF db, store, calls, limits, writer, history
<1>0. /\ DbOK /\ SessionOK /\ CallOK /\ QueueOK /\ BatchOK /\ CountsOK /\ TimerOK /\ TurnOK /\ HistoryOK
  BY TypeParts DEF StoreInv
<1>p. (DbOK /\ SessionOK /\ CallOK /\ QueueOK /\ BatchOK /\ CountsOK /\ TimerOK /\ TurnOK /\ HistoryOK)'
        => TypeOK'
  BY DEF TypeOK, DbOK, SessionOK, CallOK, QueueOK, BatchOK, CountsOK, TimerOK, TurnOK, HistoryOK,
         OpType, MarkType
<1>1. CASE DurationTimer \/ SweepTimer
  BY <1>0, <1>1, <1>p
     DEF DurationTimer, SweepTimer, DbOK, SessionOK, CallOK, QueueOK, BatchOK, CountsOK, TimerOK, TurnOK, HistoryOK
<1>2. CASE Restart
  <2>1. DbOK' /\ CountsOK'
    BY <1>0, <1>2, StoreBounds, LimitsAssumption DEF Restart, DbOK, CountsOK, Statuses
  <2>b. /\ closed' \in BOOLEAN /\ closeSent' \in BOOLEAN /\ closeComplete' \in BOOLEAN
        /\ exited' \in BOOLEAN /\ sweepDue' \in BOOLEAN
    BY <1>2, Zenon DEF Restart
  <2>2. SessionOK'
    <3>1. epoch' \in 1..MaxEpoch
      BY <1>0, <1>2, StoreBounds DEF Restart, SessionOK
    <3> QED
      BY <1>2, <2>b, <3>1, ValueTypes DEF Restart, SessionOK
  <2>3. CallOK' /\ TurnOK'
    BY <1>2, ValueTypes, StoreBounds DEF Restart, CallOK, TurnOK
  <2>4. QueueOK'
    BY <1>2, SizesAssumption DEF Restart, QueueOK
  <2>5. BatchOK'
    <3>1. batch' \in Seq(ItemType) /\ Len(batch') <= BatchSize
      BY <1>2, SizesAssumption DEF Restart
    <3> QED
      BY <1>2, <2>b, <3>1 DEF Restart, BatchOK
  <2>6. TimerOK' /\ HistoryOK'
    BY <1>2 DEF Restart, TimerOK, HistoryOK
  <2> QED
    BY <1>p, <2>1, <2>2, <2>3, <2>4, <2>5, <2>6
<1>3. CASE UNCHANGED vars
  BY <1>0, <1>3, <1>p
     DEF vars, DbOK, SessionOK, CallOK, QueueOK, BatchOK, CountsOK, TimerOK, TurnOK, HistoryOK
<1> QED
  BY <1>1, <1>2, <1>3

LEMMA NextTypes ==
    ASSUME StoreInv, [Next]_vars
    PROVE  TypeOK'
  BY CallTypes, WriterTypes, TimeTypes DEF Next

-----------------------------------------------------------------------------
(* The calls and the ids. *)

\* The answers of the writer leave the call itself as it is.
Answered ==
    /\ \E c \in CmdType \cup ItemType : \E f \in BOOLEAN : op' = op \/ op' = Replied(c, f)
    /\ UNCHANGED opNo
\* Nobody but the holder of the token installs a recording.
Cleared == current' = current \/ (current' = Nobody /\ current.id \in terminal')

LEMMA WriterCalls ==
    ASSUME StoreInv, WriterStep \/ DurationTimer \/ SweepTimer
    PROVE  /\ Answered /\ Cleared /\ UNCHANGED <<closed, closeSent, closing, nextId>>
           /\ terminal \subseteq terminal'
<1> USE DEF db, store, calls, limits, writer, history
<1>0. cmd \in CmdType /\ \A h \in ItemType : h \in CmdType \cup ItemType
  BY TypeParts DEF StoreInv, TurnOK
<1>a. op' = op /\ opNo' = opNo => Answered
  BY <1>0 DEF Answered
<1>b. \A f \in BOOLEAN : op' = Replied(cmd, f) /\ opNo' = opNo => Answered
  BY <1>0 DEF Answered
<1>1. CASE TakeRecord \/ DropRecord
  BY <1>1, <1>a DEF TakeRecord, DropRecord, Cleared
<1>2. CASE TakeStart
  <2>1. Head(items) \in ItemType
    BY <1>2, TakenFacts DEF TakeStart
  <2>2. op' = op \/ op' = Replied(Head(items), FALSE)
    BY <1>2 DEF TakeStart
  <2>3. Answered
    BY <1>0, <1>2, <2>1, <2>2 DEF Answered, TakeStart
  <2> QED
    BY <1>2, <2>3 DEF TakeStart, Cleared
<1>3. CASE TakeCommand \/ FlushFull \/ FlushTimer \/ TakeDuration \/ TakeSweep
  BY <1>3, <1>a DEF TakeCommand, FlushFull, FlushTimer, TakeDuration, TakeSweep, FlushThen, Cleared
<1>4. CASE MarkTerminal
  BY <1>4, <1>a DEF MarkTerminal, Cleared, Ended
<1>5. CASE RunStart
  BY <1>5, <1>b DEF RunStart, Cleared
<1>6. CASE RunExpire \/ SweepOver \/ SweepDelete
  BY <1>6, <1>a DEF RunExpire, SweepOver, SweepDelete, Cleared
<1>7. CASE RunStop
  <2>1. \E f \in BOOLEAN : op' = Replied(cmd, f)
    BY <1>7 DEF RunStop
  <2> QED
    BY <1>7, <1>b, <2>1 DEF RunStop, Cleared
<1>8. CASE RunDelete
  <2>1. \E f \in BOOLEAN : op' = Replied(cmd, f)
    BY <1>8 DEF RunDelete
  <2> QED
    BY <1>8, <1>b, <2>1 DEF RunDelete, Cleared
<1>9. CASE DurationTimer \/ SweepTimer
  BY <1>9, <1>a DEF DurationTimer, SweepTimer, Cleared
<1> QED
  BY <1>1, <1>2, <1>3, <1>4, <1>5, <1>6, <1>7, <1>8, <1>9 DEF WriterStep

\* The same for the call's fields.
LEMMA AnsweredFacts ==
    ASSUME StoreInv, Answered
    PROVE  /\ op'.kind = op.kind /\ op'.pc = op.pc /\ op'.active = op.active /\ opNo' = opNo
           /\ op' \in OpType
<1>1. PICK c \in CmdType \cup ItemType : \E f \in BOOLEAN : op' = op \/ op' = Replied(c, f)
  BY DEF Answered
<1>2. PICK f \in BOOLEAN : op' = op \/ op' = Replied(c, f)
  BY <1>1
<1>3. op \in OpType
  BY TypeParts DEF StoreInv, CallOK
<1> QED
  BY <1>2, <1>3, RepliedFacts DEF Answered

LEMMA NextCallsHold ==
    ASSUME StoreInv, [Next]_vars
    PROVE  CallsHold'
<1> USE DEF db, store, calls, limits, writer, history
<1>0. CallsHold /\ op \in OpType /\ current \in Active /\ opNo \in 0..MaxOps
      /\ nextId \in 1..MaxId + 1
  BY TypeParts DEF StoreInv, CallOK, SessionOK, DbOK
<1>c. Calls => op.pc = "idle" /\ op.kind = "none" /\ opNo' = opNo + 1 /\ opNo' > 0
  BY <1>0 DEF Calls, CallsHold
<1>o. \A k, p, a : /\ Op(k, p, a).kind = k /\ Op(k, p, a).pc = p /\ Op(k, p, a).active = a
                   /\ Op(k, p, a).done = FALSE /\ Op(k, p, a).expired = FALSE
  BY DEF Op, NoOp
<1>n. NoOp.kind = "none" /\ NoOp.pc = "idle" /\ NoOp.done = FALSE
  BY DEF NoOp
<1>1. CASE StartRecording
  <2>1. nextId # None
    BY <1>0 DEF None
  <2>2. op' = Op("start", "send", [id |-> nextId, nextSeq |-> 0]) /\ Calls /\ ~closed /\ current = Nobody
        /\ UNCHANGED <<current, closed, closeSent, closing>>
    BY <1>1 DEF StartRecording
  <2>3. op'.kind = "start" /\ op'.pc = "send" /\ op'.active = [id |-> nextId, nextSeq |-> 0] /\ op'.done = FALSE
    BY <1>o, <2>2
  <2> QED
    BY <1>0, <1>c, <2>1, <2>2, <2>3 DEF CallsHold, Lends
<1>2. CASE StopRecording
  <2>1. current.id # None
    BY <1>0, <1>2 DEF StopRecording, CallsHold
  <2>2. op' = Op("stop", "send", current) /\ Calls /\ ~closed /\ current' = Nobody
        /\ UNCHANGED <<closed, closeSent, closing>>
    BY <1>2 DEF StopRecording
  <2>3. op'.kind = "stop" /\ op'.pc = "send" /\ op'.active = current /\ op'.done = FALSE
    BY <1>o, <2>2
  <2> QED
    BY <1>0, <1>c, <2>1, <2>2, <2>3 DEF CallsHold, Lends
<1>3. ASSUME NEW id \in Ids, DeleteRecording(id) PROVE CallsHold'
  <2>1. id # None
    BY DEF Ids, None
  <2>2. op' = Op("delete", "send", [id |-> id, nextSeq |-> 0]) /\ Calls /\ ~closed
        /\ UNCHANGED <<current, closed, closeSent, closing>>
    BY <1>3 DEF DeleteRecording
  <2>3. op'.kind = "delete" /\ op'.pc = "send" /\ op'.active = [id |-> id, nextSeq |-> 0] /\ op'.done = FALSE
    BY <1>o, <2>2
  <2> QED
    BY <1>0, <1>c, <2>1, <2>2, <2>3 DEF CallsHold, Lends
<1>4. CASE Shutdown
  <2>1. op' = Op("close", IF closeSent THEN "wait" ELSE "send", [id |-> closing', nextSeq |-> 0]) /\ Calls
        /\ closed' = TRUE /\ current' = Nobody /\ closeSent' = closeSent
    BY <1>4 DEF Shutdown
  <2>2. op'.kind = "close" /\ op'.pc = (IF closeSent THEN "wait" ELSE "send") /\ op'.active.id = closing' /\ op'.done = FALSE
    BY <1>o, <2>1
  <2> QED
    BY <1>0, <1>c, <2>1, <2>2 DEF CallsHold, Lends
<1>5. CASE Expire
  <2>1. op'.kind = op.kind /\ op'.pc = op.pc /\ op'.active = op.active /\ op'.done = op.done
    BY <1>0, <1>5 DEF Expire, OpType
  <2> QED
    BY <1>0, <1>5, <2>1 DEF Expire, CallsHold, Lends
<1>6. CASE SendCommand
  <2>1. op'.kind = op.kind /\ op'.pc = "wait" /\ op'.active = op.active /\ op'.done = op.done /\ op.pc = "send"
    BY <1>0, <1>6 DEF SendCommand, OpType
  <2>2. UNCHANGED <<current, closed, closing, opNo>> /\ (closeSent' <=> closeSent \/ op.kind = "close")
    BY <1>6 DEF SendCommand
  <2> QED
    BY <1>0, <2>1, <2>2 DEF CallsHold, Lends
<1>7. CASE SendTimeout
  <2>1. op' = NoOp /\ UNCHANGED <<closed, closing, closeSent, opNo>> /\ op.pc = "send"
        /\ (current' = current \/ (current' = op.active /\ op.kind = "stop" /\ ~closed))
    BY <1>7 DEF SendTimeout, Restored
  <2> QED
    BY <1>0, <1>n, <2>1 DEF CallsHold, Lends
<1>8. CASE WaitDone
  <2>1. op' = NoOp /\ UNCHANGED <<closed, closing, closeSent, opNo>>
        /\ (current' = current \/ (current' = op.active /\ op.kind = "start"))
    BY <1>8 DEF WaitDone
  <2> QED
    BY <1>0, <1>n, <2>1 DEF CallsHold, Lends
<1>9. CASE WaitTimeout
  BY <1>0, <1>9, <1>n DEF WaitTimeout, CallsHold, Lends
<1>10. CASE Enqueue
  <2>1. current'.id = current.id /\ current # Nobody /\ ~closed
    BY <1>0, <1>10 DEF Enqueue, Active
  <2> QED
    BY <1>0, <1>10, <2>1 DEF Enqueue, CallsHold, Lends
<1>11. CASE WriterStep \/ DurationTimer \/ SweepTimer
  <2>1. Answered /\ Cleared /\ UNCHANGED <<closed, closeSent, closing>>
    BY <1>11, WriterCalls
  <2>2. /\ op'.kind = op.kind /\ op'.pc = op.pc /\ op'.active = op.active /\ opNo' = opNo
    BY <2>1, AnsweredFacts
  <2>3. op'.done => op'.pc = "wait"
    <3>1. PICK c \in CmdType \cup ItemType : \E f \in BOOLEAN : op' = op \/ op' = Replied(c, f)
      BY <2>1 DEF Answered
    <3>2. PICK f \in BOOLEAN : op' = op \/ op' = Replied(c, f)
      BY <3>1
    <3> QED
      BY <1>0, <2>2, <3>2, RepliedFacts DEF CallsHold
  <2>4. current'.id = None => current' = Nobody
    BY <1>0, <2>1 DEF Cleared, CallsHold
  <2>5. current = Nobody => current' = Nobody
    BY <2>1 DEF Cleared
  <2> QED
    BY <1>0, <2>1, <2>2, <2>3, <2>4, <2>5 DEF CallsHold, Lends
<1>12. CASE Restart
  BY <1>12, <1>n DEF Restart, CallsHold, Lends
<1>13. CASE UNCHANGED vars
  BY <1>0, <1>13 DEF vars, CallsHold, Lends
<1> QED
  BY <1>1, <1>2, <1>3, <1>4, <1>5, <1>6, <1>7, <1>8, <1>9, <1>10, <1>11, <1>12, <1>13 DEF Next, CallStep

\* Publish adds one record at the end; every other step only moves records forward.
LEMMA EnqueueFacts ==
    ASSUME StoreInv, Enqueue
    PROVE  \E record \in ItemType :
              /\ record = Item("record", current.id, current.nextSeq + 1, None)
              /\ IsRecord(record) /\ current.id \in Ids /\ record.seq \in Seqs
              /\ current.nextSeq \in Nat /\ current'.id = current.id /\ current'.nextSeq = current.nextSeq + 1
              /\ issued' = issued \cup {record}
              /\ OnTheWay' \subseteq OnTheWay \cup {record}
              /\ \/ /\ items' = items /\ counted' = counted \cup {record}
                 \/ /\ items' = Append(items, record) /\ UNCHANGED counted
                    /\ Records(items') = Records(items) \cup {record}
                    /\ Increasing(items) /\ (\A r \in Records(items) : r.seq < record.seq) => Increasing(items')
<1> DEFINE e == Item("record", current.id, current.nextSeq + 1, None)
<1>1. current \in Active /\ current # Nobody /\ current.nextSeq < MaxSeq /\ items \in Seq(ItemType)
  BY TypeParts DEF StoreInv, SessionOK, QueueOK, Enqueue
<1>2. current.id \in Ids /\ current.nextSeq \in Nat /\ current.nextSeq + 1 \in Seqs
  BY <1>1, StoreBounds DEF StoreInv, CallsHold, Active, Seqs
<1>3. e \in ItemType /\ IsRecord(e) /\ e.seq = current.nextSeq + 1
  BY <1>2, StoreBounds DEF Item, ItemType, IsRecord, None
<1>4. current'.id = current.id /\ current'.nextSeq = current.nextSeq + 1 /\ issued' = issued \cup {e}
      /\ batch' = batch
  BY <1>1 DEF Enqueue, Active, writer
<1>5. \/ items' = items /\ counted' = counted \cup {e}
      \/ items' = Append(items, e) /\ UNCHANGED counted
  BY DEF Enqueue
<1> HIDE DEF e
<1>6. items' = Append(items, e) => /\ Records(items') = Records(items) \cup {e}
                                   /\ Increasing(items) /\ (\A r \in Records(items) : r.seq < e.seq) => Increasing(items')
  BY <1>1, <1>3, RecordsAppend
<1>7. OnTheWay' \subseteq OnTheWay \cup {e}
  BY <1>4, <1>5, <1>6 DEF OnTheWay
<1>8. e = Item("record", current.id, current.nextSeq + 1, None) /\ e.seq \in Seqs
  BY <1>2, <1>3 DEF e
<1> QED
  BY <1>2, <1>3, <1>4, <1>5, <1>6, <1>7, <1>8

LEMMA SendFacts ==
    ASSUME StoreInv, SendCommand
    PROVE  \E c \in ItemType :
              /\ c = Item(op.kind, op.active.id, None, opNo) /\ ~IsRecord(c)
              /\ op.kind \in {"start", "stop", "delete", "close"}
              /\ items' = Append(items, c) /\ Len(items') = Len(items) + 1
              /\ items' \in Seq(ItemType)
              /\ Records(items') = Records(items) /\ OnTheWay' = OnTheWay
              /\ Increasing(items) => Increasing(items')
<1> DEFINE e == Item(op.kind, op.active.id, None, opNo)
<1>1. op \in OpType /\ op.active \in Active /\ opNo \in 0..MaxOps /\ items \in Seq(ItemType)
  BY TypeParts DEF StoreInv, CallOK, QueueOK, OpType
<1>2. op.kind \in {"start", "stop", "delete", "close"}
  BY <1>1 DEF SendCommand, StoreInv, CallsHold, OpType
<1>3. e \in ItemType /\ ~IsRecord(e)
  BY <1>1, <1>2, StoreBounds DEF Item, ItemType, Active, None, IsRecord
<1>4. items' = Append(items, e) /\ batch' = batch
  BY DEF SendCommand, writer
<1> HIDE DEF e
<1>5. /\ Records(Append(items, e)) = Records(items) /\ Len(Append(items, e)) = Len(items) + 1
      /\ Append(items, e) \in Seq(ItemType)
      /\ Increasing(items) => Increasing(Append(items, e))
  BY <1>1, <1>3, RecordsAppend
<1>6. Records(items') = Records(items) /\ Len(items') = Len(items) + 1 /\ (Increasing(items) => Increasing(items'))
      /\ items' \in Seq(ItemType)
  BY <1>4, <1>5
<1>7. OnTheWay' = OnTheWay
  BY <1>4, <1>6 DEF OnTheWay
<1> QED
  BY <1>2, <1>3, <1>4, <1>6, <1>7 DEF e

LEMMA TakeFacts ==
    ASSUME StoreInv, TakeRecord
    PROVE  /\ Head(items) = items[1] /\ 1 \in DOMAIN items /\ Head(items) \in Records(items)
           /\ Head(items).id \notin terminal
           /\ batch' = Append(batch, Head(items)) /\ Len(batch') = Len(batch) + 1
           /\ Records(batch') = Records(batch) \cup {Head(items)}
           /\ Records(items) = Records(items') \cup {Head(items)}
           /\ OnTheWay' = OnTheWay
           /\ Increasing(items) => /\ Increasing(items')
                                   /\ \A r \in Records(items') : Head(items).seq < r.seq
           /\ Increasing(batch) /\ (\A r \in Records(batch) : r.seq < Head(items).seq) => Increasing(batch')
<1>1. Taken /\ IsRecord(Head(items)) /\ batch' = Append(batch, Head(items)) /\ Head(items).id \notin terminal
  BY DEF TakeRecord
<1>2. /\ Head(items) = items[1] /\ 1 \in DOMAIN items /\ Head(items) \in ItemType
      /\ Records(items) = Records(items') \cup {Head(items)} /\ items # <<>> /\ items' = Tail(items)
  BY <1>1, TakenFacts
<1>3. batch \in Seq(ItemType) /\ items \in Seq(ItemType)
  BY WayFacts
<1>4. /\ Records(batch') = Records(batch) \cup {Head(items)} /\ Len(batch') = Len(batch) + 1
      /\ Increasing(batch) /\ (\A r \in Records(batch) : r.seq < Head(items).seq) => Increasing(batch')
  BY <1>1, <1>2, <1>3, RecordsAppend
<1>5. Increasing(items) => /\ Increasing(items')
                           /\ \A r \in Records(items') : Head(items).seq < r.seq
  BY <1>1, <1>2, <1>3, RecordsTail
<1>6. OnTheWay' = OnTheWay
  BY <1>2, <1>4 DEF OnTheWay
<1> QED
  BY <1>1, <1>2, <1>4, <1>5, <1>6

LEMMA WayShrinks ==
    ASSUME StoreInv,
           \/ UNCHANGED <<items, batch>> \/ SendCommand \/ TakeRecord \/ Restart
           \/ (Taken \/ items' = items) /\ (batch' = <<>> \/ batch' = batch)
    PROVE  OnTheWay' \subseteq OnTheWay
<1>1. CASE UNCHANGED <<items, batch>>
  BY <1>1 DEF OnTheWay
<1>2. CASE SendCommand
  BY <1>2, SendFacts
<1>3. CASE TakeRecord
  BY <1>3, TakeFacts
<1>4. CASE Restart
  <2>1. items' = <<>> /\ batch' = <<>>
    BY <1>4 DEF Restart
  <2>2. Records(items') = {} /\ Records(batch') = {}
    BY <2>1, RecordsEmpty
  <2> QED
    BY <2>2 DEF OnTheWay
<1>5. CASE (Taken \/ items' = items) /\ (batch' = <<>> \/ batch' = batch)
  <2>1. Records(items') \subseteq Records(items)
    BY <1>5, TakenFacts
  <2>2. Records(batch') \subseteq Records(batch)
    BY <1>5, RecordsEmpty
  <2> QED
    BY <2>1, <2>2 DEF OnTheWay
<1> QED
  BY <1>1, <1>2, <1>3, <1>4, <1>5

LEMMA NextWay ==
    ASSUME StoreInv, [Next]_vars
    PROVE  Enqueue \/ OnTheWay' \subseteq OnTheWay
<1> USE DEF db, store, calls, limits, writer, history
<1>1. CASE StartRecording \/ StopRecording \/ (\E id \in Ids : DeleteRecording(id)) \/ Shutdown \/ Expire
           \/ SendTimeout \/ WaitDone \/ WaitTimeout \/ UNCHANGED vars
  <2>1. UNCHANGED <<items, batch>>
    BY <1>1 DEF StartRecording, StopRecording, DeleteRecording, Shutdown, Expire, SendTimeout, WaitDone,
                WaitTimeout, vars
  <2> QED
    BY <2>1, WayShrinks
<1>2. CASE SendCommand \/ TakeRecord \/ Restart
  BY <1>2, WayShrinks
<1>3. CASE DropRecord \/ TakeStart
  <2>1. Taken /\ batch' = batch
    BY <1>3 DEF DropRecord, TakeStart
  <2> QED
    BY <2>1, WayShrinks
<1>4. CASE TakeCommand \/ FlushFull \/ FlushTimer \/ TakeDuration \/ TakeSweep
  <2>1. (Taken \/ items' = items) /\ batch' = <<>>
    BY <1>4 DEF TakeCommand, FlushFull, FlushTimer, TakeDuration, TakeSweep, FlushThen, Flush
  <2> QED
    BY <2>1, WayShrinks
<1>5. CASE MarkTerminal \/ RunStart \/ RunExpire \/ RunStop \/ RunDelete \/ SweepDelete \/ SweepOver
           \/ DurationTimer \/ SweepTimer
  <2>1. UNCHANGED <<items, batch>>
    BY <1>5 DEF MarkTerminal, RunStart, RunExpire, RunStop, RunDelete, SweepDelete, SweepOver, DurationTimer,
                SweepTimer
  <2> QED
    BY <2>1, WayShrinks
<1> QED
  BY <1>1, <1>2, <1>3, <1>4, <1>5 DEF Next, CallStep, WriterStep

\* The two halves of Unused.
Untouched == \A i \in Ids : i >= nextId => rows[i] = "none" /\ events[i] = {} /\ totals[i] = 0
HandedOut(S) == \A i \in S : i < nextId

LEMMA UnusedHalves ==
    Unused <=> /\ Untouched /\ HandedOut(terminal)
               /\ current.id < nextId /\ op.active.id < nextId /\ closing < nextId
               /\ durID < nextId /\ mark.id < nextId /\ cmd.id < nextId
               /\ \A j \in DOMAIN items : items[j].id < nextId
  BY DEF Unused, Untouched, HandedOut

LEMMA FlushUnused ==
    ASSUME StoreInv, Flush, UNCHANGED <<rows, nextId>>
    PROVE  Untouched' /\ mark'.id < nextId'
<1>0. Untouched /\ nextId \in 1..MaxId + 1 /\ events \in [Ids -> SUBSET Seqs] /\ totals \in [Ids -> 0..MaxSeq]
  BY UnusedHalves, TypeParts DEF StoreInv, DbOK, CountsOK
<1>1. FlushNothing \/ \E id \in Ids \ terminal : FlushOf(id)
  BY FlushEffect
<1>n. NoMark.id < nextId
  BY <1>0, StoreBounds DEF NoMark, None
<1>2. CASE FlushNothing
  BY <1>0, <1>2, <1>n DEF FlushNothing, Untouched
<1>3. ASSUME NEW id \in Ids \ terminal, FlushOf(id) PROVE Untouched' /\ mark'.id < nextId'
  <2>1. id < nextId /\ (mark' = NoMark \/ mark'.id = id)
    BY <1>3 DEF FlushOf
  <2>2. \A i \in Ids : i >= nextId => i # id
    BY <1>0, <2>1, StoreBounds DEF Ids
  <2>3. \A i \in Ids : i # id => events'[i] = events[i] /\ totals'[i] = totals[i]
    BY <1>0, <1>3 DEF FlushOf, FlushWrites, FlushLoses
  <2> QED
    BY <1>0, <1>n, <2>1, <2>2, <2>3 DEF Untouched
<1> QED
  BY <1>1, <1>2, <1>3

LEMMA WriterUnused ==
    ASSUME StoreInv, WriterStep \/ DurationTimer \/ SweepTimer
    PROVE  Unused'
<1> USE DEF db, store, calls, limits, writer, history
<1>0. /\ Untouched /\ HandedOut(terminal)
      /\ current.id < nextId /\ op.active.id < nextId /\ closing < nextId
      /\ durID < nextId /\ mark.id < nextId /\ cmd.id < nextId
      /\ \A j \in DOMAIN items : items[j].id < nextId
  BY UnusedHalves DEF StoreInv
<1>t. /\ nextId \in 1..MaxId + 1 /\ rows \in [Ids -> Statuses \cup {"none"}] /\ events \in [Ids -> SUBSET Seqs]
      /\ totals \in [Ids -> 0..MaxSeq] /\ None < nextId /\ None \notin Ids
  BY TypeParts, StoreBounds DEF StoreInv, DbOK, CountsOK, None, Ids
<1>p. (/\ Untouched /\ HandedOut(terminal)
       /\ current.id < nextId /\ op.active.id < nextId /\ closing < nextId
       /\ durID < nextId /\ mark.id < nextId /\ cmd.id < nextId
       /\ \A j \in DOMAIN items : items[j].id < nextId)' => Unused'
  BY DEF Unused, Untouched, HandedOut
<1>c. UNCHANGED nextId /\ current'.id < nextId' /\ op'.active.id < nextId' /\ closing' < nextId'
  <2>1. Answered /\ Cleared /\ UNCHANGED <<closing, nextId>>
    BY WriterCalls
  <2>2. op'.active = op.active
    BY <2>1, AnsweredFacts
  <2> QED
    BY <1>0, <1>t, <2>1, <2>2 DEF Cleared, Nobody
<1>q. Taken => Head(items).id < nextId /\ \A j \in DOMAIN items' : items'[j].id < nextId'
  BY <1>0, <1>c, TakenFacts
<1>m. \A i \in Ids : \A st : i < nextId /\ rows' = Stopped(i, st) /\ UNCHANGED <<events, totals>> => Untouched'
  <2> SUFFICES ASSUME NEW i \in Ids, NEW st, i < nextId, rows' = Stopped(i, st), UNCHANGED <<events, totals>>
               PROVE  Untouched'
    OBVIOUS
  <2>1. \A k \in Ids : k # i => rows'[k] = rows[k]
    BY <1>t DEF Stopped
  <2>2. \A k \in Ids : k >= nextId => k # i
    BY <1>t, StoreBounds DEF Ids
  <2> QED
    BY <1>0, <1>c, <2>1, <2>2 DEF Untouched
<1>s. UNCHANGED <<rows, events, totals>> => Untouched'
  BY <1>0, <1>c DEF Untouched
<1>w. \A i : i < nextId /\ WithoutTimer(i) => durID' < nextId'
  BY <1>0, <1>c, <1>t DEF WithoutTimer
<1>d. ASSUME NEW i \in Ids, i < nextId, Deleted(i) \/ DeletedPartly(i),
             \A k \in Ids : k # i => totals'[k] = totals[k]
      PROVE  Untouched'
  <2>1. \A k \in Ids : k # i => rows'[k] = rows[k] /\ events'[k] = events[k]
    BY <1>t, <1>d DEF Deleted, DeletedPartly
  <2>2. \A k \in Ids : k >= nextId => k # i
    BY <1>t, <1>d, StoreBounds DEF Ids
  <2> QED
    BY <1>0, <1>c, <1>d, <2>1, <2>2 DEF Untouched
<1>k. \A k : Item(k, None, None, None).id = None /\ NoCmd.id = None /\ NoMark.id = None
             /\ Item("expire", durID, None, None).id = durID
  BY DEF Item, NoCmd, NoMark
<1>1. CASE TakeRecord
  BY <1>0, <1>1, <1>c, <1>p, <1>q, <1>s, <1>k, <1>t DEF TakeRecord, HandedOut
<1>2. CASE DropRecord
  BY <1>0, <1>2, <1>c, <1>p, <1>q, <1>s DEF DropRecord, HandedOut
<1>3. CASE TakeStart
  <2>1. Taken /\ UNCHANGED <<rows, events, totals, terminal>>
    BY <1>3 DEF TakeStart
  <2>2. mark'.id < nextId' /\ cmd'.id < nextId' /\ durID' < nextId'
    <3>1. CASE ContextOver(Head(items))
      <4>1. mark' = [id |-> Head(items).id, status |-> "error"] /\ cmd' = Head(items) /\ durID' = durID
        BY <1>3, <3>1 DEF TakeStart
      <4> QED
        BY <1>0, <1>c, <1>q, <2>1, <4>1
    <3>2. CASE ~ContextOver(Head(items))
      <4>1. durID' = Head(items).id /\ UNCHANGED <<mark, cmd>>
        BY <1>3, <3>2 DEF TakeStart
      <4> QED
        BY <1>0, <1>c, <1>q, <2>1, <4>1
    <3> QED
      BY <3>1, <3>2
  <2> QED
    BY <1>0, <1>c, <1>p, <1>q, <1>s, <2>1, <2>2 DEF HandedOut
<1>4. CASE TakeCommand
  <2>1. Flush /\ cmd' = Head(items) /\ UNCHANGED <<rows, nextId, terminal, durID>> /\ Taken
    BY <1>4 DEF TakeCommand, FlushThen
  <2> QED
    BY <1>0, <1>c, <1>p, <1>q, <2>1, FlushUnused DEF HandedOut
<1>5. CASE FlushFull \/ FlushTimer \/ TakeDuration \/ TakeSweep
  <2>1. Flush /\ UNCHANGED <<rows, nextId, terminal, durID, items>> /\ cmd'.id \in {None, durID}
    BY <1>5, <1>k DEF FlushFull, FlushTimer, TakeDuration, TakeSweep, FlushThen
  <2> QED
    BY <1>0, <1>c, <1>t, <1>p, <2>1, FlushUnused DEF HandedOut
<1>6. CASE MarkTerminal
  <2>1. mark.id \in Ids
    BY <1>6, TypeParts DEF MarkTerminal, StoreInv, WriterHolds, TurnOK, MarkType
  <2>2. Untouched'
    BY <1>0, <1>6, <1>m, <1>s, <2>1 DEF MarkTerminal
  <2>3. HandedOut(terminal)'
    BY <1>0, <1>6, <1>c DEF MarkTerminal, Ended, HandedOut
  <2> QED
    BY <1>0, <1>6, <1>c, <1>p, <1>w, <1>k, <1>t, <2>2, <2>3 DEF MarkTerminal
<1>7. CASE RunStart
  BY <1>0, <1>7, <1>c, <1>p, <1>s, <1>k, <1>t DEF RunStart, CmdOver, HandedOut
<1>8. CASE RunExpire
  <2>1. mark'.id < nextId'
    BY <1>0, <1>8, <1>c DEF RunExpire
  <2> QED
    BY <1>0, <1>8, <1>c, <1>p, <1>s, <1>k, <1>t, <2>1 DEF RunExpire, CmdOver, HandedOut
<1>9. CASE RunStop
  <2>1. CASE cmd.id # None /\ cmd.id \notin terminal
    <3>1. cmd.id \in Ids
      BY <2>1, TypeParts DEF StoreInv, TurnOK, CmdType
    <3>2. (rows' = Stopped(cmd.id, "stopped") \/ UNCHANGED rows) /\ terminal' = terminal \cup {cmd.id}
          /\ WithoutTimer(cmd.id) /\ UNCHANGED <<events, totals>>
      BY <1>9, <2>1 DEF RunStop
    <3>3. Untouched'
      BY <1>0, <1>m, <1>s, <3>1, <3>2
    <3> QED
      BY <1>0, <1>9, <1>c, <1>p, <1>w, <1>k, <1>t, <3>2, <3>3 DEF RunStop, CmdOver, HandedOut
  <2>2. CASE ~(cmd.id # None /\ cmd.id \notin terminal)
    BY <1>0, <1>9, <1>c, <1>p, <1>s, <1>k, <1>t, <2>2 DEF RunStop, CmdOver, HandedOut
  <2> QED
    BY <2>1, <2>2
<1>10. CASE RunDelete
  <2>1. cmd.id \in Ids
    BY <1>10, TypeParts DEF RunDelete, Runs, StoreInv, Commands, TurnOK, CmdType
  <2>2. \A k \in Ids : k # cmd.id => totals'[k] = totals[k]
    BY <1>10, <1>t DEF RunDelete
  <2>3. Untouched'
    BY <1>0, <1>10, <1>d, <1>s, <2>1, <2>2 DEF RunDelete
  <2>4. HandedOut(terminal)'
    BY <1>0, <1>10, <1>c DEF RunDelete, HandedOut
  <2>5. durID' < nextId'
    BY <1>0, <1>10, <1>c, <1>w DEF RunDelete
  <2> QED
    BY <1>0, <1>10, <1>c, <1>p, <1>k, <1>t, <2>3, <2>4, <2>5 DEF RunDelete, CmdOver
<1>11. CASE SweepDelete
  <2>1. PICK oldest \in Candidates : Deleted(oldest) \/ DeletedPartly(oldest)
    BY <1>11 DEF SweepDelete
  <2>2. oldest \in Ids /\ oldest < nextId
    <3>1. oldest \in Ids /\ rows[oldest] # "none"
      BY DEF Candidates, Deletable, Exists
    <3> QED
      BY <1>0, <1>t, <3>1, StoreBounds DEF Untouched, Ids
  <2>3. Untouched'
    BY <1>11, <1>d, <2>1, <2>2 DEF SweepDelete
  <2>4. cmd' = cmd \/ cmd' = NoCmd
    BY <1>11 DEF SweepDelete, CmdOver
  <2> QED
    BY <1>0, <1>11, <1>c, <1>p, <1>k, <1>t, <2>3, <2>4 DEF SweepDelete, HandedOut
<1>12. CASE SweepOver
  BY <1>0, <1>12, <1>c, <1>p, <1>s, <1>k, <1>t DEF SweepOver, CmdOver, HandedOut
<1>13. CASE DurationTimer \/ SweepTimer
  BY <1>0, <1>13, <1>c, <1>p, <1>s DEF DurationTimer, SweepTimer, HandedOut
<1> QED
  BY <1>1, <1>2, <1>3, <1>4, <1>5, <1>6, <1>7, <1>8, <1>9, <1>10, <1>11, <1>12, <1>13 DEF WriterStep

LEMMA NextUnused ==
    ASSUME StoreInv, [Next]_vars
    PROVE  Unused'
<1> USE DEF db, store, calls, limits, writer, history
<1>0. /\ Untouched /\ HandedOut(terminal)
      /\ current.id < nextId /\ op.active.id < nextId /\ closing < nextId
      /\ durID < nextId /\ mark.id < nextId /\ cmd.id < nextId
      /\ \A j \in DOMAIN items : items[j].id < nextId
  BY UnusedHalves DEF StoreInv
<1>t. /\ nextId \in 1..MaxId + 1 /\ rows \in [Ids -> Statuses \cup {"none"}] /\ None < nextId
      /\ current \in Active /\ op \in OpType /\ op.active \in Active
  BY TypeParts, StoreBounds DEF StoreInv, DbOK, SessionOK, CallOK, OpType, None
<1>p. (/\ Untouched /\ HandedOut(terminal)
       /\ current.id < nextId /\ op.active.id < nextId /\ closing < nextId
       /\ durID < nextId /\ mark.id < nextId /\ cmd.id < nextId
       /\ \A j \in DOMAIN items : items[j].id < nextId)' => Unused'
  BY DEF Unused, Untouched, HandedOut
<1>k. /\ Nobody.id = None /\ NoOp.active.id = None /\ NoMark.id = None /\ Item("boot", None, None, None).id = None
      /\ \A k, p, a : Op(k, p, a).active = a
  BY DEF Nobody, NoOp, NoMark, Item, Op
<1>1. CASE StartRecording
  <2>1. op'.active.id = nextId /\ nextId' = nextId + 1
    BY <1>1, <1>k DEF StartRecording
  <2>2. Untouched'
    <3> SUFFICES ASSUME NEW i \in Ids, i >= nextId'
                 PROVE  rows'[i] = "none" /\ events'[i] = {} /\ totals'[i] = 0
      BY DEF Untouched
    <3>1. i >= nextId /\ i # nextId
      BY <1>t, <2>1, StoreBounds DEF Ids
    <3> QED
      BY <1>0, <1>1, <1>t, <3>1 DEF StartRecording, Untouched
  <2>3. HandedOut(terminal)'
    <3> SUFFICES ASSUME NEW i \in terminal PROVE i < nextId + 1
      BY <1>1, <2>1 DEF StartRecording, HandedOut
    <3>1. i \in Ids
      BY TypeParts DEF StoreInv, BatchOK
    <3> QED
      BY <1>0, <1>t, <3>1, StoreBounds DEF HandedOut, Ids
  <2>4. /\ current.id < nextId' /\ closing < nextId' /\ durID < nextId' /\ mark.id < nextId' /\ cmd.id < nextId'
    <3>1. /\ current.id \in Int /\ closing \in Int /\ durID \in Int /\ mark.id \in Int /\ cmd.id \in Int
      BY TypeParts DEF StoreInv, SessionOK, TimerOK, TurnOK, Active, MarkType, CmdType, Ids, None
    <3> QED
      BY <1>0, <1>t, <2>1, <3>1, StoreBounds
  <2>5. \A j \in DOMAIN items : items[j].id < nextId'
    <3> SUFFICES ASSUME NEW j \in DOMAIN items PROVE items[j].id < nextId + 1
      BY <2>1
    <3>1. items[j] \in ItemType
      BY WayFacts
    <3>2. items[j].id \in Int
      BY <3>1 DEF ItemType, Ids, None
    <3> QED
      BY <1>0, <1>t, <3>2, StoreBounds
  <2>6. op'.active.id < nextId'
    BY <1>t, <2>1, StoreBounds
  <2> QED
    BY <1>1, <1>p, <2>2, <2>3, <2>4, <2>5, <2>6 DEF StartRecording
<1>2. CASE StopRecording
  BY <1>0, <1>2, <1>k, <1>p, <1>t DEF StopRecording, Untouched, HandedOut
<1>3. ASSUME NEW id \in Ids, DeleteRecording(id) PROVE Unused'
  <2>1. id < nextId
    BY <1>0, <1>3, <1>t, StoreBounds DEF DeleteRecording, Exists, Untouched, Ids
  <2>2. op'.active.id = id
    BY <1>3, <1>k DEF DeleteRecording
  <2> QED
    BY <1>0, <1>3, <1>p, <2>1, <2>2 DEF DeleteRecording, Untouched, HandedOut
<1>4. CASE Shutdown
  <2>1. closing' < nextId /\ op'.active.id = closing'
    BY <1>0, <1>4, <1>k DEF Shutdown
  <2> QED
    BY <1>0, <1>4, <1>k, <1>t, <1>p, <2>1 DEF Shutdown, Untouched, HandedOut
<1>5. CASE Expire
  <2>1. op'.active = op.active
    BY <1>5, <1>t DEF Expire, OpType
  <2> QED
    BY <1>0, <1>5, <1>p, <2>1 DEF Expire, Untouched, HandedOut
<1>6. CASE SendCommand
  <2>1. op'.active = op.active
    BY <1>6, <1>t DEF SendCommand, OpType
  <2>2. PICK c \in ItemType : c = Item(op.kind, op.active.id, None, opNo) /\ items' = Append(items, c)
    BY <1>6, SendFacts
  <2>3. c.id = op.active.id
    BY <2>2 DEF Item
  <2>4. \A j \in DOMAIN items' : items'[j].id < nextId
    <3>1. c.id < nextId /\ items \in Seq(ItemType) /\ \A j \in DOMAIN items : items[j].id < nextId
      BY <1>0, <2>3, WayFacts
    <3> QED
      BY <2>2, <3>1, AppendIds
  <2> QED
    BY <1>0, <1>6, <1>p, <2>1, <2>4 DEF SendCommand, Untouched, HandedOut
<1>7. CASE SendTimeout
  BY <1>0, <1>7, <1>k, <1>t, <1>p DEF SendTimeout, Restored, Untouched, HandedOut
<1>8. CASE WaitDone
  BY <1>0, <1>8, <1>k, <1>t, <1>p DEF WaitDone, Untouched, HandedOut
<1>9. CASE WaitTimeout
  BY <1>0, <1>9, <1>k, <1>t, <1>p DEF WaitTimeout, Untouched, HandedOut
<1>10. CASE Enqueue
  <2>1. PICK record \in ItemType :
            /\ record = Item("record", current.id, current.nextSeq + 1, None)
            /\ current'.id = current.id
            /\ items' = items \/ items' = Append(items, record)
    BY <1>10, EnqueueFacts
  <2>2. record.id = current.id
    BY <2>1 DEF Item
  <2>3. \A j \in DOMAIN items' : items'[j].id < nextId
    <3>1. record.id < nextId /\ items \in Seq(ItemType) /\ \A j \in DOMAIN items : items[j].id < nextId
      BY <1>0, <2>2, WayFacts
    <3> QED
      BY <2>1, <3>1, AppendIds
  <2> QED
    BY <1>0, <1>10, <1>p, <2>1, <2>3 DEF Enqueue, Untouched, HandedOut
<1>11. CASE WriterStep \/ DurationTimer \/ SweepTimer
  BY <1>11, WriterUnused
<1>12. CASE Restart
  <2>1. Untouched'
    BY <1>0, <1>12, <1>t DEF Restart, Untouched
  <2> QED
    BY <1>0, <1>12, <1>k, <1>t, <1>p, <2>1 DEF Restart, HandedOut
<1>13. CASE UNCHANGED vars
  BY <1>0, <1>13, <1>p DEF vars, Untouched, HandedOut
<1> QED
  BY <1>1, <1>2, <1>3, <1>4, <1>5, <1>6, <1>7, <1>8, <1>9, <1>10, <1>11, <1>12, <1>13 DEF Next, CallStep

-----------------------------------------------------------------------------
(* What the writer holds. *)

BatchLive ==
    \A j \in DOMAIN batch :
        /\ batch[j] = Item("record", batch[j].id, batch[j].seq, None)
        /\ batch[j].id \in Ids \ terminal /\ batch[j].seq \in Seqs
BatchPlace ==
    /\ cmd.kind # "flush" => Len(batch) < BatchSize
    /\ cmd.kind \notin {"none", "flush", "start"} => batch = <<>>
    /\ cmd.kind = "none" => cmd = NoCmd
MarkPlace ==
    /\ mark.id = None => mark = NoMark
    /\ mark # NoMark => /\ mark.status \in {"error", "limit_reached"}
                        /\ batch = <<>> \/ (cmd.kind = "start" /\ mark.id = cmd.id)
FailuresBelow == \A i \in Ids \ (terminal \cup {mark.id}) : failures[i] < MaxFailures

LEMMA WriterParts == WriterHolds <=> BatchLive /\ BatchPlace /\ MarkPlace /\ FailuresBelow
  BY DEF WriterHolds, BatchLive, BatchPlace, MarkPlace, FailuresBelow

LEMMA FlushThenHolds ==
    ASSUME StoreInv, mark = NoMark, NEW c \in CmdType, FlushThen(c), c.kind = "none" => c = NoCmd
    PROVE  WriterHolds'
<1> USE DEF db, store, calls, limits, writer, history
<1>p. (BatchLive /\ BatchPlace /\ MarkPlace /\ FailuresBelow)' => WriterHolds'
  BY DEF WriterHolds, BatchLive, BatchPlace, MarkPlace, FailuresBelow
<1>0. FailuresBelow /\ failures \in [Ids -> 0..MaxFailures] /\ NoMark.id = None /\ None \notin Ids
  BY WriterParts, TypeParts DEF StoreInv, CountsOK, NoMark, None, Ids
<1>1. batch' = <<>> /\ (FlushNothing \/ \E id \in Ids \ terminal : FlushOf(id)) /\ cmd' = c /\ terminal' = terminal
  BY FlushEffect DEF FlushThen
<1>2. BatchLive' /\ BatchPlace'
  BY <1>1, SizesAssumption DEF BatchLive, BatchPlace
<1>3. MarkPlace' /\ FailuresBelow'
  <2>1. CASE FlushNothing
    BY <1>0, <1>1, <2>1 DEF FlushNothing, MarkPlace, FailuresBelow
  <2>2. ASSUME NEW id \in Ids \ terminal, FlushOf(id) PROVE MarkPlace' /\ FailuresBelow'
    <3>1. mark' = NoMark \/ (mark'.id = id /\ mark'.status \in {"error", "limit_reached"})
      BY <2>2 DEF FlushOf
    <3>2. MarkPlace'
      BY <1>0, <1>1, <3>1 DEF MarkPlace
    <3>3. \A i \in Ids : i # id => failures'[i] = failures[i]
      BY <1>0, <2>2 DEF FlushOf, FlushWrites, FlushLoses
    <3>4. mark'.id = id \/ failures'[id] < MaxFailures
      <4>1. CASE FlushWrites(id)
        BY <1>0, <4>1, LimitsAssumption DEF FlushWrites
      <4>2. CASE FlushLoses(id)
        <5>1. failures'[id] = failures[id] + 1 /\ (failures'[id] >= MaxFailures => mark'.id = id)
          BY <1>0, <4>2 DEF FlushLoses
        <5> QED
          BY <1>0, <5>1, LimitsAssumption
      <4> QED
        BY <2>2, <4>1, <4>2 DEF FlushOf
    <3>5. FailuresBelow'
      <4> SUFFICES ASSUME NEW i \in Ids, i \notin terminal, i # mark'.id PROVE failures'[i] < MaxFailures
        BY <1>1 DEF FailuresBelow
      <4>1. failures[i] < MaxFailures
        BY <1>0 DEF FailuresBelow
      <4> QED
        BY <3>3, <3>4, <4>1
    <3> QED
      BY <3>2, <3>5
  <2> QED
    BY <1>1, <2>1, <2>2
<1> QED
  BY <1>p, <1>2, <1>3

LEMMA NextWriterHolds ==
    ASSUME StoreInv, [Next]_vars
    PROVE  WriterHolds'
<1> USE DEF db, store, calls, limits, writer, history
<1>p. (BatchLive /\ BatchPlace /\ MarkPlace /\ FailuresBelow)' => WriterHolds'
  BY DEF WriterHolds, BatchLive, BatchPlace, MarkPlace, FailuresBelow
<1>0. BatchLive /\ BatchPlace /\ MarkPlace /\ FailuresBelow
  BY WriterParts DEF StoreInv
<1>t. /\ mark \in MarkType /\ cmd \in CmdType /\ NoMark.id = None /\ None \notin Ids /\ NoCmd.kind = "none"
      /\ failures \in [Ids -> 0..MaxFailures] /\ batch \in Seq(ItemType)
      /\ \A k, i : Item(k, i, None, None).kind = k
  BY TypeParts DEF StoreInv, CountsOK, TurnOK, BatchOK, NoMark, None, Ids, NoCmd, Item
<1>u. ASSUME UNCHANGED <<batch, terminal, mark, cmd, failures>> PROVE WriterHolds'
  BY <1>0, <1>p, <1>u DEF BatchLive, BatchPlace, MarkPlace, FailuresBelow
<1>1. CASE StartRecording \/ StopRecording \/ (\E id \in Ids : DeleteRecording(id)) \/ Shutdown \/ Expire
           \/ SendCommand \/ SendTimeout \/ WaitDone \/ WaitTimeout \/ Enqueue \/ DropRecord
           \/ DurationTimer \/ SweepTimer \/ UNCHANGED vars
  BY <1>1, <1>u DEF StartRecording, StopRecording, DeleteRecording, Shutdown, Expire, SendCommand, SendTimeout,
                    WaitDone, WaitTimeout, Enqueue, DropRecord, DurationTimer, SweepTimer, vars
<1>2. CASE TakeRecord
  <2>1. /\ batch' = Append(batch, Head(items)) /\ Len(batch') = Len(batch) + 1
        /\ Head(items) \in Records(items) /\ Head(items).id \notin terminal
    BY <1>2, TakeFacts
  <2>2. mark = NoMark /\ cmd = NoCmd /\ UNCHANGED <<terminal, mark, failures>>
        /\ cmd' = (IF Len(batch') >= BatchSize THEN Item("flush", None, None, None) ELSE cmd)
    BY <1>2 DEF TakeRecord, Select, WriterFree
  <2>3. /\ Head(items) = Item("record", Head(items).id, Head(items).seq, None)
        /\ Head(items).id \in Ids /\ Head(items).seq \in Seqs
    BY <2>1, WayFacts
  <2>4. BatchLive'
    <3> SUFFICES ASSUME NEW j \in DOMAIN batch'
                 PROVE  /\ batch'[j] = Item("record", batch'[j].id, batch'[j].seq, None)
                        /\ batch'[j].id \in Ids \ terminal /\ batch'[j].seq \in Seqs
      BY <2>2 DEF BatchLive
    <3>1. (j \in DOMAIN batch /\ batch'[j] = batch[j]) \/ batch'[j] = Head(items)
      BY <1>t, <2>1
    <3>2. CASE j \in DOMAIN batch /\ batch'[j] = batch[j]
      BY <1>0, <3>2 DEF BatchLive
    <3> QED
      BY <2>1, <2>3, <3>1, <3>2
  <2>5. BatchPlace'
    <3>1. Len(batch') \in Nat
      BY <1>t, <2>1
    <3>2. CASE Len(batch') >= BatchSize
      BY <1>t, <2>2, <3>2 DEF BatchPlace
    <3>3. CASE ~(Len(batch') >= BatchSize)
      BY <1>t, <2>2, <3>1, <3>3, SizesAssumption DEF BatchPlace
    <3> QED
      BY <3>2, <3>3
  <2>6. MarkPlace' /\ FailuresBelow'
    BY <1>0, <2>2 DEF MarkPlace, FailuresBelow
  <2> QED
    BY <1>p, <2>4, <2>5, <2>6
<1>3. CASE TakeStart
  <2>1. mark = NoMark /\ cmd = NoCmd /\ UNCHANGED <<batch, terminal, failures>> /\ Head(items).kind = "start"
    BY <1>3 DEF TakeStart, Select, WriterFree
  <2>2. CASE ContextOver(Head(items))
    <3>1. mark' = [id |-> Head(items).id, status |-> "error"] /\ cmd' = Head(items)
      BY <1>3, <2>2 DEF TakeStart
    <3>2. Head(items).id # None
      BY <1>3, TakenFacts DEF TakeStart, StoreInv, Commands
    <3>3. MarkPlace' /\ BatchPlace'
      BY <1>0, <1>t, <2>1, <3>1, <3>2 DEF MarkPlace, BatchPlace
    <3>4. BatchLive' /\ FailuresBelow'
      BY <1>0, <1>t, <2>1 DEF BatchLive, FailuresBelow
    <3> QED
      BY <1>p, <3>3, <3>4
  <2>3. CASE ~ContextOver(Head(items))
    <3>1. UNCHANGED <<mark, cmd>>
      BY <1>3, <2>3 DEF TakeStart
    <3> QED
      BY <1>u, <2>1, <3>1
  <2> QED
    BY <2>2, <2>3
<1>4. CASE TakeCommand
  <2>1. mark = NoMark /\ FlushThen(Head(items)) /\ Head(items).kind # "none" /\ ~IsRecord(Head(items)) /\ Taken
    BY <1>4 DEF TakeCommand, Select, WriterFree, IsRecord
  <2>2. Head(items) \in CmdType
    BY <2>1, TakenFacts
  <2> QED
    BY <2>1, <2>2, FlushThenHolds
<1>5. CASE FlushFull \/ FlushTimer
  <2>1. mark = NoMark /\ FlushThen(NoCmd)
    BY <1>5 DEF FlushFull, FlushTimer, Select, WriterFree
  <2> QED
    BY <2>1, FlushThenHolds, ValueTypes
<1>6. CASE TakeDuration
  <2>1. mark = NoMark /\ FlushThen(Item("expire", durID, None, None))
    BY <1>6 DEF TakeDuration, WriterFree
  <2>2. Item("expire", durID, None, None) \in CmdType
    BY ValueTypes, TypeParts DEF StoreInv, TimerOK
  <2> QED
    BY <1>t, <2>1, <2>2, FlushThenHolds
<1>7. CASE TakeSweep
  <2>1. mark = NoMark /\ FlushThen(Item("sweep", None, None, None))
    BY <1>7 DEF TakeSweep, Select, WriterFree
  <2>2. Item("sweep", None, None, None) \in CmdType
    BY ValueTypes
  <2> QED
    BY <1>t, <2>1, <2>2, FlushThenHolds
<1>8. CASE MarkTerminal
  <2>1. mark # NoMark /\ terminal' = terminal \cup {mark.id} /\ mark' = NoMark /\ UNCHANGED <<batch, cmd, failures>>
    BY <1>8 DEF MarkTerminal, Ended
  <2>2. \A j \in DOMAIN batch : batch[j].id # mark.id
    <3> SUFFICES ASSUME NEW j \in DOMAIN batch PROVE batch[j].id # mark.id
      OBVIOUS
    <3>1. cmd.kind = "start" /\ mark.id = cmd.id
      BY <1>0, <2>1 DEF MarkPlace
    <3>2. batch[j] \in OnTheWay
      BY WayFacts
    <3> QED
      BY <3>1, <3>2 DEF StoreInv, Commands, NotStarted
  <2>3. BatchLive' /\ BatchPlace' /\ MarkPlace'
    BY <1>0, <1>t, <2>1, <2>2 DEF BatchLive, BatchPlace, MarkPlace
  <2>4. FailuresBelow'
    BY <1>0, <2>1 DEF FailuresBelow
  <2> QED
    BY <1>p, <2>3, <2>4
<1>9. CASE RunStart
  <2>1. mark = NoMark /\ cmd.kind = "start" /\ cmd' = NoCmd /\ UNCHANGED <<batch, terminal, mark, failures>>
    BY <1>9 DEF RunStart, Runs, CmdOver
  <2> QED
    BY <1>0, <1>p, <1>t, <2>1 DEF BatchLive, BatchPlace, MarkPlace, FailuresBelow
<1>10. CASE RunExpire
  <2>1. mark = NoMark /\ cmd.kind = "expire" /\ cmd' = NoCmd /\ UNCHANGED <<batch, terminal, failures>>
        /\ (mark' = mark \/ (cmd.id # None /\ mark' = [id |-> cmd.id, status |-> "limit_reached"]))
    BY <1>10 DEF RunExpire, Runs, CmdOver
  <2>2. batch = <<>>
    BY <1>0, <2>1 DEF BatchPlace
  <2> QED
    BY <1>0, <1>p, <1>t, <2>1, <2>2 DEF BatchLive, BatchPlace, MarkPlace, FailuresBelow
<1>11. CASE RunStop \/ RunDelete
  <2>1. mark = NoMark /\ cmd.kind \in {"stop", "close", "delete"} /\ cmd' = NoCmd /\ UNCHANGED <<batch, mark>>
        /\ terminal \subseteq terminal'
    BY <1>11 DEF RunStop, RunDelete, Runs, CmdOver
  <2>2. batch = <<>>
    BY <1>0, <2>1 DEF BatchPlace
  <2>3. \A i \in Ids : failures'[i] = failures[i] \/ failures'[i] = 0
    BY <1>11, <1>t DEF RunStop, RunDelete
  <2>4. FailuresBelow'
    BY <1>0, <2>1, <2>3, LimitsAssumption DEF FailuresBelow
  <2> QED
    BY <1>0, <1>p, <1>t, <2>1, <2>2, <2>4, SizesAssumption DEF BatchLive, BatchPlace, MarkPlace
<1>12. CASE SweepDelete \/ SweepOver
  <2>1. mark = NoMark /\ cmd.kind \in {"sweep", "boot"} /\ (cmd' = cmd \/ cmd' = NoCmd)
        /\ UNCHANGED <<batch, terminal, mark, failures>>
    BY <1>12 DEF SweepDelete, SweepOver, Runs, CmdOver
  <2>2. batch = <<>>
    BY <1>0, <2>1 DEF BatchPlace
  <2> QED
    BY <1>0, <1>p, <1>t, <2>1, <2>2, SizesAssumption DEF BatchLive, BatchPlace, MarkPlace, FailuresBelow
<1>13. CASE Restart
  <2>1. batch' = <<>> /\ mark' = NoMark /\ cmd' = Item("boot", None, None, None) /\ failures' = [i \in Ids |-> 0]
    BY <1>13 DEF Restart
  <2> QED
    BY <1>p, <1>t, <2>1, SizesAssumption, LimitsAssumption DEF BatchLive, BatchPlace, MarkPlace, FailuresBelow
<1> QED
  BY <1>1, <1>2, <1>3, <1>4, <1>5, <1>6, <1>7, <1>8, <1>9, <1>10, <1>11, <1>12, <1>13
     DEF Next, CallStep, WriterStep

-----------------------------------------------------------------------------
(* One recording at a time. *)

\* The recording has ended, or a stop command for it is under way.
Ends(id) ==
    \/ id \in terminal
    \/ cmd.kind = "stop" /\ cmd.id = id
    \/ \E j \in DOMAIN items : items[j].kind = "stop" /\ items[j].id = id

LEMMA SettledEnds ==
    ASSUME StoreInv, current = Nobody, ~closed, ~(op.kind = "stop" /\ op.pc = "send")
    PROVE  \A r \in OnTheWay : Ends(r.id)
  BY DEF StoreInv, Settled, Ends

\* The writer finishes what it has begun: a stop command ends in its recording's end.
LEMMA EndsKept ==
    ASSUME StoreInv, WriterStep \/ DurationTimer \/ SweepTimer, NEW id, Ends(id)
    PROVE  Ends(id)'
<1> USE DEF db, store, calls, limits, writer, history
<1>1. terminal \subseteq terminal'
  BY WriterCalls
<1>2. CASE id \in terminal
  BY <1>1, <1>2 DEF Ends
<1>3. CASE cmd.kind = "stop" /\ cmd.id = id /\ id \notin terminal
  <2>1. cmd # NoCmd
    BY <1>3 DEF NoCmd, Item
  <2>2. cmd' = cmd \/ RunStop
    BY <1>3, <2>1 DEF WriterStep, TakeRecord, DropRecord, TakeStart, TakeCommand, FlushFull, FlushTimer,
          TakeDuration, TakeSweep, MarkTerminal, RunStart, RunExpire, RunDelete, SweepDelete, SweepOver, DurationTimer,
          SweepTimer, Select, WriterFree, Runs
  <2>3. CASE RunStop
    <3>1. cmd.id # None
      BY <1>3 DEF StoreInv, Commands
    <3>2. id \in terminal'
      BY <1>3, <2>3, <3>1 DEF RunStop
    <3> QED
      BY <3>2 DEF Ends
  <2> QED
    BY <1>3, <2>2, <2>3 DEF Ends
<1>4. ASSUME NEW j \in DOMAIN items, items[j].kind = "stop", items[j].id = id PROVE Ends(id)'
  <2>1. CASE items' = items
    BY <1>4, <2>1 DEF Ends
  <2>2. CASE Taken
    <3>1. items' = Tail(items) /\ items \in Seq(ItemType) /\ items # <<>>
      BY <2>2, WayFacts DEF Taken
    <3>2. CASE j = 1
      <4>1. Head(items).kind = "stop" /\ Head(items).id = id
        BY <1>4, <3>1, <3>2
      <4>2. TakeCommand \/ TakeRecord \/ DropRecord \/ TakeStart \/ items' = items
        BY DEF WriterStep, FlushFull, FlushTimer,
          TakeDuration, TakeSweep, MarkTerminal, RunStart, RunExpire, RunStop, RunDelete, SweepDelete, SweepOver, DurationTimer,
          SweepTimer
      <4>3. ~(TakeRecord \/ DropRecord \/ TakeStart)
        BY <4>1 DEF TakeRecord, DropRecord, TakeStart, IsRecord
      <4>4. CASE TakeCommand
        <5>1. cmd' = Head(items)
          BY <4>4 DEF TakeCommand, FlushThen
        <5> QED
          BY <4>1, <5>1 DEF Ends
      <4> QED
        BY <2>1, <4>2, <4>3, <4>4
    <3>3. CASE j # 1
      <4>1. j - 1 \in DOMAIN items' /\ items'[j - 1] = items[j]
        BY <1>4, <3>1, <3>3
      <4> QED
        BY <1>4, <4>1 DEF Ends
    <3> QED
      BY <3>2, <3>3
  <2>3. Taken \/ items' = items
    BY DEF WriterStep, TakeRecord, DropRecord, TakeStart, TakeCommand, FlushFull, FlushTimer,
          TakeDuration, TakeSweep, MarkTerminal, RunStart, RunExpire, RunStop, RunDelete, SweepDelete, SweepOver, DurationTimer,
          SweepTimer
  <2> QED
    BY <2>1, <2>2, <2>3
<1> QED
  BY <1>2, <1>3, <1>4 DEF Ends

\* When the writer answers a waiting Start or Stop, nothing is on its way any more.
LEMMA AnsweredEmpty ==
    ASSUME StoreInv, WriterStep \/ DurationTimer \/ SweepTimer, Lends, op'.done
    PROVE  OnTheWay' = {}
<1> USE DEF db, store, calls, limits, writer, history
<1>w. OnTheWay' \subseteq OnTheWay
  <2>1. ~Enqueue \/ OnTheWay' \subseteq OnTheWay
    <3>1. Enqueue => current # Nobody
      BY DEF Enqueue
    <3> QED
      BY <3>1 DEF StoreInv, CallsHold
  <2> QED
    BY <2>1, NextWay DEF Next
<1>1. CASE op.done
  BY <1>w, <1>1 DEF StoreInv, OneRecording
<1>2. CASE ~op.done
  <2>0. /\ op \in OpType /\ current = Nobody /\ ~closed
        /\ cmd.kind = "start" \/ cmd = NoCmd => cmd.kind # "stop"
    BY TypeParts DEF StoreInv, CallOK, CallsHold, NoCmd, Item
  <2>1. CASE TakeStart
    <3>1. op' = op \/ op' = Replied(Head(items), FALSE)
      BY <2>1 DEF TakeStart
    <3>2. Head(items).op = opNo /\ op.pc = "wait"
      BY <1>2, <3>1, RepliedFacts
    <3>3. items' = Tail(items) /\ 1 \in DOMAIN items /\ Head(items) = items[1] /\ Len(items) \in Nat /\ items # <<>>
          /\ items \in Seq(ItemType)
      BY <2>1, TakenFacts, WayFacts DEF TakeStart
    <3>4. Len(items) = 1
      BY <3>2, <3>3 DEF StoreInv, Commands
    <3>5. items' = <<>>
      BY <3>3, <3>4
    <3>6. cmd.kind # "stop" /\ items[1].kind = "start" /\ batch' = batch
      BY <2>0, <2>1, <3>3 DEF TakeStart, Select, WriterFree
    <3>7. \A r \in Records(batch) : FALSE
      <4> SUFFICES ASSUME NEW r \in Records(batch) PROVE FALSE
        OBVIOUS
      <4>1. r.id \notin terminal /\ r \in OnTheWay
        BY WayFacts
      <4>2. Ends(r.id)
        BY <2>0, <3>2, <4>1, SettledEnds
      <4>3. \A j \in DOMAIN items : items[j].kind = "start"
        BY <3>3, <3>4, <3>6
      <4> QED
        BY <3>6, <4>1, <4>2, <4>3 DEF Ends
    <3>8. Records(items') = {} /\ Records(batch') = {}
      BY <3>5, <3>6, <3>7, RecordsEmpty
    <3> QED
      BY <3>8 DEF OnTheWay
  <2>2. CASE RunStart
    <3>1. op' = Replied(cmd, FALSE) /\ batch' = batch /\ items' = items /\ cmd.kind = "start"
      BY <2>2 DEF RunStart, Runs
    <3>2. cmd.op = opNo /\ op.pc = "wait"
      BY <1>2, <3>1, RepliedFacts
    <3>3. items = <<>>
      BY <3>2 DEF StoreInv, Commands
    <3>4. \A r \in Records(batch) : FALSE
      <4> SUFFICES ASSUME NEW r \in Records(batch) PROVE FALSE
        OBVIOUS
      <4>1. r.id \notin terminal /\ r \in OnTheWay
        BY WayFacts
      <4>2. Ends(r.id)
        BY <2>0, <3>2, <4>1, SettledEnds
      <4> QED
        BY <3>1, <3>3, <4>1, <4>2 DEF Ends
    <3>5. Records(items') = {} /\ Records(batch') = {}
      BY <3>1, <3>3, <3>4, RecordsEmpty
    <3> QED
      BY <3>5 DEF OnTheWay
  <2>3. CASE RunStop \/ RunDelete
    <3>1. PICK f \in BOOLEAN : op' = Replied(cmd, f)
      BY <2>3 DEF RunStop, RunDelete
    <3>2. batch' = batch /\ items' = items /\ cmd.kind \in {"stop", "close", "delete"}
      BY <2>3 DEF RunStop, RunDelete, Runs
    <3>3. cmd.op = opNo /\ op.pc = "wait"
      BY <1>2, <3>1, RepliedFacts
    <3>4. items = <<>> /\ batch = <<>>
      BY <3>2, <3>3 DEF StoreInv, Commands, WriterHolds
    <3>5. Records(items') = {} /\ Records(batch') = {}
      BY <3>2, <3>4, RecordsEmpty
    <3> QED
      BY <3>5 DEF OnTheWay
  <2>4. CASE op' = op
    BY <1>2, <2>4
  <2> QED
    BY <2>1, <2>2, <2>3, <2>4
       DEF WriterStep, TakeRecord, DropRecord, TakeCommand, FlushFull, FlushTimer, FlushThen,
          TakeDuration, TakeSweep, MarkTerminal, RunExpire, SweepDelete, SweepOver, DurationTimer, SweepTimer
<1> QED
  BY <1>1, <1>2

\* Which recordings take events, in the two cases that matter.
LEMMA TakesFacts ==
    ASSUME StoreInv
    PROVE  /\ current # Nobody => current.id # None /\ \A id : Takes(id) <=> id = current.id
           /\ Lends => op.active.id # None /\ \A id : Takes(id) <=> id = op.active.id
           /\ Nobody.id = None
           /\ current # Nobody => ~Lends /\ \A r \in OnTheWay : r.id = current.id
           /\ op.kind = "stop" /\ op.pc = "send" => \A r \in OnTheWay : r.id = op.active.id
<1>1. CallsHold /\ OneRecording /\ Nobody.id = None
  BY DEF StoreInv, Nobody
<1>2. current # Nobody => current.id # None /\ ~Lends
  BY <1>1 DEF CallsHold
<1>3. Lends => op.active.id # None /\ current = Nobody
  BY <1>1 DEF CallsHold, Lends
<1>4. current # Nobody => \A id : Takes(id) <=> id = current.id
  BY <1>2 DEF Takes
<1>5. Lends => \A id : Takes(id) <=> id = op.active.id
  BY <1>1, <1>3 DEF Takes
<1>6. op.kind = "stop" => Lends
  BY DEF Lends
<1> QED
  BY <1>1, <1>2, <1>3, <1>4, <1>5, <1>6 DEF OneRecording

LEMMA NextOneRecording ==
    ASSUME StoreInv, CallsHold', [Next]_vars
    PROVE  OneRecording'
<1> USE DEF db, store, calls, limits, writer, history
<1>0. /\ \A r, q \in OnTheWay : r.id = q.id
      /\ Lends /\ op.done => OnTheWay = {}
      /\ op \in OpType /\ CallsHold /\ \A r \in OnTheWay : r.id # None
  BY TypeParts, WayFacts DEF StoreInv, OneRecording, CallOK, Ids, None
<1>o. \A k, p, a : /\ Op(k, p, a).kind = k /\ Op(k, p, a).pc = p /\ Op(k, p, a).active = a
                   /\ Op(k, p, a).done = FALSE
  BY DEF Op, NoOp
<1>n. NoOp.kind = "none" /\ NoOp.pc = "idle" /\ NoOp.done = FALSE
  BY DEF NoOp
<1>1. CASE Enqueue
  <2>1. PICK record \in ItemType : /\ record = Item("record", current.id, current.nextSeq + 1, None)
                                   /\ OnTheWay' \subseteq OnTheWay \cup {record} /\ current'.id = current.id
    BY <1>1, EnqueueFacts
  <2>2. record.id = current.id /\ current # Nobody /\ op' = op
    BY <1>1, <2>1 DEF Item, Enqueue
  <2>3. current.id # None /\ ~Lends /\ \A r \in OnTheWay : r.id = current.id
    BY <2>2, TakesFacts
  <2>4. \A r \in OnTheWay' : r.id = current'.id
    BY <2>1, <2>2, <2>3
  <2> QED
    BY <2>1, <2>2, <2>3, <2>4 DEF OneRecording, Takes, Lends
<1>2. CASE ~Enqueue
  <2>w. OnTheWay' \subseteq OnTheWay
    BY <1>2, NextWay
  <2>a. \A r, q \in OnTheWay' : r.id = q.id
    BY <1>0, <2>w
  <2>k. ASSUME current # Nobody, current' = current PROVE \A r \in OnTheWay' : Takes(r.id)'
    BY <1>0, <2>w, <2>k, TakesFacts DEF Takes
  <2>p. ASSUME op'.done = FALSE,
               current' # Nobody \/ (op'.kind = "stop" /\ op'.pc = "send") => \A r \in OnTheWay' : Takes(r.id)'
        PROVE OneRecording'
    BY <2>a, <2>p DEF OneRecording
  <2>1. CASE StartRecording
    <3>1. op'.kind = "start" /\ op'.done = FALSE /\ current' = Nobody
      BY <1>o, <2>1 DEF StartRecording
    <3> QED
      BY <2>p, <3>1
  <2>2. CASE StopRecording
    <3>1. op'.kind = "stop" /\ op'.active = current /\ op'.done = FALSE /\ current # Nobody
      BY <1>o, <2>2 DEF StopRecording
    <3>2. \A r \in OnTheWay' : Takes(r.id)'
      BY <1>0, <2>w, <3>1, TakesFacts DEF Takes, Lends
    <3> QED
      BY <2>p, <3>1, <3>2
  <2>3. ASSUME NEW id \in Ids, DeleteRecording(id) PROVE OneRecording'
    <3>1. op'.kind = "delete" /\ op'.done = FALSE /\ current' = current
      BY <1>o, <2>3 DEF DeleteRecording
    <3> QED
      BY <2>k, <2>p, <3>1
  <2>4. CASE Shutdown
    <3>1. op'.kind = "close" /\ op'.done = FALSE /\ current' = Nobody
      BY <1>o, <2>4 DEF Shutdown
    <3> QED
      BY <2>p, <3>1
  <2>5. CASE Expire
    <3>1. op'.kind = op.kind /\ op'.pc = op.pc /\ op'.active = op.active /\ op'.done = op.done /\ current' = current
      BY <1>0, <2>5 DEF Expire, OpType
    <3>2. current' # Nobody \/ (op'.kind = "stop" /\ op'.pc = "send") => \A r \in OnTheWay' : Takes(r.id)'
      BY <1>0, <2>w, <3>1, TakesFacts DEF Takes, Lends
    <3> QED
      BY <1>0, <2>a, <2>w, <3>1, <3>2 DEF OneRecording, Lends
  <2>6. CASE SendCommand
    <3>1. op'.kind = op.kind /\ op'.pc = "wait" /\ op'.done = op.done /\ op.pc = "send" /\ current' = current
      BY <1>0, <2>6 DEF SendCommand, OpType
    <3>2. op.done = FALSE
      BY <1>0, <3>1 DEF CallsHold, OpType
    <3> QED
      BY <2>k, <2>p, <3>1, <3>2
  <2>7. CASE SendTimeout
    <3>1. op' = NoOp /\ op.pc = "send"
      BY <2>7 DEF SendTimeout
    <3>2. CASE op.kind = "stop"
      <4>1. current' = op.active
        BY <1>0, <2>7, <3>2 DEF SendTimeout, Restored, CallsHold, Lends
      <4>2. \A r \in OnTheWay' : Takes(r.id)'
        BY <1>0, <2>w, <3>1, <3>2, <4>1, TakesFacts DEF Takes
      <4> QED
        BY <1>n, <2>p, <3>1, <4>2
    <3>3. CASE op.kind # "stop"
      <4>1. current' = current
        BY <2>7, <3>3 DEF SendTimeout
      <4> QED
        BY <1>n, <2>k, <2>p, <3>1, <4>1
    <3> QED
      BY <3>2, <3>3
  <2>8. CASE WaitDone
    <3>1. op' = NoOp /\ op.pc = "wait"
      BY <2>8 DEF WaitDone
    <3>2. CASE op.kind = "start"
      <4>1. OnTheWay = {}
        BY <1>0, <2>8, <3>2 DEF WaitDone, Lends
      <4> QED
        BY <1>n, <2>w, <2>p, <3>1, <4>1
    <3>3. CASE op.kind # "start"
      <4>1. current' = current
        BY <2>8, <3>3 DEF WaitDone
      <4> QED
        BY <1>n, <2>k, <2>p, <3>1, <4>1
    <3> QED
      BY <3>2, <3>3
  <2>9. CASE WaitTimeout
    <3>1. op' = NoOp /\ current' = current
      BY <2>9 DEF WaitTimeout
    <3> QED
      BY <1>n, <2>k, <2>p, <3>1
  <2>10. CASE WriterStep \/ DurationTimer \/ SweepTimer
    <3>1. Answered /\ Cleared
      BY <2>10, WriterCalls
    <3>2. op'.kind = op.kind /\ op'.pc = op.pc /\ op'.active = op.active
      BY <3>1, AnsweredFacts
    <3>3. current' = current \/ current' = Nobody
      BY <3>1 DEF Cleared
    <3>4. current' # Nobody => \A r \in OnTheWay' : Takes(r.id)'
      BY <2>k, <3>3
    <3>5. op'.kind = "stop" /\ op'.pc = "send" => \A r \in OnTheWay' : Takes(r.id)'
      BY <1>0, <2>w, <3>2, TakesFacts DEF Takes, Lends
    <3>6. Lends' /\ op'.done => OnTheWay' = {}
      BY <2>10, <3>2, AnsweredEmpty DEF Lends
    <3> QED
      BY <2>a, <3>4, <3>5, <3>6 DEF OneRecording
  <2>11. CASE Restart
    <3>1. op' = NoOp /\ current' = Nobody
      BY <2>11 DEF Restart
    <3> QED
      BY <1>n, <2>p, <3>1
  <2>12. CASE UNCHANGED vars
    <3>1. OnTheWay' = OnTheWay /\ op' = op /\ current' = current
      BY <2>12 DEF vars, OnTheWay
    <3> QED
      BY <3>1 DEF StoreInv, OneRecording, Takes, Lends
  <2> QED
    BY <1>2, <2>1, <2>2, <2>3, <2>4, <2>5, <2>6, <2>7, <2>8, <2>9, <2>10, <2>11, <2>12 DEF Next, CallStep
<1> QED
  BY <1>1, <1>2

LEMMA NextSettled ==
    ASSUME StoreInv, [Next]_vars
    PROVE  Settled'
<1> USE DEF db, store, calls, limits, writer, history
<1>0. op \in OpType /\ CallsHold
  BY TypeParts DEF StoreInv, CallOK
<1>o. \A k, p, a : Op(k, p, a).kind = k /\ Op(k, p, a).pc = p
  BY DEF Op, NoOp
<1> SUFFICES ASSUME current' = Nobody, ~closed', ~(op'.kind = "stop" /\ op'.pc = "send"), NEW r \in OnTheWay'
             PROVE  Ends(r.id)'
  BY DEF Settled, Ends
<1>e. ~Enqueue
  <2>1. Enqueue => current # Nobody /\ current'.id = current.id
    BY EnqueueFacts DEF Enqueue
  <2> QED
    BY <1>0, <2>1, TakesFacts
<1>w. r \in OnTheWay
  BY <1>e, NextWay
<1>k. ASSUME current = Nobody, ~closed, ~(op.kind = "stop" /\ op.pc = "send"), UNCHANGED <<items, terminal, cmd>>
      PROVE  Ends(r.id)'
  <2>1. Ends(r.id)
    BY <1>k, <1>w, SettledEnds
  <2> QED
    BY <1>k, <2>1 DEF Ends
<1>1. CASE StartRecording
  BY <1>0, <1>1, <1>k DEF StartRecording, Calls, CallsHold
<1>2. CASE StopRecording
  BY <1>2, <1>o DEF StopRecording
<1>3. ASSUME NEW id \in Ids, DeleteRecording(id) PROVE Ends(r.id)'
  BY <1>0, <1>3, <1>k DEF DeleteRecording, Calls, CallsHold
<1>4. CASE Shutdown
  BY <1>4 DEF Shutdown
<1>5. CASE Expire
  <2>1. op'.kind = op.kind /\ op'.pc = op.pc
    BY <1>0, <1>5 DEF Expire, OpType
  <2> QED
    BY <1>5, <1>k, <2>1 DEF Expire
<1>6. CASE SendCommand
  <2>1. PICK c \in ItemType : c = Item(op.kind, op.active.id, None, opNo) /\ items' = Append(items, c)
    BY <1>6, SendFacts
  <2>2. items \in Seq(ItemType) /\ c.kind = op.kind /\ c.id = op.active.id
    BY <2>1, WayFacts DEF Item
  <2>3. /\ \A j \in DOMAIN items : j \in DOMAIN items' /\ items'[j] = items[j]
        /\ Len(items) + 1 \in DOMAIN items' /\ items'[Len(items) + 1] = c
    BY <2>1, <2>2
  <2>4. UNCHANGED <<current, closed, terminal, cmd>> /\ op.pc = "send"
    BY <1>6 DEF SendCommand
  <2>5. CASE op.kind = "stop"
    <3>1. r.id = op.active.id
      BY <1>w, <2>4, <2>5, TakesFacts
    <3> QED
      BY <2>2, <2>3, <2>5, <3>1 DEF Ends
  <2>6. CASE op.kind # "stop"
    <3>1. Ends(r.id)
      BY <1>w, <2>4, <2>6, SettledEnds
    <3> QED
      BY <2>3, <2>4, <3>1 DEF Ends
  <2> QED
    BY <2>5, <2>6
<1>7. CASE SendTimeout
  <2>1. op.kind # "stop"
    <3>1. op.kind = "stop" => current' = op.active /\ op.active.id # None
      BY <1>0, <1>7 DEF SendTimeout, Restored, CallsHold, Lends
    <3> QED
      BY <3>1, TakesFacts
  <2> QED
    BY <1>7, <1>k, <2>1 DEF SendTimeout
<1>8. CASE WaitDone
  <2>1. op.kind # "start"
    <3>1. op.kind = "start" => current' = op.active /\ op.active.id # None
      BY <1>0, <1>8 DEF WaitDone, CallsHold
    <3> QED
      BY <3>1, TakesFacts
  <2> QED
    BY <1>8, <1>k, <2>1 DEF WaitDone
<1>9. CASE WaitTimeout
  BY <1>9, <1>k DEF WaitTimeout
<1>10. CASE WriterStep \/ DurationTimer \/ SweepTimer
  <2>1. Answered /\ Cleared /\ UNCHANGED closed
    BY <1>10, WriterCalls
  <2>2. op'.kind = op.kind /\ op'.pc = op.pc
    BY <2>1, AnsweredFacts
  <2>3. CASE current = Nobody
    <3>1. Ends(r.id)
      BY <1>w, <2>1, <2>2, <2>3, SettledEnds
    <3> QED
      BY <1>10, <3>1, EndsKept
  <2>4. CASE current # Nobody
    <3>1. current.id \in terminal' /\ r.id = current.id
      BY <1>w, <2>1, <2>4, TakesFacts DEF Cleared
    <3> QED
      BY <3>1 DEF Ends
  <2> QED
    BY <2>3, <2>4
<1>11. CASE Restart
  <2>1. items' = <<>> /\ batch' = <<>>
    BY <1>11 DEF Restart
  <2>2. Records(items') = {} /\ Records(batch') = {}
    BY <2>1, RecordsEmpty
  <2> QED
    BY <2>2 DEF OnTheWay
<1>12. CASE UNCHANGED vars
  BY <1>12, <1>k DEF vars
<1> QED
  BY <1>e, <1>1, <1>2, <1>3, <1>4, <1>5, <1>6, <1>7, <1>8, <1>9, <1>10, <1>11, <1>12 DEF Next, CallStep

-----------------------------------------------------------------------------
(* Sequence numbers. *)

\* Outside a flush the database only loses events and the totals are kept or reset.
NoneAdded == \A i \in Ids : events'[i] \subseteq events[i] /\ (totals'[i] = totals[i] \/ totals'[i] = 0)
FlushStep == mark = NoMark /\ Flush /\ (Taken \/ items' = items) /\ \E c \in CmdType : FlushThen(c)

LEMMA DeleteAddsNone ==
    ASSUME StoreInv, NEW i \in Ids, Deleted(i) \/ DeletedPartly(i)
    PROVE  \A k \in Ids : events'[k] \subseteq events[k]
<1>1. events \in [Ids -> SUBSET Seqs]
  BY TypeParts DEF StoreInv, DbOK
<1> QED
  BY <1>1 DEF Deleted, DeletedPartly

LEMMA NextAdds ==
    ASSUME StoreInv, [Next]_vars
    PROVE  NoneAdded \/ FlushStep
<1> USE DEF db, store, calls, limits, writer, history
<1>0. totals \in [Ids -> 0..MaxSeq]
  BY TypeParts DEF StoreInv, CountsOK
<1>u. UNCHANGED <<events, totals>> => NoneAdded
  BY DEF NoneAdded
<1>1. CASE StartRecording \/ StopRecording \/ (\E id \in Ids : DeleteRecording(id)) \/ Shutdown \/ Expire
           \/ SendCommand \/ SendTimeout \/ WaitDone \/ WaitTimeout \/ Enqueue \/ UNCHANGED vars
  BY <1>1, <1>u DEF StartRecording, StopRecording, DeleteRecording, Shutdown, Expire, SendCommand, SendTimeout,
                    WaitDone, WaitTimeout, Enqueue, vars
<1>2. CASE TakeRecord \/ DropRecord \/ TakeStart \/ MarkTerminal \/ RunStart \/ RunExpire \/ RunStop \/ SweepOver
           \/ DurationTimer \/ SweepTimer
  BY <1>2, <1>u DEF TakeRecord, DropRecord, TakeStart, MarkTerminal, RunStart, RunExpire, RunStop, SweepOver,
                    DurationTimer, SweepTimer
<1>3. CASE TakeCommand
  <2>1. Taken /\ mark = NoMark /\ ~IsRecord(Head(items)) /\ FlushThen(Head(items))
    BY <1>3 DEF TakeCommand, Select, WriterFree, IsRecord
  <2>2. Head(items) \in CmdType
    BY <2>1, TakenFacts
  <2> QED
    BY <2>1, <2>2 DEF FlushStep, FlushThen
<1>4. CASE FlushFull \/ FlushTimer \/ TakeDuration \/ TakeSweep
  <2>1. mark = NoMark /\ items' = items
        /\ (FlushThen(NoCmd) \/ FlushThen(Item("expire", durID, None, None)) \/ FlushThen(Item("sweep", None, None, None)))
    BY <1>4 DEF FlushFull, FlushTimer, TakeDuration, TakeSweep, Select, WriterFree
  <2>2. NoCmd \in CmdType /\ Item("expire", durID, None, None) \in CmdType /\ Item("sweep", None, None, None) \in CmdType
    BY ValueTypes, TypeParts DEF StoreInv, TimerOK
  <2> QED
    BY <2>1, <2>2 DEF FlushStep, FlushThen
<1>5. CASE RunDelete
  <2>1. cmd.id \in Ids
    BY <1>5, TypeParts DEF RunDelete, Runs, StoreInv, Commands, TurnOK, CmdType
  <2>2. \A i \in Ids : totals'[i] = totals[i] \/ totals'[i] = 0
    BY <1>0, <1>5 DEF RunDelete
  <2>3. UNCHANGED events \/ Deleted(cmd.id) \/ DeletedPartly(cmd.id)
    BY <1>5 DEF RunDelete
  <2> QED
    BY <2>1, <2>2, <2>3, DeleteAddsNone DEF NoneAdded
<1>6. CASE SweepDelete
  <2>1. PICK oldest \in Ids : Deleted(oldest) \/ DeletedPartly(oldest)
    BY <1>6 DEF SweepDelete, Candidates
  <2> QED
    BY <1>6, <2>1, DeleteAddsNone DEF NoneAdded, SweepDelete
<1>7. CASE Restart
  <2>1. events' = events /\ totals' = [i \in Ids |-> 0]
    BY <1>7 DEF Restart
  <2> QED
    BY <2>1 DEF NoneAdded
<1> QED
  BY <1>1, <1>2, <1>3, <1>4, <1>5, <1>6, <1>7 DEF Next, CallStep, WriterStep

\* Only Start adds a recording that takes events, and only Publish moves its number.
LEMMA NextTakes ==
    ASSUME StoreInv, [Next]_vars
    PROVE  \/ StartRecording \/ Enqueue
           \/ \A id : Takes(id)' => Takes(id) /\ NumberOf(id)' = NumberOf(id)
<1> USE DEF db, store, calls, limits, writer, history
<1>0. op \in OpType /\ CallsHold /\ Nobody.id = None
  BY TypeParts DEF StoreInv, CallOK, Nobody
<1>o. \A k, p, a : Op(k, p, a).kind = k /\ Op(k, p, a).active = a
  BY DEF Op, NoOp
<1>n. NoOp.kind = "none"
  BY DEF NoOp
<1>u. ASSUME op'.kind = op.kind, op'.active = op.active, current' = current \/ current' = Nobody
      PROVE  \A id : Takes(id)' => Takes(id) /\ NumberOf(id)' = NumberOf(id)
  <2> SUFFICES ASSUME NEW id, Takes(id)' PROVE Takes(id) /\ NumberOf(id)' = NumberOf(id)
    OBVIOUS
  <2>1. CASE current' = current
    BY <1>u, <2>1 DEF Takes, NumberOf, Lends
  <2>2. CASE current' = Nobody /\ current # Nobody
    <3>1. Lends
      BY <1>0, <1>u, <2>2 DEF Takes, Lends
    <3> QED
      BY <2>2, <3>1, TakesFacts
  <2> QED
    BY <1>u, <2>1, <2>2
<1>1. CASE StopRecording
  <2>1. current # Nobody /\ current' = Nobody /\ op'.kind = "stop" /\ op'.active = current
    BY <1>1, <1>o DEF StopRecording
  <2> QED
    BY <1>0, <2>1, TakesFacts DEF Takes, NumberOf, Lends
<1>2. ASSUME NEW i \in Ids, DeleteRecording(i)
      PROVE  \A id : Takes(id)' => Takes(id) /\ NumberOf(id)' = NumberOf(id)
  <2>1. op'.kind = "delete" /\ current' = current
    BY <1>2, <1>o DEF DeleteRecording
  <2> QED
    BY <2>1 DEF Takes, NumberOf, Lends
<1>3. CASE Shutdown
  <2>1. op'.kind = "close" /\ current' = Nobody
    BY <1>3, <1>o DEF Shutdown
  <2> QED
    BY <1>0, <2>1 DEF Takes, Lends
<1>4. CASE Expire
  <2>1. op'.kind = op.kind /\ op'.active = op.active /\ current' = current
    BY <1>0, <1>4 DEF Expire, OpType
  <2> QED
    BY <1>u, <2>1
<1>5. CASE SendCommand
  <2>1. op'.kind = op.kind /\ op'.active = op.active /\ current' = current
    BY <1>0, <1>5 DEF SendCommand, OpType
  <2> QED
    BY <1>u, <2>1
<1>6. CASE SendTimeout \/ WaitDone \/ WaitTimeout
  <2>1. op' = NoOp /\ (current' = current \/ (current' = op.active /\ Lends /\ current = Nobody))
    BY <1>0, <1>6 DEF SendTimeout, WaitDone, WaitTimeout, Restored, Lends, CallsHold
  <2>2. CASE current' = current
    BY <1>n, <2>1, <2>2 DEF Takes, NumberOf, Lends
  <2>3. CASE current' = op.active /\ Lends /\ current = Nobody
    BY <1>0, <1>n, <2>1, <2>3 DEF Takes, NumberOf, Lends
  <2> QED
    BY <2>1, <2>2, <2>3
<1>7. CASE WriterStep \/ DurationTimer \/ SweepTimer
  <2>1. Answered /\ Cleared
    BY <1>7, WriterCalls
  <2>2. op'.kind = op.kind /\ op'.active = op.active
    BY <2>1, AnsweredFacts
  <2> QED
    BY <1>u, <2>1, <2>2 DEF Cleared
<1>8. CASE Restart
  <2>1. op' = NoOp /\ current' = Nobody
    BY <1>8 DEF Restart
  <2> QED
    BY <1>0, <1>n, <2>1 DEF Takes, Lends
<1>9. CASE UNCHANGED vars
  <2>1. op' = op /\ current' = current
    BY <1>9 DEF vars
  <2> QED
    BY <1>u, <2>1
<1> QED
  BY <1>1, <1>2, <1>3, <1>4, <1>5, <1>6, <1>7, <1>8, <1>9 DEF Next, CallStep

InOrder ==
    /\ Increasing(batch) /\ Increasing(items)
    /\ \A r \in Records(batch), q \in Records(items) : r.seq < q.seq
AboveStored == \A r \in OnTheWay : totals[r.id] < r.seq /\ \A s \in events[r.id] : s < r.seq
UpToNumber ==
    \A id \in Ids : Takes(id) =>
        /\ totals[id] <= NumberOf(id)
        /\ \A s \in events[id] : s <= NumberOf(id)
        /\ \A r \in OnTheWay : r.id = id => r.seq <= NumberOf(id)

LEMMA NumberedParts == Numbered <=> InOrder /\ AboveStored /\ UpToNumber
  BY DEF Numbered, InOrder, AboveStored, UpToNumber

\* How the two sequences move.
LEMMA NextMoves ==
    ASSUME StoreInv, [Next]_vars
    PROVE  \/ TakeRecord \/ SendCommand \/ Enqueue
           \/ (Taken \/ items' = items \/ items' = <<>>) /\ (batch' = batch \/ batch' = <<>>)
<1> USE DEF db, store, calls, limits, writer, history
<1>1. CASE StartRecording \/ StopRecording \/ (\E id \in Ids : DeleteRecording(id)) \/ Shutdown \/ Expire
           \/ SendTimeout \/ WaitDone \/ WaitTimeout \/ UNCHANGED vars
  BY <1>1 DEF StartRecording, StopRecording, DeleteRecording, Shutdown, Expire, SendTimeout, WaitDone,
              WaitTimeout, vars
<1>2. CASE DropRecord \/ TakeStart \/ TakeCommand \/ FlushFull \/ FlushTimer \/ TakeDuration \/ TakeSweep
  BY <1>2 DEF DropRecord, TakeStart, TakeCommand, FlushFull, FlushTimer, TakeDuration, TakeSweep, FlushThen, Flush
<1>3. CASE MarkTerminal \/ RunStart \/ RunExpire \/ RunStop \/ RunDelete \/ SweepDelete \/ SweepOver
           \/ DurationTimer \/ SweepTimer \/ Restart
  BY <1>3 DEF MarkTerminal, RunStart, RunExpire, RunStop, RunDelete, SweepDelete, SweepOver, DurationTimer,
              SweepTimer, Restart
<1> QED
  BY <1>1, <1>2, <1>3 DEF Next, CallStep, WriterStep

LEMMA NextInOrder ==
    ASSUME StoreInv, [Next]_vars
    PROVE  InOrder'
<1>0. InOrder /\ UpToNumber
  BY NumberedParts DEF StoreInv
<1>p. Increasing(batch') /\ Increasing(items') /\ (\A r \in Records(batch'), q \in Records(items') : r.seq < q.seq)
        => InOrder'
  BY DEF InOrder, Increasing, Records
<1>e. Increasing(<<>>) /\ Records(<<>>) = {}
  BY RecordsEmpty DEF Increasing
<1>1. CASE TakeRecord
  <2>1. /\ Head(items) \in Records(items)
        /\ Records(batch') = Records(batch) \cup {Head(items)}
        /\ Records(items) = Records(items') \cup {Head(items)}
        /\ Increasing(items) => /\ Increasing(items')
                                /\ \A r \in Records(items') : Head(items).seq < r.seq
        /\ Increasing(batch) /\ (\A r \in Records(batch) : r.seq < Head(items).seq) => Increasing(batch')
    BY <1>1, TakeFacts
  <2> QED
    BY <1>0, <1>p, <2>1 DEF InOrder
<1>2. CASE SendCommand
  <2>1. Records(items') = Records(items) /\ (Increasing(items) => Increasing(items'))
    BY <1>2, SendFacts
  <2>2. batch' = batch
    BY <1>2 DEF SendCommand, writer
  <2> QED
    BY <1>0, <1>p, <2>1, <2>2 DEF InOrder
<1>3. CASE Enqueue
  <2>1. PICK record \in ItemType :
              /\ record = Item("record", current.id, current.nextSeq + 1, None)
              /\ current.id \in Ids /\ current.nextSeq \in Nat
              /\ \/ items' = items
                 \/ /\ items' = Append(items, record)
                    /\ Records(items') = Records(items) \cup {record}
                    /\ Increasing(items) /\ (\A r \in Records(items) : r.seq < record.seq) => Increasing(items')
    BY <1>3, EnqueueFacts
  <2>2. batch' = batch /\ current # Nobody /\ record.seq = current.nextSeq + 1
    BY <1>3, <2>1 DEF Enqueue, writer, Item
  <2>3. \A r \in OnTheWay : r.seq < record.seq
    <3> SUFFICES ASSUME NEW r \in OnTheWay PROVE r.seq < record.seq
      OBVIOUS
    <3>1. r.id = current.id /\ Takes(current.id) /\ r.seq \in Seqs
      BY <2>2, TakesFacts, WayFacts
    <3>2. r.seq <= current.nextSeq
      BY <1>0, <2>1, <3>1 DEF UpToNumber, NumberOf
    <3> QED
      BY <2>1, <2>2, <3>1, <3>2, StoreBounds DEF Seqs
  <2>4. Records(batch) \subseteq OnTheWay /\ Records(items) \subseteq OnTheWay
    BY WayFacts
  <2> QED
    BY <1>0, <1>p, <2>1, <2>2, <2>3, <2>4 DEF InOrder
<1>4. CASE (Taken \/ items' = items \/ items' = <<>>) /\ (batch' = batch \/ batch' = <<>>)
  <2>1. Records(items') \subseteq Records(items) /\ Increasing(items')
    <3>1. CASE Taken
      <4>1. items' = Tail(items) /\ items # <<>> /\ items \in Seq(ItemType)
        BY <3>1, TakenFacts, WayFacts
      <4>2. Increasing(items) => Increasing(Tail(items))
        BY <4>1, RecordsTail
      <4> QED
        BY <1>0, <3>1, <4>1, <4>2, TakenFacts DEF InOrder
    <3>2. CASE items' = items \/ items' = <<>>
      BY <1>0, <1>e, <3>2 DEF InOrder
    <3> QED
      BY <1>4, <3>1, <3>2
  <2>2. Records(batch') \subseteq Records(batch) /\ Increasing(batch')
    BY <1>0, <1>e, <1>4 DEF InOrder
  <2> QED
    BY <1>0, <1>p, <2>1, <2>2 DEF InOrder
<1> QED
  BY <1>1, <1>2, <1>3, <1>4, NextMoves

\* After a flush everything still on its way is younger than what was written.
LEMMA FlushNumbers ==
    ASSUME StoreInv, FlushStep
    PROVE  /\ OnTheWay' \subseteq Records(items)
           /\ AboveStored'
           /\ \A id \in Ids : Takes(id) => totals'[id] <= NumberOf(id) /\ \A s \in events'[id] : s <= NumberOf(id)
<1>0. InOrder /\ AboveStored /\ UpToNumber
  BY NumberedParts DEF StoreInv
<1>t. events \in [Ids -> SUBSET Seqs] /\ totals \in [Ids -> 0..MaxSeq]
  BY TypeParts DEF StoreInv, DbOK, CountsOK
<1>1. batch' = <<>> /\ (FlushNothing \/ \E id \in Ids \ terminal : FlushOf(id)) /\ (Taken \/ items' = items)
  BY FlushEffect DEF FlushStep
<1>2. OnTheWay' \subseteq Records(items)
  <2>1. Records(items') \subseteq Records(items)
    BY <1>1, TakenFacts
  <2>2. Records(batch') = {}
    BY <1>1, RecordsEmpty
  <2> QED
    BY <2>1, <2>2 DEF OnTheWay
<1>w. Records(items) \subseteq OnTheWay /\ Records(batch) \subseteq OnTheWay
      /\ \A r \in OnTheWay : r.id \in Ids /\ r.seq \in Seqs
  BY WayFacts
<1>k. ASSUME UNCHANGED <<events, totals>>
      PROVE  /\ AboveStored'
             /\ \A id \in Ids : Takes(id) => totals'[id] <= NumberOf(id) /\ \A s \in events'[id] : s <= NumberOf(id)
  BY <1>0, <1>2, <1>w, <1>k DEF AboveStored, UpToNumber
<1>3. CASE FlushNothing
  BY <1>2, <1>3, <1>k DEF FlushNothing
<1>4. ASSUME NEW id \in Ids \ terminal, FlushOf(id)
      PROVE  /\ AboveStored'
             /\ \A i \in Ids : Takes(i) => totals'[i] <= NumberOf(i) /\ \A s \in events'[i] : s <= NumberOf(i)
  <2>1. CASE FlushLoses(id)
    BY <1>k, <2>1 DEF FlushLoses
  <2>2. CASE FlushWrites(id)
    <3>1. Records(batch) # {} /\ \A r \in Records(batch) : r.id = id
      BY <1>4 DEF FlushOf
    <3>2. PICK last \in Records(batch) :
              /\ totals[id] + Cardinality(Records(batch)) <= last.seq
              /\ \A r \in Records(batch) : r.seq <= last.seq
      BY <3>1, BatchCounts
    <3>3. Cardinality(Records(batch)) \in Nat
      BY <3>1, BatchCounts
    <3>4. /\ totals'[id] = totals[id] + Cardinality(Records(batch))
          /\ events'[id] = events[id] \cup {r.seq : r \in Records(batch)}
          /\ \A i \in Ids : i # id => totals'[i] = totals[i] /\ events'[i] = events[i]
      BY <1>t, <2>2 DEF FlushWrites
    <3>5. last.seq \in Seqs /\ last.id = id /\ totals'[id] <= last.seq /\ totals'[id] \in Nat
          /\ \A s \in events'[id] : s \in Seqs
      BY <1>t, <1>w, <3>1, <3>2, <3>3, <3>4
    <3>6. AboveStored'
      <4> SUFFICES ASSUME NEW r \in OnTheWay'
                   PROVE  totals'[r.id] < r.seq /\ \A s \in events'[r.id] : s < r.seq
        BY DEF AboveStored
      <4>1. r \in Records(items) /\ r \in OnTheWay /\ r.id \in Ids /\ r.seq \in Seqs
        BY <1>2, <1>w
      <4>2. last.seq < r.seq /\ \A q \in Records(batch) : q.seq < r.seq
        BY <1>0, <3>2, <4>1 DEF InOrder
      <4>3. totals[r.id] < r.seq /\ \A s \in events[r.id] : s < r.seq
        BY <1>0, <4>1 DEF AboveStored
      <4>4. CASE r.id = id
        <5>1. totals'[id] < r.seq
          BY <3>5, <4>1, <4>2, StoreBounds DEF Seqs
        <5>2. \A s \in events'[id] : s < r.seq
          BY <3>4, <4>2, <4>3, <4>4
        <5> QED
          BY <4>4, <5>1, <5>2
      <4>5. CASE r.id # id
        BY <3>4, <4>1, <4>3, <4>5
      <4> QED
        BY <4>4, <4>5
    <3>7. ASSUME NEW i \in Ids, Takes(i)
          PROVE  totals'[i] <= NumberOf(i) /\ \A s \in events'[i] : s <= NumberOf(i)
      <4>1. /\ totals[i] <= NumberOf(i) /\ \A s \in events[i] : s <= NumberOf(i)
            /\ \A r \in OnTheWay : r.id = i => r.seq <= NumberOf(i)
        BY <1>0, <3>7 DEF UpToNumber
      <4>2. CASE i = id
        <5>1. NumberOf(i) \in Nat
          BY TypeParts, StoreBounds DEF StoreInv, NumberOf, SessionOK, CallOK, OpType, Active
        <5>2. last.seq <= NumberOf(i) /\ \A r \in Records(batch) : r.seq <= NumberOf(i)
          BY <1>w, <3>1, <4>1, <4>2
        <5>3. totals'[i] <= NumberOf(i)
          BY <3>5, <4>2, <5>1, <5>2, StoreBounds DEF Seqs
        <5> QED
          BY <3>4, <4>1, <4>2, <5>2, <5>3
      <4>3. CASE i # id
        BY <3>4, <4>1, <4>3
      <4> QED
        BY <4>2, <4>3
    <3> QED
      BY <3>6, <3>7
  <2> QED
    BY <1>4, <2>1, <2>2 DEF FlushOf
<1> QED
  BY <1>1, <1>2, <1>3, <1>4

LEMMA NextNumbered ==
    ASSUME StoreInv, [Next]_vars
    PROVE  Numbered'
<1>0. InOrder /\ AboveStored /\ UpToNumber
  BY NumberedParts DEF StoreInv
<1>p. (InOrder /\ AboveStored /\ UpToNumber)' => Numbered'
  BY DEF Numbered, InOrder, AboveStored, UpToNumber
<1>t. /\ totals \in [Ids -> 0..MaxSeq] /\ events \in [Ids -> SUBSET Seqs]
      /\ \A i \in Ids : Takes(i) => NumberOf(i) \in Nat
      /\ \A r \in OnTheWay : r.id \in Ids /\ r.seq \in Seqs /\ r.id < nextId
  <2>1. totals \in [Ids -> 0..MaxSeq] /\ events \in [Ids -> SUBSET Seqs]
    BY TypeParts DEF StoreInv, DbOK, CountsOK
  <2>2. \A i \in Ids : NumberOf(i) \in Nat
    BY TypeParts, StoreBounds DEF StoreInv, NumberOf, SessionOK, CallOK, OpType, Active
  <2>3. \A r \in OnTheWay : r.id \in Ids /\ r.seq \in Seqs /\ r.id < nextId
    BY WayFacts
  <2> QED
    BY <2>1, <2>2, <2>3
<1>1. InOrder'
  BY NextInOrder
<1>n. ASSUME NoneAdded, OnTheWay' \subseteq OnTheWay PROVE AboveStored'
  <2> SUFFICES ASSUME NEW r \in OnTheWay' PROVE totals'[r.id] < r.seq /\ \A s \in events'[r.id] : s < r.seq
    BY DEF AboveStored
  <2>1. r \in OnTheWay /\ r.id \in Ids /\ r.seq \in Seqs
    BY <1>n, <1>t
  <2>2. totals[r.id] < r.seq /\ (\A s \in events[r.id] : s < r.seq) /\ 0 < r.seq
    BY <1>0, <2>1, StoreBounds DEF AboveStored, Seqs
  <2> QED
    BY <1>n, <2>1, <2>2 DEF NoneAdded
<1>2. CASE StartRecording
  <2>1. current = Nobody /\ current' = Nobody /\ op' = Op("start", "send", [id |-> nextId, nextSeq |-> 0])
        /\ UNCHANGED <<events, totals, items, batch>> /\ nextId <= MaxId
    BY <1>2 DEF StartRecording, store, writer, limits
  <2>2. op'.kind = "start" /\ op'.active.id = nextId /\ op'.active.nextSeq = 0 /\ Nobody.id = None
    BY <2>1 DEF Op, NoOp, Nobody
  <2>3. OnTheWay' = OnTheWay
    BY <2>1 DEF OnTheWay
  <2>4. AboveStored'
    BY <1>n, <2>1, <2>3 DEF NoneAdded
  <2>5. UpToNumber'
    <3> SUFFICES ASSUME NEW id \in Ids, Takes(id)'
                 PROVE  /\ totals'[id] <= NumberOf(id)' /\ (\A s \in events'[id] : s <= NumberOf(id)')
                        /\ \A r \in OnTheWay' : r.id = id => r.seq <= NumberOf(id)'
      BY DEF UpToNumber
    <3>1. id = nextId /\ NumberOf(id)' = 0
      BY <2>1, <2>2 DEF Takes, NumberOf, Lends
    <3>2. totals[id] = 0 /\ events[id] = {}
      <4>1. nextId \in Int
        BY TypeParts DEF StoreInv, DbOK
      <4> QED
        BY <3>1, <4>1 DEF StoreInv, Unused
    <3>3. \A r \in OnTheWay' : r.id # id
      BY <1>t, <2>3, <3>1, StoreBounds DEF Ids
    <3> QED
      BY <2>1, <3>1, <3>2, <3>3
  <2> QED
    BY <1>1, <1>p, <2>4, <2>5
<1>3. CASE Enqueue
  <2>1. PICK record \in ItemType :
              /\ record = Item("record", current.id, current.nextSeq + 1, None)
              /\ current.id \in Ids /\ current.nextSeq \in Nat /\ current'.id = current.id
              /\ current'.nextSeq = current.nextSeq + 1
              /\ OnTheWay' \subseteq OnTheWay \cup {record}
    BY <1>3, EnqueueFacts
  <2>2. UNCHANGED <<events, totals, op>> /\ current # Nobody /\ record.id = current.id
        /\ record.seq = current.nextSeq + 1
    BY <1>3, <2>1 DEF Enqueue, db, calls, writer, limits, Item
  <2>3. /\ totals[current.id] <= current.nextSeq /\ (\A s \in events[current.id] : s <= current.nextSeq)
        /\ \A r \in OnTheWay : r.seq <= current.nextSeq
    <3>1. Takes(current.id) /\ NumberOf(current.id) = current.nextSeq /\ \A r \in OnTheWay : r.id = current.id
      BY <2>2, TakesFacts DEF NumberOf
    <3> QED
      BY <1>0, <2>1, <3>1 DEF UpToNumber
  <2>4. AboveStored'
    <3> SUFFICES ASSUME NEW r \in OnTheWay' PROVE totals[r.id] < r.seq /\ \A s \in events[r.id] : s < r.seq
      BY <2>2 DEF AboveStored
    <3>1. CASE r \in OnTheWay
      BY <1>0, <3>1 DEF AboveStored
    <3>2. CASE r = record
      <4>1. totals[current.id] \in Nat /\ \A s \in events[current.id] : s \in Nat
        BY <1>t, <2>1, StoreBounds DEF Seqs
      <4> QED
        BY <2>1, <2>2, <2>3, <3>2, <4>1
    <3> QED
      BY <2>1, <3>1, <3>2
  <2>5. UpToNumber'
    <3> SUFFICES ASSUME NEW id \in Ids, Takes(id)'
                 PROVE  /\ totals'[id] <= NumberOf(id)' /\ (\A s \in events'[id] : s <= NumberOf(id)')
                        /\ \A r \in OnTheWay' : r.id = id => r.seq <= NumberOf(id)'
      BY DEF UpToNumber
    <3>1. id = current.id /\ NumberOf(id)' = current.nextSeq + 1
      BY <2>1, <2>2, TakesFacts DEF Takes, NumberOf, Lends
    <3>2. totals[current.id] \in Nat /\ (\A s \in events[current.id] : s \in Nat) /\ \A r \in OnTheWay : r.seq \in Nat
      BY <1>t, <2>1, StoreBounds DEF Seqs
    <3> QED
      BY <2>1, <2>2, <2>3, <3>1, <3>2
  <2> QED
    BY <1>1, <1>p, <2>4, <2>5
<1>4. CASE ~StartRecording /\ ~Enqueue
  <2>1. OnTheWay' \subseteq OnTheWay
    BY <1>4, NextWay
  <2>2. \A id : Takes(id)' => Takes(id) /\ NumberOf(id)' = NumberOf(id)
    BY <1>4, NextTakes
  <2>3. CASE NoneAdded
    <3>1. UpToNumber'
      <4> SUFFICES ASSUME NEW id \in Ids, Takes(id)'
                   PROVE  /\ totals'[id] <= NumberOf(id)' /\ (\A s \in events'[id] : s <= NumberOf(id)')
                          /\ \A r \in OnTheWay' : r.id = id => r.seq <= NumberOf(id)'
        BY DEF UpToNumber
      <4>1. Takes(id) /\ NumberOf(id)' = NumberOf(id) /\ NumberOf(id) \in Nat
        BY <1>t, <2>2
      <4>2. /\ totals[id] <= NumberOf(id) /\ (\A s \in events[id] : s <= NumberOf(id))
            /\ \A r \in OnTheWay : r.id = id => r.seq <= NumberOf(id)
        BY <1>0, <4>1 DEF UpToNumber
      <4>3. totals'[id] <= NumberOf(id)
        BY <2>3, <4>1, <4>2 DEF NoneAdded
      <4> QED
        BY <2>1, <2>3, <4>1, <4>2, <4>3 DEF NoneAdded
    <3> QED
      BY <1>1, <1>n, <1>p, <2>1, <2>3, <3>1
  <2>4. CASE FlushStep
    <3>1. AboveStored'
          /\ \A id \in Ids : Takes(id) => totals'[id] <= NumberOf(id) /\ \A s \in events'[id] : s <= NumberOf(id)
      BY <2>4, FlushNumbers
    <3>2. UpToNumber'
      <4> SUFFICES ASSUME NEW id \in Ids, Takes(id)'
                   PROVE  /\ totals'[id] <= NumberOf(id)' /\ (\A s \in events'[id] : s <= NumberOf(id)')
                          /\ \A r \in OnTheWay' : r.id = id => r.seq <= NumberOf(id)'
        BY DEF UpToNumber
      <4>1. Takes(id) /\ NumberOf(id)' = NumberOf(id)
        BY <2>2
      <4>2. \A r \in OnTheWay : r.id = id => r.seq <= NumberOf(id)
        BY <1>0, <4>1 DEF UpToNumber
      <4> QED
        BY <2>1, <3>1, <4>1, <4>2
    <3> QED
      BY <1>1, <1>p, <3>1, <3>2
  <2> QED
    BY <2>3, <2>4, NextAdds
<1> QED
  BY <1>2, <1>3, <1>4

-----------------------------------------------------------------------------
(* Rows. *)

\* Only Start makes a row active; a row stops being active when its recording becomes
\* terminal, or at a restart.
LEMMA NextRows ==
    ASSUME StoreInv, [Next]_vars
    PROVE  /\ \A id \in Ids : rows'[id] = "active" => rows[id] = "active" \/ (StartRecording /\ id = nextId)
           /\ Restart \/ (terminal \subseteq terminal'
                          /\ \A id \in Ids : rows[id] = "active" => rows'[id] = "active" \/ id \in terminal')
           /\ \A id \in terminal' : id \in terminal \/ rows'[id] # "active" \/ DbFails
<1> USE DEF db, store, calls, limits, writer, history
<1>t. rows \in [Ids -> Statuses \cup {"none"}] /\ terminal \subseteq Ids
  BY TypeParts DEF StoreInv, DbOK, BatchOK
<1> DEFINE Goal == /\ \A id \in Ids : rows'[id] = "active" => rows[id] = "active"
                   /\ terminal \subseteq terminal'
                   /\ \A id \in Ids : rows[id] = "active" => rows'[id] = "active" \/ id \in terminal'
                   /\ \A id \in terminal' : id \in terminal \/ rows'[id] # "active" \/ DbFails
<1>u. UNCHANGED <<rows, terminal>> => Goal
  OBVIOUS
<1>s. ASSUME NEW i \in Ids, NEW st \in Statuses \ {"active"}, rows' = Stopped(i, st) \/ (DbFails /\ UNCHANGED rows),
             terminal' = terminal \cup {i}
      PROVE  Goal
  <2>1. CASE DbFails /\ UNCHANGED rows
    BY <1>s, <2>1
  <2>2. CASE rows' = Stopped(i, st)
    <3>1. rows'[i] # "active" /\ \A k \in Ids : k # i => rows'[k] = rows[k]
      BY <1>t, <2>2 DEF Stopped
    <3> QED
      BY <1>s, <3>1
  <2> QED
    BY <1>s, <2>1, <2>2
<1>d. ASSUME NEW i \in Ids, rows[i] # "active", Deleted(i) \/ DeletedPartly(i),
             terminal' = terminal \/ (Deleted(i) /\ terminal' = terminal \cup {i})
      PROVE  Goal
  <2>1. \A k \in Ids : rows'[k] = rows[k] \/ (k = i /\ rows'[k] = "none")
    BY <1>d, <1>t DEF Deleted, DeletedPartly
  <2>2. Deleted(i) => rows'[i] = "none"
    BY <1>t DEF Deleted
  <2> QED
    BY <1>d, <2>1, <2>2
<1>1. CASE StartRecording
  BY <1>1, <1>t DEF StartRecording
<1>2. CASE StopRecording \/ (\E id \in Ids : DeleteRecording(id)) \/ Shutdown \/ Expire
           \/ SendCommand \/ SendTimeout \/ WaitDone \/ WaitTimeout \/ Enqueue \/ UNCHANGED vars
  <2>1. UNCHANGED <<rows, terminal>>
    BY <1>2 DEF StopRecording, DeleteRecording, Shutdown, Expire, SendCommand, SendTimeout,
                WaitDone, WaitTimeout, Enqueue, vars
  <2> QED
    BY <1>u, <2>1
<1>3. CASE TakeRecord \/ DropRecord \/ TakeStart \/ RunStart \/ RunExpire \/ SweepOver \/ DurationTimer \/ SweepTimer
           \/ TakeCommand \/ FlushFull \/ FlushTimer \/ TakeDuration \/ TakeSweep
  <2>1. UNCHANGED <<rows, terminal>>
    BY <1>3 DEF TakeRecord, DropRecord, TakeStart, RunStart, RunExpire, SweepOver, DurationTimer, SweepTimer,
                TakeCommand, FlushFull, FlushTimer, TakeDuration, TakeSweep, FlushThen
  <2> QED
    BY <1>u, <2>1
<1>4. CASE MarkTerminal
  <2>1. mark.id \in Ids /\ mark.status \in Statuses \ {"active"}
    BY <1>4, TypeParts DEF MarkTerminal, StoreInv, WriterHolds, TurnOK, MarkType, Statuses
  <2>2. (rows' = Stopped(mark.id, mark.status) \/ (DbFails /\ UNCHANGED rows)) /\ terminal' = terminal \cup {mark.id}
    BY <1>4 DEF MarkTerminal, Ended
  <2> QED
    BY <1>s, <2>1, <2>2
<1>5. CASE RunStop
  <2>1. CASE cmd.id # None /\ cmd.id \notin terminal
    <3>1. cmd.id \in Ids /\ "stopped" \in Statuses \ {"active"}
      BY <2>1, TypeParts DEF StoreInv, TurnOK, CmdType, Statuses
    <3>2. (rows' = Stopped(cmd.id, "stopped") \/ (DbFails /\ UNCHANGED rows)) /\ terminal' = terminal \cup {cmd.id}
      BY <1>5, <2>1 DEF RunStop
    <3> QED
      BY <1>s, <3>1, <3>2
  <2>2. CASE ~(cmd.id # None /\ cmd.id \notin terminal)
    BY <1>5, <1>u, <2>2 DEF RunStop
  <2> QED
    BY <2>1, <2>2
<1>6. CASE RunDelete
  <2>1. cmd.id \in Ids
    BY <1>6, TypeParts DEF RunDelete, Runs, StoreInv, Commands, TurnOK, CmdType
  <2>2. CASE Deletable(cmd.id) /\ Deleted(cmd.id) /\ terminal' = terminal \cup {cmd.id}
    BY <1>d, <2>1, <2>2 DEF Deletable
  <2>3. CASE UNCHANGED <<rows, terminal>>
    BY <1>u, <2>3
  <2> QED
    BY <1>6, <2>2, <2>3 DEF RunDelete, DeletedPartly
<1>7. CASE SweepDelete
  <2>1. PICK oldest \in Candidates : Deleted(oldest) \/ DeletedPartly(oldest)
    BY <1>7 DEF SweepDelete
  <2>2. oldest \in Ids /\ rows[oldest] # "active" /\ terminal' = terminal
    BY <1>7 DEF SweepDelete, Candidates, Deletable
  <2> QED
    BY <1>d, <2>1, <2>2
<1>8. CASE Restart
  BY <1>8, <1>t DEF Restart
<1> QED
  BY <1>1, <1>2, <1>3, <1>4, <1>5, <1>6, <1>7, <1>8 DEF Next, CallStep, WriterStep

\* What may still be written was so before, or is the recording Start has just created.
Writable1(id) == Takes(id) \/ \E r \in OnTheWay : r.id = id
LEMMA NextWritable ==
    ASSUME StoreInv, [Next]_vars, NEW id \in Ids, Writable1(id)'
    PROVE  ~Restart /\ (Writable1(id) \/ (StartRecording /\ id = nextId))
<1>1. ~Restart
  <2> SUFFICES ASSUME Restart PROVE FALSE
    OBVIOUS
  <2>1. items' = <<>> /\ batch' = <<>> /\ op' = NoOp /\ current' = Nobody
    BY DEF Restart
  <2>2. Records(items') = {} /\ Records(batch') = {} /\ NoOp.kind = "none" /\ Nobody.id = None
    BY <2>1, RecordsEmpty DEF NoOp, Nobody
  <2>3. ~Takes(id)'
    BY <2>1, <2>2 DEF Takes, Lends
  <2> QED
    BY <2>2, <2>3 DEF Writable1, OnTheWay
<1>2. CASE StartRecording
  <2>1. op' = Op("start", "send", [id |-> nextId, nextSeq |-> 0]) /\ UNCHANGED <<current, items, batch>>
        /\ current = Nobody
    BY <1>2 DEF StartRecording, store, writer
  <2>2. op'.active.id = nextId /\ Nobody.id = None
    BY <2>1 DEF Op, NoOp, Nobody
  <2>3. OnTheWay' = OnTheWay
    BY <2>1 DEF OnTheWay
  <2>4. Takes(id)' => id = nextId
    BY <2>1, <2>2 DEF Takes
  <2> QED
    BY <1>1, <1>2, <2>3, <2>4 DEF Writable1
<1>3. CASE Enqueue
  <2>1. PICK record \in ItemType :
              /\ record = Item("record", current.id, current.nextSeq + 1, None)
              /\ current'.id = current.id /\ OnTheWay' \subseteq OnTheWay \cup {record}
    BY <1>3, EnqueueFacts
  <2>2. record.id = current.id /\ op' = op /\ current # Nobody
    BY <1>3, <2>1 DEF Item, Enqueue, calls
  <2>3. Takes(current.id)
    BY <2>2, TakesFacts
  <2>4. Takes(id)' => Takes(id)
    BY <2>1, <2>2 DEF Takes, Lends
  <2> QED
    BY <1>1, <2>1, <2>2, <2>3, <2>4 DEF Writable1
<1>4. CASE ~StartRecording /\ ~Enqueue
  BY <1>1, <1>4, NextWay, NextTakes DEF Writable1
<1> QED
  BY <1>2, <1>3, <1>4

LEMMA NextRowsFollow ==
    ASSUME StoreInv, [Next]_vars
    PROVE  RowsFollow'
<1> USE DEF db, store, calls, limits, writer, history
<1>0. /\ \A id \in Ids : Writable1(id) => id \in terminal \/ rows[id] = "active"
      /\ \A id \in terminal : rows[id] # "active" \/ DbFails
      /\ op.kind = "stop" /\ op.done => rows[op.active.id] # "active" \/ DbFails
      /\ exited /\ closing # None => rows[closing] # "active" \/ DbFails
  BY DEF StoreInv, RowsFollow, Writable1
<1>t. /\ op \in OpType /\ op.active \in Active /\ terminal \subseteq Ids /\ closing \in Ids \cup {None}
      /\ terminal' \subseteq Ids /\ rows \in [Ids -> Statuses \cup {"none"}] /\ nextId \in 1..MaxId + 1
  <2>1. terminal' \subseteq Ids
    BY NextTypes DEF TypeOK
  <2> QED
    BY <2>1, TypeParts DEF StoreInv, DbOK, SessionOK, CallOK, BatchOK, OpType
<1>r. /\ \A id \in Ids : rows'[id] = "active" => rows[id] = "active" \/ (StartRecording /\ id = nextId)
      /\ Restart \/ (terminal \subseteq terminal'
                     /\ \A id \in Ids : rows[id] = "active" => rows'[id] = "active" \/ id \in terminal')
      /\ \A id \in terminal' : id \in terminal \/ rows'[id] # "active" \/ DbFails
  BY NextRows
<1>a. \A id \in Ids : id < nextId => id # nextId
  BY <1>t, StoreBounds DEF Ids
<1>1. \A id \in Ids : Writable1(id)' => id \in terminal' \/ rows'[id] = "active"
  <2> SUFFICES ASSUME NEW id \in Ids, Writable1(id)' PROVE id \in terminal' \/ rows'[id] = "active"
    OBVIOUS
  <2>1. ~Restart /\ (Writable1(id) \/ (StartRecording /\ id = nextId))
    BY NextWritable
  <2>2. CASE Writable1(id)
    BY <1>0, <1>r, <2>1, <2>2
  <2>3. CASE StartRecording /\ id = nextId
    BY <1>t, <2>3 DEF StartRecording
  <2> QED
    BY <2>1, <2>2, <2>3
<1>2. \A id \in terminal' : rows'[id] # "active" \/ DbFails
  <2> SUFFICES ASSUME NEW id \in terminal', id \in terminal, rows'[id] = "active" PROVE DbFails
    BY <1>r
  <2>1. id \in Ids /\ id < nextId
    BY <1>t DEF StoreInv, Unused
  <2> QED
    BY <1>0, <1>a, <1>r, <2>1
<1>3. op'.kind = "stop" /\ op'.done => rows'[op'.active.id] # "active" \/ DbFails
  <2> SUFFICES ASSUME op'.kind = "stop", op'.done PROVE rows'[op'.active.id] # "active" \/ DbFails
    OBVIOUS
  <2>k. ASSUME op.kind = "stop", op.done, op'.active = op.active PROVE rows'[op'.active.id] # "active" \/ DbFails
    <3>1. op.active.id \in Ids /\ op.active.id < nextId
      BY <1>t, <2>k DEF StoreInv, CallsHold, Unused, Active
    <3> QED
      BY <1>0, <1>a, <1>r, <2>k, <3>1
  <2>n. NoOp.kind = "none" /\ \A k, p, a : Op(k, p, a).done = FALSE
    BY DEF NoOp, Op
  <2>1. CASE StartRecording \/ StopRecording \/ (\E id \in Ids : DeleteRecording(id)) \/ Shutdown
    <3>1. \E k, p, a : op' = Op(k, p, a)
      BY <2>1 DEF StartRecording, StopRecording, DeleteRecording, Shutdown
    <3> QED
      BY <2>n, <3>1
  <2>2. CASE SendTimeout \/ WaitDone \/ WaitTimeout \/ Restart
    BY <2>2, <2>n DEF SendTimeout, WaitDone, WaitTimeout, Restart
  <2>3. CASE Expire \/ SendCommand
    <3>1. op'.kind = op.kind /\ op'.done = op.done /\ op'.active = op.active
      BY <1>t, <2>3 DEF Expire, SendCommand, OpType
    <3> QED
      BY <2>k, <3>1
  <2>4. CASE UNCHANGED op
    BY <2>4, <2>k
  <2>5. CASE WriterStep
    <3>1. op'.kind = op.kind /\ op'.pc = op.pc /\ op'.active = op.active
      BY <2>5, WriterCalls, AnsweredFacts
    <3>2. CASE op.done
      BY <2>k, <3>1, <3>2
    <3>3. CASE ~op.done
      <4>1. ~TakeStart
        <5> SUFFICES ASSUME TakeStart PROVE FALSE
          OBVIOUS
        <5>1. op' = op \/ op' = Replied(Head(items), FALSE)
          BY DEF TakeStart
        <5>2. Head(items).op = opNo /\ op.pc = "wait"
          BY <3>3, <5>1, RepliedFacts
        <5>3. Head(items) = items[1] /\ 1 \in DOMAIN items /\ Head(items).kind = "start"
          BY TakenFacts DEF TakeStart
        <5>4. Head(items).kind = op.kind
          BY <5>2, <5>3 DEF StoreInv, Commands, OfItsCall
        <5> QED
          BY <3>1, <5>3, <5>4
      <4>2. CASE RunStart \/ RunStop \/ RunDelete
        <5>1. \E f \in BOOLEAN : op' = Replied(cmd, f)
          BY <4>2 DEF RunStart, RunStop, RunDelete
        <5>2. cmd.op = opNo /\ op.pc = "wait"
          BY <3>3, <5>1, RepliedFacts
        <5>3. cmd.kind = op.kind /\ cmd.id = op.active.id
          BY <5>2 DEF StoreInv, Commands, OfItsCall
        <5>4. RunStop /\ cmd.id # None
          BY <3>1, <4>2, <5>3 DEF RunStart, RunDelete, Runs, StoreInv, Commands
        <5>5. cmd.id \in terminal'
          BY <5>4 DEF RunStop
        <5> QED
          BY <1>2, <3>1, <5>3, <5>5
      <4>3. RunStart \/ RunStop \/ RunDelete \/ UNCHANGED op
        BY <2>5, <4>1 DEF WriterStep, TakeRecord, DropRecord, TakeCommand, FlushFull, FlushTimer, TakeDuration,
             TakeSweep, FlushThen, MarkTerminal, RunExpire, SweepDelete, SweepOver
      <4> QED
        BY <2>4, <4>2, <4>3
    <3> QED
      BY <3>2, <3>3
  <2>6. CASE Enqueue \/ DurationTimer \/ SweepTimer \/ UNCHANGED vars
    BY <2>4, <2>6 DEF Enqueue, DurationTimer, SweepTimer, vars
  <2> QED
    BY <2>1, <2>2, <2>3, <2>5, <2>6 DEF Next, CallStep
<1>4. exited' /\ closing' # None => rows'[closing'] # "active" \/ DbFails
  <2> SUFFICES ASSUME exited', closing' # None PROVE rows'[closing'] # "active" \/ DbFails
    OBVIOUS
  <2>1. CASE RunStop
    <3>1. cmd.kind = "close" /\ closing' = closing
      BY <2>1 DEF RunStop, Returns
    <3>2. cmd.id = closing
      BY <3>1 DEF StoreInv, Commands
    <3>3. cmd.id \in terminal'
      BY <2>1, <3>1, <3>2 DEF RunStop
    <3> QED
      BY <1>2, <3>1, <3>2, <3>3
  <2>2. CASE exited /\ closing' = closing
    <3>1. closing \in Ids /\ closing < nextId
      BY <1>t, <2>2 DEF StoreInv, Unused
    <3> QED
      BY <1>0, <1>a, <1>r, <2>2, <3>1
  <2>3. exited => closed
    BY DEF StoreInv, Commands, CallsHold
  <2>4. CASE StartRecording \/ StopRecording \/ (\E id \in Ids : DeleteRecording(id)) \/ Shutdown \/ Expire
             \/ SendCommand \/ SendTimeout \/ WaitDone \/ WaitTimeout \/ Enqueue \/ UNCHANGED vars
    <3>1. exited' = exited /\ (exited => closing' = closing)
      BY <2>3, <2>4 DEF StartRecording, StopRecording, DeleteRecording, Shutdown, Expire, SendCommand, SendTimeout,
                  WaitDone, WaitTimeout, Enqueue, vars
    <3> QED
      BY <2>2, <3>1
  <2>5. CASE TakeRecord \/ DropRecord \/ TakeStart \/ RunStart \/ RunExpire \/ SweepOver \/ DurationTimer \/ SweepTimer
             \/ TakeCommand \/ FlushFull \/ FlushTimer \/ TakeDuration \/ TakeSweep \/ MarkTerminal \/ RunDelete
             \/ SweepDelete
    <3>1. exited' = exited /\ closing' = closing
      BY <2>5 DEF TakeRecord, DropRecord, TakeStart, RunStart, RunExpire, SweepOver, DurationTimer, SweepTimer,
                  TakeCommand, FlushFull, FlushTimer, TakeDuration, TakeSweep, FlushThen, MarkTerminal, RunDelete,
                  SweepDelete
    <3> QED
      BY <2>2, <3>1
  <2>6. ~Restart
    BY DEF Restart
  <2> QED
    BY <2>1, <2>4, <2>5, <2>6 DEF Next, CallStep, WriterStep
<1> QED
  BY <1>1, <1>2, <1>3, <1>4 DEF RowsFollow, Writable1

-----------------------------------------------------------------------------
(* Commands. *)

\* What holds of a command or a record wherever it is in the queue.
Queued(c) ==
    /\ IF IsRecord(c) THEN c = Item("record", c.id, c.seq, None) /\ c.id # None /\ c.seq # None
       ELSE c.seq = None
    /\ OfItsCall(c)
    /\ c.kind \in {"start", "stop", "delete"} => c.id # None
    /\ c.kind = "start" => NotStarted(c)
    /\ c.kind = "close" => closeSent /\ c.id = closing

\* Nothing follows such a command.
IsLast(c) == (Lends /\ op.pc = "wait" /\ c.op = opNo) \/ c.kind = "close"

InHand ==
    /\ OfItsCall(cmd)
    /\ cmd.kind \in {"start", "stop", "delete"} => cmd.id # None
    /\ cmd.kind = "start" => NotStarted(cmd)
    /\ Lends /\ op.pc = "wait" /\ (cmd.op = opNo \/ op.done) => items = <<>>
    /\ cmd.kind = "close" => closeSent /\ cmd.id = closing /\ items = <<>>
Over == exited => closeSent /\ items = <<>> /\ batch = <<>>

LEMMA CommandParts ==
    Commands <=> /\ \A j \in DOMAIN items : Queued(items[j]) /\ (IsLast(items[j]) => j = Len(items))
                 /\ InHand /\ Over
  BY DEF Commands, Queued, IsLast, InHand, Over

\* Where the command in the writer's hands comes from.
LEMMA CmdMoves ==
    ASSUME StoreInv, [Next]_vars
    PROVE  \/ cmd' = cmd
           \/ cmd'.op = None /\ cmd'.kind \notin {"start", "stop", "delete", "close"}
           \/ Taken /\ ~IsRecord(Head(items)) /\ cmd' = Head(items) /\ cmd = NoCmd /\ ~exited
<1> USE DEF db, store, calls, limits, writer, history
<1>i. \A k, i : Item(k, i, None, None).op = None /\ Item(k, i, None, None).kind = k
  BY DEF Item
<1>n. NoCmd.op = None /\ NoCmd.kind = "none"
  BY DEF NoCmd, Item
<1>1. CASE StartRecording \/ StopRecording \/ (\E id \in Ids : DeleteRecording(id)) \/ Shutdown \/ Expire
           \/ SendCommand \/ SendTimeout \/ WaitDone \/ WaitTimeout \/ Enqueue \/ UNCHANGED vars
           \/ DropRecord \/ MarkTerminal \/ DurationTimer \/ SweepTimer
  BY <1>1 DEF StartRecording, StopRecording, DeleteRecording, Shutdown, Expire, SendCommand, SendTimeout,
              WaitDone, WaitTimeout, Enqueue, vars, DropRecord, MarkTerminal, DurationTimer, SweepTimer
<1>2. CASE TakeRecord
  BY <1>2, <1>i DEF TakeRecord
<1>3. CASE TakeStart
  BY <1>3 DEF TakeStart, Select, WriterFree, IsRecord
<1>4. CASE TakeCommand
  BY <1>4 DEF TakeCommand, FlushThen, Select, WriterFree, IsRecord
<1>5. CASE FlushFull \/ FlushTimer \/ TakeDuration \/ TakeSweep
  BY <1>5, <1>i, <1>n DEF FlushFull, FlushTimer, TakeDuration, TakeSweep, FlushThen
<1>6. CASE RunStart \/ RunExpire \/ RunStop \/ RunDelete \/ SweepOver
  BY <1>6, <1>n DEF RunStart, RunExpire, RunStop, RunDelete, SweepOver, CmdOver
<1>7. CASE SweepDelete
  BY <1>7, <1>n DEF SweepDelete, CmdOver
<1>8. CASE Restart
  BY <1>8, <1>i DEF Restart
<1> QED
  BY <1>1, <1>2, <1>3, <1>4, <1>5, <1>6, <1>7, <1>8 DEF Next, CallStep, WriterStep

\* A call becomes done only by the writer's answer to its command, which is then gone.
LEMMA DoneMoves ==
    ASSUME StoreInv, [Next]_vars, op'.done, ~op.done
    PROVE  /\ opNo' = opNo /\ op.pc = "wait" /\ op'.pc = "wait" /\ op'.kind = op.kind
           /\ \/ TakeStart /\ Head(items).op = opNo /\ cmd' = cmd /\ cmd = NoCmd
              \/ cmd.op = opNo /\ cmd' = NoCmd /\ UNCHANGED <<items, batch>>
                 /\ cmd.kind \in {"start", "stop", "delete", "close"}
<1> USE DEF db, store, calls, limits, writer, history
<1>0. op \in OpType
  BY TypeParts DEF StoreInv, CallOK
<1>o. \A k, p, a : Op(k, p, a).done = FALSE
  BY DEF Op, NoOp
<1>n. NoOp.done = FALSE
  BY DEF NoOp
<1>1. CASE StartRecording \/ StopRecording \/ (\E id \in Ids : DeleteRecording(id)) \/ Shutdown
  <2>1. \E k, p, a : op' = Op(k, p, a)
    <3>1. CASE StartRecording
      BY <3>1 DEF StartRecording
    <3>2. CASE StopRecording
      BY <3>2 DEF StopRecording
    <3>3. CASE \E id \in Ids : DeleteRecording(id)
      BY <3>3 DEF DeleteRecording
    <3>4. CASE Shutdown
      BY <3>4 DEF Shutdown
    <3> QED
      BY <1>1, <3>1, <3>2, <3>3, <3>4
  <2> QED
    BY <1>o, <2>1
<1>2. CASE SendTimeout \/ WaitDone \/ WaitTimeout \/ Restart
  BY <1>2, <1>n DEF SendTimeout, WaitDone, WaitTimeout, Restart
<1>3. CASE Expire \/ SendCommand
  BY <1>0, <1>3 DEF Expire, SendCommand, OpType
<1>4. CASE op' = op
  BY <1>4
<1>5. CASE TakeStart
  <2>1. op' = Replied(Head(items), FALSE) /\ cmd' = cmd /\ opNo' = opNo /\ cmd = NoCmd
    BY <1>5 DEF TakeStart, Select, WriterFree
  <2> QED
    BY <1>5, <2>1, RepliedFacts
<1>6. CASE RunStart \/ RunStop \/ RunDelete
  <2>1. PICK f \in BOOLEAN : op' = Replied(cmd, f)
    BY <1>6 DEF RunStart, RunStop, RunDelete
  <2>2. cmd' = NoCmd /\ UNCHANGED <<items, batch>> /\ opNo' = opNo
        /\ cmd.kind \in {"start", "stop", "delete", "close"}
    BY <1>6 DEF RunStart, RunStop, RunDelete, CmdOver, Runs
  <2> QED
    BY <2>1, <2>2, RepliedFacts
<1> QED
  BY <1>1, <1>2, <1>3, <1>4, <1>5, <1>6
     DEF Next, CallStep, WriterStep, TakeRecord, DropRecord, TakeCommand, FlushFull, FlushTimer, FlushThen, Enqueue,
         TakeDuration, TakeSweep, MarkTerminal, RunExpire, SweepDelete, SweepOver, DurationTimer, SweepTimer, vars

\* How the call moves: to a new call, one field on, back to none, or answered.
LEMMA CallMoves ==
    ASSUME StoreInv, [Next]_vars, ~Restart
    PROVE  \/ opNo' = opNo + 1 /\ op.pc = "idle" /\ op.kind = "none"
           \/ SendCommand /\ opNo' = opNo /\ op'.pc = "wait" /\ op'.kind = op.kind /\ op'.active = op.active
              /\ op'.done = FALSE
           \/ opNo' = opNo /\ op' = NoOp
           \/ opNo' = opNo /\ op'.pc = op.pc /\ op'.kind = op.kind /\ op'.active = op.active
<1> USE DEF db, store, calls, limits, writer, history
<1>0. op \in OpType /\ CallsHold
  BY TypeParts DEF StoreInv, CallOK
<1>1. CASE StartRecording \/ StopRecording \/ (\E id \in Ids : DeleteRecording(id)) \/ Shutdown
  <2>1. Calls
    BY <1>1 DEF StartRecording, StopRecording, DeleteRecording, Shutdown
  <2> QED
    BY <1>0, <2>1 DEF Calls, CallsHold
<1>2. CASE SendTimeout \/ WaitDone \/ WaitTimeout
  BY <1>2 DEF SendTimeout, WaitDone, WaitTimeout
<1>3. CASE Expire
  BY <1>0, <1>3 DEF Expire, OpType
<1>4. CASE SendCommand
  <2>1. op.pc = "send" /\ op' = [op EXCEPT !.pc = "wait"] /\ opNo' = opNo
    BY <1>4 DEF SendCommand
  <2>2. op.done = FALSE
    BY <1>0, <2>1 DEF CallsHold, OpType
  <2> QED
    BY <1>0, <1>4, <2>1, <2>2 DEF OpType
<1>5. CASE WriterStep \/ DurationTimer \/ SweepTimer
  <2>1. Answered
    BY <1>5, WriterCalls
  <2> QED
    BY <2>1, AnsweredFacts
<1>6. CASE UNCHANGED vars \/ Enqueue
  BY <1>6 DEF vars, Enqueue
<1> QED
  BY <1>1, <1>2, <1>3, <1>4, <1>5, <1>6 DEF Next, CallStep

LEMMA CallKept ==
    ASSUME StoreInv, [Next]_vars, ~Restart, NEW c \in ItemType \cup CmdType, OfItsCall(c),
           c.op = opNo /\ op'.done => op.done
    PROVE  OfItsCall(c)'
<1>0. /\ op \in OpType /\ CallsHold /\ NoOp.pc = "idle" /\ opNo \in Int /\ c.op \in Int
      /\ c.op <= opNo /\ (op.pc = "send" => c.op < opNo)
      /\ op.pc = "wait" /\ c.op = opNo => c.kind = op.kind /\ c.id = op.active.id /\ ~op.done
  <2>1. opNo \in Int /\ c.op \in Int
    BY TypeParts, StoreBounds DEF StoreInv, CallOK, ItemType, CmdType
  <2> QED
    BY <2>1, TypeParts DEF StoreInv, CallOK, NoOp, OfItsCall
<1>1. CASE opNo' = opNo + 1
  <2>1. c.op < opNo'
    BY <1>0, <1>1
  <2> QED
    BY <1>0, <1>1, <2>1 DEF OfItsCall
<1>2. CASE SendCommand /\ opNo' = opNo /\ op'.pc = "wait"
  <2>1. c.op < opNo'
    BY <1>0, <1>2 DEF SendCommand
  <2> QED
    BY <1>0, <1>2, <2>1 DEF OfItsCall
<1>3. CASE opNo' = opNo /\ op' = NoOp
  BY <1>0, <1>3 DEF OfItsCall
<1>4. CASE opNo' = opNo /\ op'.pc = op.pc /\ op'.kind = op.kind /\ op'.active = op.active
  BY <1>0, <1>4 DEF OfItsCall
<1> QED
  BY <1>1, <1>2, <1>3, <1>4, CallMoves

LEMMA NotStartedKept ==
    ASSUME StoreInv, [Next]_vars, ~Restart, NEW c \in ItemType \cup CmdType, OfItsCall(c), NotStarted(c),
           c.id # None, c.id < nextId
    PROVE  NotStarted(c)'
<1> USE DEF db, store, calls, limits, writer, history
<1>0. /\ op \in OpType /\ CallsHold /\ NoOp.kind = "none" /\ Nobody.id = None /\ c.id \in Int /\ nextId \in Int
      /\ \A k, p, a : Op(k, p, a).kind = k /\ Op(k, p, a).active = a
  <2>1. c.id \in Int /\ nextId \in Int
    BY TypeParts, StoreBounds DEF StoreInv, DbOK, ItemType, CmdType, Ids, None
  <2> QED
    BY <2>1, TypeParts DEF StoreInv, CallOK, NoOp, Nobody, Op
<1>n. /\ c.id # current.id /\ \A r \in OnTheWay : r.id # c.id
      /\ op.kind = "stop" => op.active.id # c.id
      /\ op.kind = "start" /\ op.active.id = c.id => op.pc = "wait" /\ c.op = opNo
  BY DEF NotStarted
<1>1. c.id # current'.id
  <2>1. CASE Enqueue
    <3>1. current'.id = current.id
      BY <2>1, EnqueueFacts
    <3> QED
      BY <1>n, <3>1
  <2>2. CASE SendTimeout
    BY <1>n, <2>2 DEF SendTimeout, Restored
  <2>3. CASE WaitDone
    <3>1. CASE op.kind = "start"
      <4>1. op.pc = "wait" /\ op.done /\ current' = op.active
        BY <2>3, <3>1 DEF WaitDone
      <4>2. op.active.id # c.id
        BY <1>n, <3>1, <4>1 DEF OfItsCall
      <4> QED
        BY <4>1, <4>2
    <3>2. CASE op.kind # "start"
      BY <1>n, <2>3, <3>2 DEF WaitDone
    <3> QED
      BY <3>1, <3>2
  <2>4. CASE current' = current \/ current' = Nobody
    BY <1>0, <1>n, <2>4
  <2>5. CASE WriterStep \/ DurationTimer \/ SweepTimer
    BY <2>4, <2>5, WriterCalls DEF Cleared
  <2>6. CASE StartRecording \/ StopRecording \/ (\E id \in Ids : DeleteRecording(id)) \/ Shutdown \/ Expire
             \/ SendCommand \/ WaitTimeout \/ UNCHANGED vars
    BY <2>4, <2>6 DEF StartRecording, StopRecording, DeleteRecording, Shutdown, Expire, SendCommand, WaitTimeout, vars
  <2> QED
    BY <2>1, <2>2, <2>3, <2>5, <2>6 DEF Next, CallStep
<1>2. \A r \in OnTheWay' : r.id # c.id
  <2>1. CASE Enqueue
    <3>1. PICK record \in ItemType : /\ record = Item("record", current.id, current.nextSeq + 1, None)
                                     /\ OnTheWay' \subseteq OnTheWay \cup {record}
      BY <2>1, EnqueueFacts
    <3>2. record.id = current.id
      BY <3>1 DEF Item
    <3> QED
      BY <1>n, <3>1, <3>2
  <2>2. CASE ~Enqueue
    BY <1>n, <2>2, NextWay
  <2> QED
    BY <2>1, <2>2
<1>3. /\ op'.kind = "stop" => op'.active.id # c.id
      /\ op'.kind = "start" /\ op'.active.id = c.id => op'.pc = "wait" /\ c.op = opNo'
  <2>1. CASE StartRecording
    <3>1. op'.kind = "start" /\ op'.active = [id |-> nextId, nextSeq |-> 0]
      BY <1>0, <2>1 DEF StartRecording
    <3>2. op'.active.id # c.id
      BY <1>0, <3>1
    <3> QED
      BY <3>1, <3>2
  <2>2. CASE StopRecording
    <3>1. op'.kind = "stop" /\ op'.active = current
      BY <1>0, <2>2 DEF StopRecording
    <3> QED
      BY <1>n, <3>1
  <2>3. CASE (\E id \in Ids : DeleteRecording(id)) \/ Shutdown
    <3>1. CASE Shutdown
      <4>1. PICK p, a : op' = Op("close", p, a)
        BY <3>1 DEF Shutdown
      <4>2. op'.kind = "close"
        BY <1>0, <4>1
      <4> QED
        BY <4>2
    <3>2. CASE \E id \in Ids : DeleteRecording(id)
      <4>1. op'.kind = "delete"
        BY <1>0, <3>2 DEF DeleteRecording
      <4> QED
        BY <4>1
    <3> QED
      BY <2>3, <3>1, <3>2
  <2>4. ASSUME opNo' = opNo
        PROVE  /\ op'.kind = "stop" => op'.active.id # c.id
               /\ op'.kind = "start" /\ op'.active.id = c.id => op'.pc = "wait" /\ c.op = opNo'
    <3>1. op' = NoOp \/ (op'.kind = op.kind /\ op'.active = op.active /\ (op'.pc = op.pc \/ op'.pc = "wait"))
      <4>1. opNo' # opNo + 1
        BY <2>4, TypeParts, StoreBounds DEF StoreInv, CallOK
      <4> QED
        BY <4>1, CallMoves
    <3> QED
      BY <1>0, <1>n, <2>4, <3>1
  <2>5. CASE WriterStep \/ DurationTimer \/ SweepTimer
    BY <2>4, <2>5, WriterCalls, AnsweredFacts
  <2>6. CASE Expire \/ SendCommand \/ SendTimeout \/ WaitDone \/ WaitTimeout \/ Enqueue \/ UNCHANGED vars
    BY <2>4, <2>6 DEF Expire, SendCommand, SendTimeout, WaitDone, WaitTimeout, Enqueue, vars
  <2> QED
    BY <2>1, <2>2, <2>3, <2>5, <2>6 DEF Next, CallStep
<1> QED
  BY <1>1, <1>2, <1>3 DEF NotStarted

\* How the queue moves: an item goes at the end, the first is taken, or nothing.
LEMMA ItemMoves ==
    ASSUME StoreInv, [Next]_vars, ~Restart, ~SendCommand, ~Enqueue, NEW j \in DOMAIN items'
    PROVE  \E i \in DOMAIN items :
              /\ items'[j] = items[i] /\ (i = Len(items) => j = Len(items'))
              /\ (items' = items /\ i = j) \/ (Taken /\ i = j + 1)
<1>s. items \in Seq(ItemType)
  BY WayFacts
<1>1. Taken \/ items' = items
  BY DEF Next, CallStep, WriterStep, db, store, calls, limits, writer, history, vars, StartRecording, StopRecording,
         DeleteRecording, Shutdown, Expire, SendTimeout, WaitDone, WaitTimeout, TakeRecord, DropRecord, TakeStart,
         TakeCommand, FlushFull, FlushTimer, TakeDuration, TakeSweep, MarkTerminal, RunStart, RunExpire, RunStop,
         RunDelete, SweepDelete, SweepOver, DurationTimer, SweepTimer
<1>2. CASE items' = items
  BY <1>2
<1>3. CASE Taken
  <2>1. /\ j + 1 \in DOMAIN items /\ items'[j] = items[j + 1] /\ Len(items') = Len(items) - 1
        /\ Len(items) \in Nat \ {0} /\ items' \in Seq(ItemType)
    BY <1>3, TakenFacts
  <2>2. j \in Nat
    BY <2>1
  <2>3. j + 1 = Len(items) => j = Len(items')
    BY <2>1, <2>2
  <2> QED
    BY <1>3, <2>1, <2>3
<1> QED
  BY <1>1, <1>2, <1>3

\* A close command on its way: closing is fixed, and nothing more is sent or published.
LEMMA CloseKept ==
    ASSUME StoreInv, [Next]_vars, ~Restart, closeSent
    PROVE  closeSent' /\ closing' = closing /\ ~SendCommand /\ ~Enqueue
<1> USE DEF db, store, calls, limits, writer, history
<1>0. closed /\ op.kind \in {"none", "close"} /\ (op.kind = "close" => op.pc # "send") /\ op \in OpType
      /\ (op.kind = "none" => op.pc = "idle")
  BY TypeParts DEF StoreInv, CallsHold, CallOK
<1>1. ~SendCommand /\ ~Enqueue
  BY <1>0 DEF SendCommand, Enqueue
<1>2. CASE Shutdown
  BY <1>0, <1>1, <1>2 DEF Shutdown
<1>3. CASE WriterStep \/ DurationTimer \/ SweepTimer
  BY <1>1, <1>3, WriterCalls
<1>4. CASE StartRecording \/ StopRecording \/ (\E id \in Ids : DeleteRecording(id)) \/ Expire
           \/ SendTimeout \/ WaitDone \/ WaitTimeout \/ UNCHANGED vars
  BY <1>1, <1>4 DEF StartRecording, StopRecording, DeleteRecording, Expire, SendTimeout, WaitDone, WaitTimeout, vars
<1> QED
  BY <1>1, <1>2, <1>3, <1>4 DEF Next, CallStep

LEMMA LastKept ==
    ASSUME StoreInv, [Next]_vars, ~Restart, ~SendCommand, NEW c \in ItemType \cup CmdType, c.op <= opNo
    PROVE  Lends' /\ op'.pc = "wait" /\ c.op = opNo' => Lends /\ op.pc = "wait" /\ c.op = opNo
<1>1. opNo \in Int /\ c.op \in Int /\ NoOp.pc = "idle"
  BY TypeParts, StoreBounds DEF StoreInv, CallOK, ItemType, CmdType, NoOp
<1>2. CASE opNo' = opNo + 1
  BY <1>1, <1>2
<1>3. CASE opNo' = opNo /\ op' = NoOp
  BY <1>1, <1>3
<1>4. CASE opNo' = opNo /\ op'.pc = op.pc /\ op'.kind = op.kind
  BY <1>4 DEF Lends
<1> QED
  BY <1>2, <1>3, <1>4, CallMoves

\* A command of the queue that is not answered by the step keeps what holds of it.
LEMMA QueuedKept ==
    ASSUME StoreInv, [Next]_vars, ~Restart, NEW i \in DOMAIN items, NEW c, c = items[i],
           c.op = opNo /\ op'.done => op.done
    PROVE  /\ Queued(c)' /\ c \in ItemType
           /\ ~SendCommand /\ IsLast(c)' => i = Len(items)
<1>0. Queued(c) /\ (IsLast(c) => i = Len(items)) /\ c \in ItemType /\ c.id < nextId
  BY CommandParts, WayFacts DEF StoreInv, Unused
<1>1. OfItsCall(c)'
  <2>1. OfItsCall(c)
    BY <1>0 DEF Queued
  <2> QED
    BY <1>0, <2>1, CallKept
<1>2. c.kind = "start" => NotStarted(c)'
  <2> SUFFICES ASSUME c.kind = "start" PROVE NotStarted(c)'
    OBVIOUS
  <2>1. OfItsCall(c) /\ NotStarted(c) /\ c.id # None
    BY <1>0 DEF Queued
  <2> QED
    BY <1>0, <2>1, NotStartedKept
<1>3. c.kind = "close" => closeSent' /\ c.id = closing'
  BY <1>0, CloseKept DEF Queued
<1>4. Queued(c)'
  BY <1>0, <1>1, <1>2, <1>3 DEF Queued
<1>5. ~SendCommand /\ IsLast(c)' => i = Len(items)
  <2>1. c.op <= opNo
    BY <1>0 DEF Queued, OfItsCall
  <2>2. ~SendCommand /\ IsLast(c)' => IsLast(c)
    BY <1>0, <2>1, LastKept DEF IsLast
  <2> QED
    BY <1>0, <2>2
<1> QED
  BY <1>0, <1>4, <1>5

\* The commands that stay are not the one the writer has answered.
LEMMA StaysUnanswered ==
    ASSUME StoreInv, [Next]_vars, ~Restart, op'.done, ~op.done
    PROVE  /\ \A i \in DOMAIN items : items[i].op = opNo => TakeStart /\ i = 1
           /\ cmd.op = opNo => cmd' = NoCmd
<1>1. /\ opNo' = opNo /\ op.pc = "wait"
      /\ \/ TakeStart /\ Head(items).op = opNo /\ cmd' = cmd /\ cmd = NoCmd
         \/ cmd.op = opNo /\ cmd' = NoCmd
  BY DoneMoves
<1>2. AskedOnce
  BY DEF StoreInv
<1>3. CASE TakeStart /\ Head(items).op = opNo /\ cmd' = cmd /\ cmd = NoCmd
  <2>1. 1 \in DOMAIN items /\ items[1].op = opNo
    BY <1>3, TakenFacts DEF TakeStart
  <2> QED
    BY <1>1, <1>2, <1>3, <2>1 DEF AskedOnce
<1>4. CASE cmd.op = opNo /\ cmd' = NoCmd
  BY <1>1, <1>2, <1>4 DEF AskedOnce
<1> QED
  BY <1>1, <1>3, <1>4

\* The queue after a step that adds nothing to it.
LEMMA QueueKept ==
    ASSUME StoreInv, [Next]_vars, ~Restart, ~SendCommand, ~Enqueue, NEW j \in DOMAIN items', NEW c, c = items'[j]
    PROVE  Queued(c)' /\ (IsLast(c)' => j = Len(items'))
<1>1. PICK i \in DOMAIN items : /\ items'[j] = items[i] /\ (i = Len(items) => j = Len(items'))
                                /\ (items' = items /\ i = j) \/ (Taken /\ i = j + 1)
  BY ItemMoves
<1>2. c.op = opNo /\ op'.done => op.done
  <2> SUFFICES ASSUME c.op = opNo, op'.done, ~op.done PROVE FALSE
    OBVIOUS
  <2>1. TakeStart /\ i = 1
    BY <1>1, StaysUnanswered
  <2>2. Taken /\ items \in Seq(ItemType) /\ items' \in Seq(ItemType) /\ Len(items') = Len(items) - 1
        /\ Len(items) \in Nat
    BY <2>1, TakenFacts, WayFacts DEF TakeStart
  <2>3. items' # items /\ j \in Nat \ {0}
    BY <2>2
  <2> QED
    BY <1>1, <2>1, <2>3
<1>3. Queued(c)' /\ (IsLast(c)' => i = Len(items))
  BY <1>1, <1>2, QueuedKept
<1> QED
  BY <1>1, <1>3

\* The queue when a call has sent its command.
LEMMA QueueSent ==
    ASSUME StoreInv, [Next]_vars, SendCommand, NEW j \in DOMAIN items', NEW c, c = items'[j]
    PROVE  Queued(c)' /\ (IsLast(c)' => j = Len(items'))
<1>1. /\ op.pc = "send" /\ items' = Append(items, Item(op.kind, op.active.id, None, opNo))
      /\ opNo' = opNo /\ closeSent' = (closeSent \/ op.kind = "close") /\ closing' = closing /\ current' = current
      /\ op' = [op EXCEPT !.pc = "wait"] /\ opNo \in 0..MaxOps
  BY TypeParts DEF SendCommand, StoreInv, CallOK
<1>2. ~Restart
  <2>1. Restart => items' = <<>>
    BY DEF Restart
  <2>2. Len(items') = Len(items) + 1 /\ Len(items) \in Nat
    BY SendFacts, WayFacts
  <2> QED
    BY <2>1, <2>2
<1>3. /\ op \in OpType /\ CallsHold /\ OnTheWay' = OnTheWay /\ items \in Seq(ItemType) /\ Len(items) \in Nat
      /\ Len(items') = Len(items) + 1
      /\ op.kind \in {"start", "stop", "delete", "close"} /\ items' \in Seq(ItemType)
  BY TypeParts, SendFacts, WayFacts DEF StoreInv, CallOK
<1>4. op'.pc = "wait" /\ op'.kind = op.kind /\ op'.active = op.active /\ op'.done = op.done /\ ~op.done
  BY <1>1, <1>3 DEF OpType, CallsHold
<1>5. ~closeSent
  BY <1>2, CloseKept
<1>6. CASE j \in DOMAIN items
  <2>1. c = items[j] /\ Queued(c)
    BY <1>1, <1>3, <1>6, CommandParts DEF StoreInv
  <2>2. Queued(c)'
    BY <1>2, <1>4, <1>6, <2>1, QueuedKept
  <2>3. c.op < opNo /\ c.kind # "close"
    BY <1>1, <1>5, <2>1 DEF Queued, OfItsCall
  <2>4. c.op # opNo'
    BY <1>1, <2>3
  <2> QED
    BY <2>2, <2>3, <2>4 DEF IsLast
<1>7. CASE j = Len(items) + 1
  <2>1. c = Item(op.kind, op.active.id, None, opNo)
    BY <1>1, <1>3, <1>7
  <2>2. c.kind = op.kind /\ c.id = op.active.id /\ c.seq = None /\ c.op = opNo /\ ~IsRecord(c)
    BY <1>3, <2>1 DEF Item, IsRecord
  <2>3. OfItsCall(c)'
    BY <1>1, <1>4, <2>2 DEF OfItsCall
  <2>4. c.kind = "start" => NotStarted(c)'
    <3> SUFFICES ASSUME op.kind = "start" PROVE NotStarted(c)'
      BY <2>2
    <3>1. Lends /\ op.active.id # None /\ current = Nobody /\ op.active.nextSeq = 0 /\ Nobody.id = None
      BY <1>3 DEF Lends, CallsHold, Nobody
    <3>2. op.active.id \in Ids /\ Takes(op.active.id) /\ NumberOf(op.active.id) = 0
      BY <1>3, <3>1 DEF Takes, NumberOf, OpType, Active
    <3>3. \A r \in OnTheWay : r.id = op.active.id => r.seq <= 0
      BY <3>2, NumberedParts DEF StoreInv, UpToNumber
    <3>4. \A r \in OnTheWay : r.id # op.active.id
      BY <3>3, WayFacts DEF Seqs
    <3> QED
      BY <1>1, <1>3, <1>4, <2>2, <3>1, <3>4 DEF NotStarted
  <2>5. c.kind = "close" => closeSent' /\ c.id = closing'
    BY <1>1, <1>3, <2>2 DEF CallsHold
  <2>6. c.kind \in {"start", "stop", "delete"} => c.id # None
    BY <1>3, <2>2 DEF CallsHold
  <2>7. Queued(c)'
    BY <2>2, <2>3, <2>4, <2>5, <2>6 DEF Queued
  <2> QED
    BY <1>3, <1>7, <2>7
<1> QED
  <2>1. j \in 1..(Len(items) + 1) /\ DOMAIN items = 1..Len(items)
    BY <1>3
  <2> QED
    BY <1>3, <1>6, <1>7, <2>1

\* The queue when an event is published.
LEMMA QueuePublished ==
    ASSUME StoreInv, [Next]_vars, Enqueue, NEW j \in DOMAIN items', NEW c, c = items'[j]
    PROVE  Queued(c)' /\ (IsLast(c)' => j = Len(items'))
<1>1. op' = op /\ opNo' = opNo /\ current # Nobody /\ ~closed /\ closed' = closed /\ closing' = closing
      /\ current.nextSeq < MaxSeq
  BY DEF Enqueue, calls
<1>2. ~Restart /\ ~SendCommand
  <2>1. Restart => current' = Nobody
    BY DEF Restart
  <2>2. SendCommand => current' = current
    BY DEF SendCommand
  <2>3. current'.id = current.id /\ current'.nextSeq = current.nextSeq + 1 /\ current.nextSeq \in Nat /\ current.id # None
        /\ Nobody.id = None
    BY EnqueueFacts, TakesFacts, TypeParts, StoreBounds DEF StoreInv, SessionOK, Active, Enqueue
  <2> QED
    BY <2>1, <2>2, <2>3
<1>3. /\ op \in OpType /\ CallsHold /\ opNo \in 0..MaxOps /\ items \in Seq(ItemType) /\ Len(items) \in Nat
      /\ current \in Active
  BY TypeParts, WayFacts DEF StoreInv, CallOK, SessionOK
<1>4. ~Lends /\ ~closeSent /\ ~Lends'
  BY <1>1, <1>3, TakesFacts DEF CallsHold, Lends
<1>5. ASSUME NEW i \in DOMAIN items, c = items[i]
      PROVE  Queued(c)' /\ ~IsLast(c)'
  <2>1. Queued(c)
    BY <1>5, CommandParts DEF StoreInv
  <2>2. Queued(c)'
    BY <1>1, <1>2, <1>5, QueuedKept
  <2> QED
    BY <1>4, <2>1, <2>2 DEF IsLast, Queued
<1>6. CASE items' = items
  BY <1>5, <1>6
<1>7. CASE items' = Append(items, Item("record", current.id, current.nextSeq + 1, None))
  <2>1. CASE j \in DOMAIN items
    <3>1. c = items[j]
      BY <1>3, <1>7, <2>1
    <3> QED
      BY <1>5, <2>1, <3>1
  <2>2. CASE j = Len(items) + 1
    <3>1. c = Item("record", current.id, current.nextSeq + 1, None)
      BY <1>3, <1>7, <2>2
    <3>2. c.kind = "record" /\ c.id = current.id /\ c.seq = current.nextSeq + 1 /\ c.op = None
          /\ c = Item("record", c.id, c.seq, None)
      BY <3>1 DEF Item
    <3>3. c.id # None /\ c.seq # None
      BY <1>1, <1>3, <3>2, TakesFacts, StoreBounds DEF Active, None
    <3>4. OfItsCall(c)'
      BY <1>1, <1>3, <3>2 DEF OfItsCall, None, CallsHold
    <3>5. Queued(c)'
      BY <3>2, <3>3, <3>4 DEF Queued, IsRecord
    <3> QED
      BY <1>4, <3>2, <3>5 DEF IsLast
  <2>3. Len(items') = Len(items) + 1 /\ DOMAIN items' = 1..(Len(items) + 1) /\ DOMAIN items = 1..Len(items)
    BY <1>3, <1>7
  <2> QED
    BY <2>1, <2>2, <2>3
<1> QED
  BY <1>6, <1>7 DEF Enqueue

\* An empty queue that nothing is added to stays empty.
LEMMA EmptyKept ==
    ASSUME StoreInv, [Next]_vars, ~SendCommand, ~Enqueue, items = <<>>
    PROVE  items' = <<>>
<1>1. CASE Restart
  BY <1>1 DEF Restart
<1>2. CASE ~Restart
  <2>1. items' \in Seq(ItemType)
    BY NextTypes DEF TypeOK
  <2>2. DOMAIN items' = {}
    BY <1>2, ItemMoves
  <2> QED
    BY <2>1, <2>2
<1> QED
  BY <1>1, <1>2

\* The writer's answer to a Start or Stop finds the queue empty.
LEMMA DoneEmpties ==
    ASSUME StoreInv, [Next]_vars, ~Restart, Lends', op'.pc = "wait", op'.done
    PROVE  items' = <<>>
<1>1. CASE op.done
  <2>1. op.pc = "wait" /\ op \in OpType /\ NoOp.done = FALSE
    BY <1>1, TypeParts DEF StoreInv, CallsHold, CallOK, NoOp
  <2>2. op'.kind = op.kind /\ ~SendCommand
    BY <2>1, CallMoves DEF SendCommand
  <2>3. Lends
    BY <2>2 DEF Lends
  <2>4. items = <<>>
    BY <1>1, <2>1, <2>3 DEF StoreInv, Commands
  <2>5. ~Enqueue
    BY <2>3, TakesFacts DEF Enqueue
  <2> QED
    BY <2>2, <2>4, <2>5, EmptyKept
<1>2. CASE ~op.done
  <2>1. /\ opNo' = opNo /\ op.pc = "wait" /\ op'.kind = op.kind
        /\ \/ TakeStart /\ Head(items).op = opNo
           \/ cmd.op = opNo /\ items' = items
    BY <1>2, DoneMoves
  <2>2. Lends
    BY <2>1 DEF Lends
  <2>3. CASE TakeStart /\ Head(items).op = opNo
    <3>1. Taken /\ 1 \in DOMAIN items /\ Head(items) = items[1] /\ items' \in Seq(ItemType) /\ Len(items') = Len(items) - 1
          /\ Len(items) \in Nat
      BY <2>3, TakenFacts DEF TakeStart
    <3>2. Len(items) = 1
      BY <2>1, <2>2, <2>3, <3>1 DEF StoreInv, Commands
    <3> QED
      BY <3>1, <3>2
  <2>4. CASE cmd.op = opNo /\ items' = items
    BY <2>1, <2>2, <2>4 DEF StoreInv, Commands
  <2> QED
    BY <2>1, <2>3, <2>4
<1> QED
  BY <1>1, <1>2

\* The command in the writer's hands was there before.
LEMMA HandKept ==
    ASSUME StoreInv, [Next]_vars, ~Restart, NEW c, c = cmd, cmd' = c
    PROVE  /\ OfItsCall(c)' /\ (c.kind \in {"start", "stop", "delete"} => c.id # None)
           /\ c.kind = "start" => NotStarted(c)'
           /\ Lends' /\ op'.pc = "wait" /\ c.op = opNo' => items' = <<>>
           /\ c.kind = "close" => closeSent' /\ c.id = closing' /\ items' = <<>>
<1>0. InHand /\ c \in CmdType /\ c.id < nextId /\ CallsHold /\ NoCmd.op = None
  BY CommandParts, TypeParts DEF StoreInv, TurnOK, Unused, NoCmd, Item
<1>1. OfItsCall(c) /\ c.op <= opNo
  BY <1>0 DEF InHand, OfItsCall
<1>2. c.op = opNo /\ op'.done => op.done
  <2> SUFFICES ASSUME c.op = opNo, op'.done, ~op.done PROVE FALSE
    OBVIOUS
  <2>1. c = NoCmd
    BY StaysUnanswered
  <2>2. op.pc = "wait" /\ opNo \in Nat
    BY DoneMoves, TypeParts, StoreBounds DEF StoreInv, CallOK
  <2> QED
    BY <1>0, <2>1, <2>2 DEF CallsHold, None
<1>3. OfItsCall(c)'
  BY <1>0, <1>1, <1>2, CallKept
<1>4. c.kind = "start" => NotStarted(c)'
  <2> SUFFICES ASSUME c.kind = "start" PROVE NotStarted(c)'
    OBVIOUS
  <2>1. NotStarted(c) /\ c.id # None
    BY <1>0 DEF InHand
  <2> QED
    BY <1>0, <1>1, <2>1, NotStartedKept
<1>5. Lends' /\ op'.pc = "wait" /\ c.op = opNo' => items' = <<>>
  <2> SUFFICES ASSUME Lends', op'.pc = "wait", c.op = opNo' PROVE items' = <<>>
    OBVIOUS
  <2>1. ~SendCommand
    <3> SUFFICES ASSUME SendCommand PROVE FALSE
      OBVIOUS
    <3>1. op.pc = "send" /\ opNo' = opNo /\ opNo \in Int
      BY TypeParts, StoreBounds DEF SendCommand, StoreInv, CallOK
    <3>2. c.op < opNo
      BY <1>1, <3>1 DEF OfItsCall
    <3> QED
      BY <3>1, <3>2
  <2>2. Lends /\ op.pc = "wait" /\ c.op = opNo
    BY <1>0, <1>1, <2>1, LastKept
  <2>3. items = <<>>
    BY <1>0, <2>2 DEF InHand
  <2>4. ~Enqueue
    BY <2>2, TakesFacts DEF Enqueue
  <2> QED
    BY <2>1, <2>3, <2>4, EmptyKept
<1>6. c.kind = "close" => closeSent' /\ c.id = closing' /\ items' = <<>>
  <2> SUFFICES ASSUME c.kind = "close" PROVE closeSent' /\ c.id = closing' /\ items' = <<>>
    OBVIOUS
  <2>1. closeSent /\ c.id = closing /\ items = <<>>
    BY <1>0 DEF InHand
  <2>2. closeSent' /\ closing' = closing /\ ~SendCommand /\ ~Enqueue
    BY <2>1, CloseKept
  <2> QED
    BY <2>1, <2>2, EmptyKept
<1> QED
  BY <1>0, <1>3, <1>4, <1>5, <1>6 DEF InHand

\* The writer has taken the command from the queue.
LEMMA HandTaken ==
    ASSUME StoreInv, [Next]_vars, ~Restart, Taken, ~IsRecord(Head(items)), cmd = NoCmd,
           NEW c, c = Head(items), cmd' = c
    PROVE  /\ OfItsCall(c)' /\ (c.kind \in {"start", "stop", "delete"} => c.id # None)
           /\ c.kind = "start" => NotStarted(c)'
           /\ Lends' /\ op'.pc = "wait" /\ c.op = opNo' => items' = <<>>
           /\ c.kind = "close" => closeSent' /\ c.id = closing' /\ items' = <<>>
<1>0. /\ 1 \in DOMAIN items /\ c = items[1] /\ Len(items') = Len(items) - 1 /\ Len(items) \in Nat
      /\ items' \in Seq(ItemType)
  BY TakenFacts
<1>1. ~SendCommand
  <2>1. SendCommand => Len(items') = Len(items) + 1
    BY SendFacts
  <2> QED
    BY <1>0, <2>1
<1>2. c.op = opNo /\ op'.done => op.done
  <2> SUFFICES ASSUME c.op = opNo, op'.done, ~op.done PROVE FALSE
    OBVIOUS
  <2>1. op.pc = "wait" /\ opNo \in Nat /\ (cmd' = cmd \/ cmd.op = opNo)
    BY DoneMoves, TypeParts, StoreBounds DEF StoreInv, CallOK
  <2>2. opNo > 0 /\ NoCmd.op = None
    BY <2>1 DEF StoreInv, CallsHold, NoCmd, Item
  <2> QED
    BY <2>1, <2>2 DEF None
<1>3. Queued(c)' /\ (IsLast(c)' => 1 = Len(items))
  BY <1>0, <1>1, <1>2, QueuedKept
<1>4. IsLast(c)' => items' = <<>>
  <2>1. Len(items) = 1 => items' = <<>>
    BY <1>0
  <2> QED
    BY <1>3, <2>1
<1> QED
  BY <1>3, <1>4 DEF Queued, IsLast

LEMMA NextOver ==
    ASSUME StoreInv, [Next]_vars
    PROVE  Over'
<1> USE DEF db, store, calls, limits, writer, history
<1> SUFFICES ASSUME exited' PROVE closeSent' /\ items' = <<>> /\ batch' = <<>>
  BY DEF Over
<1>1. Over /\ InHand /\ WriterHolds
  BY CommandParts DEF StoreInv
<1>2. ~Restart
  BY DEF Restart
<1>3. CASE exited
  <2>1. closeSent /\ items = <<>> /\ batch = <<>>
    BY <1>1, <1>3 DEF Over
  <2>2. closeSent' /\ ~SendCommand /\ ~Enqueue /\ ~TakeRecord
    BY <1>2, <1>3, <2>1, CloseKept DEF TakeRecord, Select, WriterFree
  <2>3. batch' = <<>>
    BY <2>1, <2>2, NextMoves
  <2> QED
    BY <2>1, <2>2, <2>3, EmptyKept
<1>4. CASE ~exited
  <2>1. RunStop
    BY <1>2, <1>4 DEF Next, CallStep, WriterStep, vars, StartRecording, StopRecording,
         DeleteRecording, Shutdown, Expire, SendCommand, SendTimeout, WaitDone, WaitTimeout, Enqueue, TakeRecord,
         DropRecord, TakeStart, TakeCommand, FlushThen, FlushFull, FlushTimer, TakeDuration, TakeSweep, MarkTerminal,
         RunStart, RunExpire, RunDelete, SweepDelete, SweepOver, DurationTimer, SweepTimer
  <2>2. cmd.kind = "close" /\ UNCHANGED <<items, batch, closeSent>>
    BY <2>1 DEF RunStop, Returns
  <2> QED
    BY <1>1, <2>2 DEF InHand, WriterHolds
<1> QED
  BY <1>3, <1>4

LEMMA NextCommands ==
    ASSUME StoreInv, [Next]_vars
    PROVE  Commands'
<1>p. (\A j \in DOMAIN items' : Queued(items[j])' /\ (IsLast(items[j])' => j = Len(items'))) /\ InHand' /\ Over'
        => Commands'
  BY DEF Commands, Queued, IsLast, InHand, Over
<1>v. Over'
  BY NextOver
<1>1. CASE Restart
  <2>1. items' = <<>> /\ cmd' = Item("boot", None, None, None) /\ op' = NoOp /\ opNo' = 0
    BY <1>1 DEF Restart
  <2>2. cmd'.op = None /\ cmd'.kind = "boot" /\ NoOp.pc = "idle"
    BY <2>1 DEF Item, NoOp
  <2>3. InHand'
    BY <2>1, <2>2 DEF InHand, OfItsCall, None
  <2> QED
    BY <1>p, <1>v, <2>1, <2>3
<1>2. CASE ~Restart
  <2>1. \A j \in DOMAIN items' : Queued(items[j])' /\ (IsLast(items[j])' => j = Len(items'))
    <3> SUFFICES ASSUME NEW j \in DOMAIN items'
                 PROVE  Queued(items[j])' /\ (IsLast(items[j])' => j = Len(items'))
      OBVIOUS
    <3>1. PICK c : c = items'[j]
      OBVIOUS
    <3>2. Queued(c)' /\ (IsLast(c)' => j = Len(items'))
      BY <1>2, <3>1, QueueKept, QueueSent, QueuePublished
    <3> QED
      BY <3>1, <3>2 DEF Queued, IsLast, OfItsCall, NotStarted
  <2>2. Lends' /\ op'.pc = "wait" /\ op'.done => items' = <<>>
    BY <1>2, DoneEmpties
  <2>3. PICK c : c = cmd'
    OBVIOUS
  <2>4. /\ OfItsCall(c)' /\ (c.kind \in {"start", "stop", "delete"} => c.id # None)
        /\ c.kind = "start" => NotStarted(c)'
        /\ Lends' /\ op'.pc = "wait" /\ c.op = opNo' => items' = <<>>
        /\ c.kind = "close" => closeSent' /\ c.id = closing' /\ items' = <<>>
    <3>1. CASE cmd' = cmd
      BY <1>2, <2>3, <3>1, HandKept
    <3>2. CASE c.op = None /\ c.kind \notin {"start", "stop", "delete", "close"}
      <4>1. CallsHold' /\ opNo' \in Nat
        BY NextCallsHold, NextTypes, StoreBounds DEF TypeOK
      <4>2. op'.pc # "idle" => opNo' > 0
        BY <4>1 DEF CallsHold
      <4> QED
        BY <3>2, <4>1, <4>2 DEF OfItsCall, None
    <3>3. CASE Taken /\ ~IsRecord(Head(items)) /\ cmd' = Head(items) /\ cmd = NoCmd
      BY <1>2, <2>3, <3>3, HandTaken
    <3> QED
      BY <2>3, <3>1, <3>2, <3>3, CmdMoves
  <2>5. InHand'
    BY <2>2, <2>3, <2>4 DEF InHand, OfItsCall, NotStarted
  <2> QED
    BY <1>p, <1>v, <2>1, <2>5
<1> QED
  BY <1>1, <1>2

LEMMA NextAskedOnce ==
    ASSUME StoreInv, [Next]_vars
    PROVE  AskedOnce'
<1>0. /\ NoOp.pc = "idle" /\ opNo \in Int /\ AskedOnce /\ items \in Seq(ItemType) /\ cmd \in CmdType /\ CallsHold
      /\ \A i \in DOMAIN items : items[i] \in ItemType
  BY TypeParts, WayFacts, StoreBounds DEF StoreInv, NoOp, CallOK, TurnOK
<1>i. \A i \in DOMAIN items : OfItsCall(items[i]) /\ items[i].op \in Int /\ items[i].op <= opNo
  <2>1. \A i \in DOMAIN items : OfItsCall(items[i])
    BY DEF StoreInv, Commands
  <2> QED
    BY <1>0, <2>1, StoreBounds DEF OfItsCall, ItemType
<1>c. OfItsCall(cmd) /\ cmd.op \in Int /\ cmd.op <= opNo
  BY <1>0, StoreBounds DEF StoreInv, Commands, OfItsCall, CmdType
<1> SUFFICES ASSUME op'.pc = "wait"
             PROVE  /\ \A i, j \in DOMAIN items' : items'[i].op = opNo' /\ items'[j].op = opNo' => i = j
                    /\ cmd'.op = opNo' => \A j \in DOMAIN items' : items'[j].op # opNo'
  BY DEF AskedOnce
<1>r. ~Restart
  BY <1>0 DEF Restart
<1>p. opNo' \in Nat \ {0}
  <2>1. CallsHold' /\ opNo' \in Nat
    BY NextCallsHold, NextTypes, StoreBounds DEF TypeOK
  <2> QED
    BY <2>1 DEF CallsHold
<1>1. CASE SendCommand
  <2>1. /\ op.pc = "send" /\ items' = Append(items, Item(op.kind, op.active.id, None, opNo)) /\ opNo' = opNo
        /\ cmd' = cmd
    BY <1>1 DEF SendCommand, writer
  <2>2. cmd.op < opNo /\ \A i \in DOMAIN items : items[i].op < opNo
    BY <1>c, <1>i, <2>1 DEF OfItsCall
  <2>3. DOMAIN items' = 1..(Len(items) + 1) /\ Len(items) \in Nat /\ \A i \in DOMAIN items : items'[i] = items[i]
    BY <1>0, <2>1
  <2>4. \A i \in DOMAIN items' : items'[i].op = opNo' => i = Len(items) + 1
    BY <1>0, <1>i, <2>1, <2>2, <2>3
  <2> QED
    BY <1>0, <1>c, <2>1, <2>2, <2>4
<1>2. CASE Enqueue
  <2>1. op' = op /\ opNo' = opNo /\ cmd' = cmd
    BY <1>2 DEF Enqueue, calls, writer
  <2>2. \A i \in DOMAIN items' : items'[i].op = opNo => i \in DOMAIN items /\ items'[i] = items[i]
    <3>1. CASE items' = items
      BY <3>1
    <3>2. CASE items' = Append(items, Item("record", current.id, current.nextSeq + 1, None))
      <4>1. DOMAIN items' = 1..(Len(items) + 1) /\ DOMAIN items = 1..Len(items) /\ Len(items) \in Nat
            /\ items'[Len(items) + 1] = Item("record", current.id, current.nextSeq + 1, None)
            /\ \A i \in DOMAIN items : items'[i] = items[i]
        BY <1>0, <3>2
      <4>2. items'[Len(items) + 1].op = None
        BY <4>1 DEF Item
      <4> QED
        BY <1>p, <2>1, <4>1, <4>2 DEF None
    <3> QED
      BY <1>2, <3>1, <3>2 DEF Enqueue
  <2> QED
    BY <1>0, <2>1, <2>2 DEF AskedOnce
<1>3. CASE ~SendCommand /\ ~Enqueue
  <2>1. ASSUME opNo' = opNo + 1 PROVE \A i \in DOMAIN items' : items'[i].op # opNo'
    BY <1>0, <1>i, <1>r, <1>3, <2>1, ItemMoves
  <2>2. opNo' = opNo + 1 \/ (opNo' = opNo /\ op.pc = "wait")
    BY <1>0, <1>r, <1>3, CallMoves
  <2>3. CASE opNo' = opNo /\ op.pc = "wait"
    <3>1. ASSUME NEW i \in DOMAIN items', NEW j \in DOMAIN items', items'[i].op = opNo', items'[j].op = opNo'
          PROVE  i = j
      <4>1. PICK a \in DOMAIN items : items'[i] = items[a] /\ ((items' = items /\ a = i) \/ (Taken /\ a = i + 1))
        BY <1>r, <1>3, ItemMoves
      <4>2. PICK b \in DOMAIN items : items'[j] = items[b] /\ ((items' = items /\ b = j) \/ (Taken /\ b = j + 1))
        BY <1>r, <1>3, ItemMoves
      <4>3. a = b
        BY <1>0, <2>3, <3>1, <4>1, <4>2 DEF AskedOnce
      <4>4. Taken => items' # items /\ items' \in Seq(ItemType)
        <5>1. Taken => Len(items') = Len(items) - 1 /\ Len(items) \in Nat /\ items' \in Seq(ItemType)
          BY TakenFacts
        <5> QED
          BY <5>1
      <4>5. i \in Int /\ j \in Int
        BY <1>0, <4>1, <4>4
      <4> QED
        BY <4>1, <4>2, <4>3, <4>4, <4>5
    <3>2. ASSUME cmd'.op = opNo', NEW j \in DOMAIN items', items'[j].op = opNo' PROVE FALSE
      <4>1. PICK b \in DOMAIN items : items'[j] = items[b] /\ ((items' = items /\ b = j) \/ (Taken /\ b = j + 1))
        BY <1>r, <1>3, ItemMoves
      <4>2. CASE cmd' = cmd
        BY <1>0, <2>3, <3>2, <4>1, <4>2 DEF AskedOnce
      <4>3. CASE cmd'.op = None
        BY <1>p, <3>2, <4>3 DEF None
      <4>4. CASE Taken /\ cmd' = Head(items)
        <5>1. /\ 1 \in DOMAIN items /\ items[1] = cmd' /\ Len(items') = Len(items) - 1 /\ Len(items) \in Nat
              /\ items' \in Seq(ItemType)
          BY <4>4, TakenFacts
        <5>2. items' # items /\ j \in Nat \ {0}
          BY <5>1
        <5>3. b = j + 1 /\ items[b].op = opNo /\ items[1].op = opNo
          BY <2>3, <3>2, <4>1, <5>1, <5>2
        <5>4. b = 1
          BY <1>0, <2>3, <5>1, <5>3 DEF AskedOnce
        <5> QED
          BY <5>2, <5>3, <5>4
      <4> QED
        BY <4>2, <4>3, <4>4, CmdMoves
    <3> QED
      BY <3>1, <3>2
  <2> QED
    BY <2>1, <2>2, <2>3
<1> QED
  BY <1>1, <1>2, <1>3

-----------------------------------------------------------------------------
(* The invariant of every behaviour. *)

LEMMA InitStoreInv == Init => StoreInv
<1> SUFFICES ASSUME Init PROVE StoreInv
  OBVIOUS
<1>1. TypeOK
  BY InitTypes
<1>2. /\ items = <<>> /\ batch = <<>> /\ op = NoOp /\ opNo = 0 /\ current = Nobody /\ terminal = {} /\ cmd = NoCmd
      /\ mark = NoMark /\ nextId = 1 /\ closing = None /\ durID = None
      /\ rows = [i \in Ids |-> "none"] /\ events = [i \in Ids |-> {}] /\ totals = [i \in Ids |-> 0]
      /\ failures = [i \in Ids |-> 0]
  BY DEF Init
<1>b. closed = FALSE /\ closeSent = FALSE /\ exited = FALSE
  BY Zenon DEF Init
<1>3. /\ NoOp.kind = "none" /\ NoOp.pc = "idle" /\ NoOp.active = Nobody /\ NoOp.done = FALSE
      /\ Nobody.id = None /\ NoCmd.op = None /\ NoCmd.kind = "none" /\ NoCmd.id = None /\ NoMark.id = None
  BY DEF NoOp, Nobody, NoCmd, NoMark, Item
<1>4. Records(items) = {} /\ Records(batch) = {} /\ OnTheWay = {} /\ ~Lends
  BY <1>2, <1>3, RecordsEmpty DEF OnTheWay, Lends
<1>5. CallsHold
  BY <1>2, <1>3, <1>4, <1>b DEF CallsHold
<1>6. Unused
  BY <1>2, <1>3 DEF Unused, None
<1>7. Commands
  BY <1>2, <1>3, <1>b DEF Commands, OfItsCall, None
<1>8. AskedOnce
  BY <1>2, <1>3 DEF AskedOnce
<1>9. WriterHolds
  BY <1>2, <1>3, SizesAssumption, LimitsAssumption DEF WriterHolds
<1>10. OneRecording /\ Settled
  BY <1>2, <1>3, <1>4 DEF OneRecording, Settled
<1>11. Numbered
  BY <1>2, <1>3, <1>4 DEF Numbered, Increasing, Takes
<1>12. RowsFollow
  BY <1>2, <1>3, <1>4, <1>b DEF RowsFollow, Takes
<1> QED
  BY <1>1, <1>5, <1>6, <1>7, <1>8, <1>9, <1>10, <1>11, <1>12 DEF StoreInv

LEMMA NextStoreInv ==
    ASSUME StoreInv, [Next]_vars
    PROVE  StoreInv'
<1>1. TypeOK' /\ CallsHold' /\ Unused' /\ Commands' /\ AskedOnce' /\ WriterHolds'
  BY NextTypes, NextCallsHold, NextUnused, NextCommands, NextAskedOnce, NextWriterHolds
<1>2. OneRecording'
  BY <1>1, NextOneRecording
<1>3. Settled' /\ Numbered' /\ RowsFollow'
  BY NextSettled, NextNumbered, NextRowsFollow
<1> QED
  BY <1>1, <1>2, <1>3 DEF StoreInv

LEMMA StoreInvariance == Spec => []StoreInv
<1>1. StoreInv /\ [Next]_vars => StoreInv'
  BY NextStoreInv
<1> QED
  BY InitStoreInv, <1>1, PTL DEF Spec

-----------------------------------------------------------------------------
(* What the runs check, for every store. *)

\* The sequence of the properties, in terms of the batch and the queue.
LEMMA PendingFacts ==
    ASSUME StoreInv
    PROVE  /\ Records(Pending) = OnTheWay
           /\ \A i \in DOMAIN Pending : IsRecord(Pending[i]) => Pending[i] \in OnTheWay
           /\ \A i, j \in DOMAIN Pending : i < j /\ IsRecord(Pending[i]) /\ IsRecord(Pending[j]) =>
                 Pending[i].seq < Pending[j].seq
<1> DEFINE p == Pending  n == Len(batch)  m == Len(items)
<1>1. /\ batch \in Seq(ItemType) /\ items \in Seq(ItemType) /\ n \in Nat /\ m \in Nat
      /\ DOMAIN batch = 1..n /\ DOMAIN items = 1..m
  BY WayFacts
<1>2. /\ DOMAIN p = 1..(n + m) /\ \A i \in 1..n : p[i] = batch[i]
      /\ \A i \in 1..m : p[n + i] = items[i]
  BY <1>1 DEF Pending
<1>3. \A i \in DOMAIN p : i \in 1..n \/ (i - n \in 1..m /\ p[i] = items[i - n] /\ i = n + (i - n))
  <2> SUFFICES ASSUME NEW i \in 1..(n + m), i \notin 1..n
               PROVE  i - n \in 1..m /\ p[i] = items[i - n] /\ i = n + (i - n)
    BY <1>2
  <2>1. i - n \in 1..m /\ i = n + (i - n)
    BY <1>1
  <2> QED
    BY <1>2, <2>1
<1>w. /\ \A i \in 1..n : batch[i] \in Records(batch)
      /\ \A i \in 1..m : IsRecord(items[i]) => items[i] \in Records(items)
  BY <1>1, WayFacts
<1> HIDE DEF p, n, m
<1>4. \A r : r \in OnTheWay => r \in Records(p)
  <2>1. \A i \in 1..n : i \in DOMAIN p
    BY <1>1, <1>2
  <2>2. \A i \in 1..m : n + i \in DOMAIN p
    BY <1>1, <1>2
  <2>3. ASSUME NEW r \in Records(batch) PROVE r \in Records(p)
    BY <1>1, <1>2, <2>1 DEF Records
  <2>4. ASSUME NEW r \in Records(items) PROVE r \in Records(p)
    <3>1. PICK i \in 1..m : items[i] = r /\ IsRecord(items[i])
      BY <1>1 DEF Records
    <3>2. n + i \in DOMAIN p /\ p[n + i] = r /\ IsRecord(p[n + i])
      BY <1>2, <2>2, <3>1
    <3> QED
      BY <3>2 DEF Records
  <2> QED
    BY <2>3, <2>4 DEF OnTheWay
<1>5. \A i \in DOMAIN p : IsRecord(p[i]) => p[i] \in OnTheWay
  BY <1>2, <1>3, <1>w DEF OnTheWay
<1>6. \A r : r \in Records(p) => r \in OnTheWay
  BY <1>5 DEF Records
<1>7. ASSUME NEW i \in DOMAIN p, NEW j \in DOMAIN p, i < j, IsRecord(p[i]), IsRecord(p[j])
      PROVE  p[i].seq < p[j].seq
  <2>0. Increasing(batch) /\ Increasing(items) /\ \A r \in Records(batch), q \in Records(items) : r.seq < q.seq
    BY DEF StoreInv, Numbered
  <2>i. i \in Int /\ j \in Int
    BY <1>1, <1>2
  <2>1. CASE i \in 1..n /\ j \in 1..n
    <3>1. p[i] = batch[i] /\ p[j] = batch[j]
      BY <1>2, <2>1
    <3> QED
      BY <1>1, <1>7, <2>0, <2>1, <3>1 DEF Increasing
  <2>2. CASE i \in 1..n /\ j \notin 1..n
    <3>1. p[i] = batch[i] /\ j - n \in 1..m /\ p[j] = items[j - n]
      BY <1>2, <1>3, <2>2
    <3>2. p[i] \in Records(batch) /\ p[j] \in Records(items)
      BY <1>7, <1>w, <2>2, <3>1
    <3> QED
      BY <2>0, <3>2
  <2>3. CASE i \notin 1..n
    <3>1. i - n \in 1..m /\ p[i] = items[i - n]
      BY <1>3, <2>3
    <3>2. j \notin 1..n
      BY <1>1, <1>7, <2>i, <3>1
    <3>3. j - n \in 1..m /\ p[j] = items[j - n]
      BY <1>3, <3>2
    <3>4. i - n < j - n
      BY <1>1, <1>7, <2>i
    <3> QED
      BY <1>1, <1>7, <2>0, <3>1, <3>3, <3>4 DEF Increasing
  <2> QED
    BY <2>1, <2>2, <2>3
<1> QED
  BY <1>4, <1>5, <1>6, <1>7 DEF p

\* Records of one recording at a time are on their way, in the order Publish numbered them
\* and above everything SQLite holds of it: no insert of writeBatch meets a used key,
\* whatever Stop had to take back, a Start gave up on or a restart lost.
THEOREM OrderedAlways == Spec => []Ordered
<1>1. StoreInv => Ordered
  <2> SUFFICES ASSUME StoreInv PROVE Ordered
    OBVIOUS
  <2>1. TypeOK /\ OneRecording /\ AboveStored
    BY NumberedParts DEF StoreInv
  <2>2. \A i, j \in DOMAIN Pending : i < j /\ IsRecord(Pending[i]) /\ IsRecord(Pending[j]) =>
          Pending[i].id = Pending[j].id /\ Pending[i].seq < Pending[j].seq
    <3>1. \A i, j \in DOMAIN Pending : IsRecord(Pending[i]) /\ IsRecord(Pending[j]) =>
             Pending[i].id = Pending[j].id
      BY <2>1, PendingFacts DEF OneRecording
    <3> QED
      BY <3>1, PendingFacts
  <2>3. \A r \in Records(Pending) : \A s \in events[r.id] : s < r.seq
    BY <2>1, PendingFacts DEF AboveStored
  <2> QED
    BY <2>1, <2>2, <2>3 DEF Ordered
<1> QED
  BY <1>1, StoreInvariance, PTL

\* When Stop has its answer, or the writer of a closed store has returned, nothing of the
\* recording is left in the batch or the queue, and its row has ended unless SQLite refused.
THEOREM StopIsCompleteAlways == Spec => []StopIsComplete
<1>1. StoreInv => StopIsComplete
  <2> SUFFICES ASSUME StoreInv PROVE StopIsComplete
    OBVIOUS
  <2>1. Records(Pending) = OnTheWay
    BY PendingFacts
  <2>2. op.kind = "stop" /\ op.done => OnTheWay = {}
    BY DEF StoreInv, OneRecording, Lends
  <2>3. exited => OnTheWay = {}
    <3>1. exited => items = <<>> /\ batch = <<>>
      BY DEF StoreInv, Commands
    <3> QED
      BY <3>1, RecordsEmpty DEF OnTheWay
  <2>4. RowsFollow
    BY DEF StoreInv
  <2> QED
    BY <2>1, <2>2, <2>3, <2>4 DEF StopIsComplete, RowsFollow
<1> QED
  BY <1>1, StoreInvariance, PTL

\* Only an active row gets another status.
LEMMA NextKeepsEnded ==
    ASSUME StoreInv, [Next]_vars, NEW id \in Ids, rows[id] # "none", rows[id] # "active"
    PROVE  rows'[id] \in {rows[id], "none"}
<1> USE DEF db, store, calls, limits, writer, history
<1>t. rows \in [Ids -> Statuses \cup {"none"}]
  BY TypeParts DEF StoreInv, DbOK
<1>1. CASE StartRecording
  <2>1. rows' = [rows EXCEPT ![nextId] = "active"] /\ nextId <= MaxId
    BY <1>1 DEF StartRecording
  <2>2. nextId \in Ids => rows[nextId] = "none"
    BY TypeParts, StoreBounds DEF StoreInv, Unused, DbOK, Ids
  <2> QED
    BY <1>t, <2>1, <2>2
<1>2. CASE UNCHANGED rows
  BY <1>2
<1>3. CASE MarkTerminal \/ RunStop
  <2>1. \E i, st : rows' = Stopped(i, st) \/ rows' = rows
    BY <1>3 DEF MarkTerminal, RunStop
  <2> QED
    BY <1>t, <2>1 DEF Stopped
<1>4. CASE RunDelete \/ SweepDelete
  <2>1. \E i : rows' = [rows EXCEPT ![i] = "none"] \/ rows' = rows
    BY <1>4 DEF RunDelete, SweepDelete, Deleted, DeletedPartly
  <2> QED
    BY <1>t, <2>1
<1>5. CASE Restart
  BY <1>5 DEF Restart
<1> QED
  BY <1>1, <1>2, <1>3, <1>4, <1>5
     DEF Next, CallStep, WriterStep, vars, StopRecording,
         DeleteRecording, Shutdown, Expire, SendCommand, SendTimeout, WaitDone, WaitTimeout, Enqueue, TakeRecord,
         DropRecord, TakeStart, TakeCommand, FlushThen, FlushFull, FlushTimer, TakeDuration, TakeSweep,
         RunStart, RunExpire, SweepOver, DurationTimer, SweepTimer

\* A step of the store never writes to a recording that has ended and never gives it another
\* status: not a late batch, a stop that comes after a limit, nor Open's recovery.
THEOREM EndedIsFinalAlways == Spec => EndedIsFinal
<1>1. ASSUME StoreInv, [Next]_vars
      PROVE  [\A id \in Ids : Exists(id) /\ rows[id] # "active" =>
                 /\ rows'[id] \in {rows[id], "none"}
                 /\ events'[id] \subseteq events[id]]_vars
  <2> SUFFICES ASSUME NEW id \in Ids, Exists(id), rows[id] # "active"
               PROVE  rows'[id] \in {rows[id], "none"} /\ events'[id] \subseteq events[id]
    OBVIOUS
  <2>1. rows'[id] \in {rows[id], "none"}
    BY <1>1, NextKeepsEnded DEF Exists
  <2>2. CASE NoneAdded
    BY <2>1, <2>2 DEF NoneAdded
  <2>3. CASE FlushStep
    <3>1. Flush /\ events \in [Ids -> SUBSET Seqs]
      BY <1>1, <2>3, TypeParts DEF FlushStep, StoreInv, DbOK
    <3>2. CASE FlushNothing
      BY <2>1, <3>2 DEF FlushNothing
    <3>3. ASSUME NEW k \in Ids \ terminal, FlushOf(k) PROVE events'[id] \subseteq events[id]
      <4>1. k # id
        BY <3>3 DEF FlushOf
      <4> QED
        BY <3>1, <3>3, <4>1 DEF FlushOf, FlushWrites, FlushLoses
    <3> QED
      BY <1>1, <2>1, <3>1, <3>2, <3>3, FlushEffect
  <2> QED
    BY <1>1, <2>2, <2>3, NextAdds
<1> QED
  BY <1>1, StoreInvariance, PTL DEF Spec, EndedIsFinal

\* Only a deletion or a restart takes an event away from the database, and the history
\* forgets the records of that recording with it.
LEMMA NextForgets ==
    ASSUME StoreInv, [Next]_vars, NEW r \in issued, r \in issued', r.id \in Ids
    PROVE  events[r.id] \subseteq events'[r.id]
<1> USE DEF db, store, calls, limits, writer, history
<1>t. events \in [Ids -> SUBSET Seqs]
  BY TypeParts DEF StoreInv, DbOK
<1>1. CASE UNCHANGED events
  BY <1>1
<1>2. CASE RunDelete \/ SweepDelete
  <2>1. events' = events \/ \E i : Deleted(i) \/ DeletedPartly(i)
    BY <1>2 DEF RunDelete, SweepDelete
  <2>2. ASSUME NEW i, Deleted(i) \/ DeletedPartly(i) PROVE events[r.id] \subseteq events'[r.id]
    <3>1. r.id # i
      BY <2>2 DEF Deleted, DeletedPartly
    <3> QED
      BY <1>t, <2>2, <3>1 DEF Deleted, DeletedPartly
  <2> QED
    BY <2>1, <2>2
<1>3. CASE TakeCommand \/ FlushFull \/ FlushTimer \/ TakeDuration \/ TakeSweep
  <2>1. Flush
    BY <1>3 DEF TakeCommand, FlushFull, FlushTimer, TakeDuration, TakeSweep, FlushThen
  <2>2. CASE FlushNothing
    BY <2>2 DEF FlushNothing
  <2>3. ASSUME NEW k \in Ids \ terminal, FlushOf(k) PROVE events[r.id] \subseteq events'[r.id]
    BY <1>t, <2>3 DEF FlushOf, FlushWrites, FlushLoses
  <2> QED
    BY <2>1, <2>2, <2>3, FlushEffect
<1> QED
  BY <1>1, <1>2, <1>3
     DEF Next, CallStep, WriterStep, vars, StartRecording, StopRecording,
         DeleteRecording, Shutdown, Expire, SendCommand, SendTimeout, WaitDone, WaitTimeout, Enqueue, TakeRecord,
         DropRecord, TakeStart, MarkTerminal, RunStop, Restart,
         RunStart, RunExpire, SweepOver, DurationTimer, SweepTimer

\* A record on its way stays so until it is stored or counted; a restart forgets it.
LEMMA NextDelivers ==
    ASSUME StoreInv, [Next]_vars, ~Restart
    PROVE  /\ counted \subseteq counted'
           /\ \A r \in OnTheWay : r \in OnTheWay' \/ r \in counted' \/ r.seq \in events'[r.id]
<1> USE DEF db, store, calls, limits, writer, history
<1>t. events \in [Ids -> SUBSET Seqs] /\ \A r \in OnTheWay : r.id \in Ids
  BY TypeParts, WayFacts DEF StoreInv, DbOK
<1>1. CASE UNCHANGED <<items, batch, counted>>
  BY <1>1 DEF OnTheWay
<1>2. CASE SendCommand
  BY <1>2, SendFacts DEF SendCommand
<1>3. CASE Enqueue
  <2>1. PICK record \in ItemType :
              \/ items' = items /\ counted' = counted \cup {record}
              \/ UNCHANGED counted /\ Records(items') = Records(items) \cup {record}
    BY <1>3, EnqueueFacts
  <2>2. Records(items) \subseteq Records(items') /\ counted \subseteq counted' /\ batch' = batch
    BY <1>3, <2>1 DEF Enqueue
  <2> QED
    BY <2>2 DEF OnTheWay
<1>4. CASE TakeRecord
  BY <1>4, TakeFacts DEF TakeRecord
<1>5. CASE DropRecord
  <2>1. Records(items) = Records(items') \cup {Head(items)} /\ batch' = batch /\ counted' = counted \cup {Head(items)}
    BY <1>5, TakenFacts DEF DropRecord
  <2> QED
    BY <2>1 DEF OnTheWay
<1>6. CASE TakeStart
  <2>1. Records(items) = Records(items') /\ batch' = batch /\ counted' = counted
    BY <1>6, TakenFacts DEF TakeStart, IsRecord
  <2> QED
    BY <2>1 DEF OnTheWay
<1>7. CASE TakeCommand \/ FlushFull \/ FlushTimer \/ TakeDuration \/ TakeSweep
  <2>1. Flush /\ (items' = items \/ (Taken /\ ~IsRecord(Head(items))))
    BY <1>7 DEF TakeCommand, FlushFull, FlushTimer, TakeDuration, TakeSweep, FlushThen, IsRecord
  <2>2. Records(items') = Records(items)
    BY <2>1, TakenFacts
  <2>3. CASE FlushNothing
    BY <2>2, <2>3 DEF FlushNothing, OnTheWay
  <2>4. ASSUME NEW k \in Ids \ terminal, FlushOf(k)
        PROVE  /\ counted \subseteq counted'
               /\ \A r \in Records(batch) : r \in counted' \/ r.seq \in events'[r.id]
    <3>1. \A r \in Records(batch) : r.id = k
      BY <2>4 DEF FlushOf
    <3>2. CASE FlushWrites(k)
      BY <1>t, <3>1, <3>2 DEF FlushWrites
    <3>3. CASE FlushLoses(k)
      BY <3>3 DEF FlushLoses
    <3> QED
      BY <2>4, <3>2, <3>3 DEF FlushOf
  <2> QED
    BY <2>1, <2>2, <2>3, <2>4, FlushEffect DEF OnTheWay
<1> QED
  BY <1>1, <1>2, <1>3, <1>4, <1>5, <1>6, <1>7
     DEF Next, CallStep, WriterStep, vars, StartRecording, StopRecording,
         DeleteRecording, Shutdown, Expire, SendTimeout, WaitDone, WaitTimeout, MarkTerminal, RunStop, RunDelete,
         SweepDelete, RunStart, RunExpire, SweepOver, DurationTimer, SweepTimer

\* The history grows by the record Publish has just numbered, which is queued or counted.
LEMMA NextIssues ==
    ASSUME StoreInv, [Next]_vars, NEW r \in issued'
    PROVE  /\ ~Restart
           /\ r \in issued \/ (r.id \in Ids /\ r \in OnTheWay' \cup counted')
<1> USE DEF db, store, calls, limits, writer, history
<1>1. ~Restart
  BY DEF Restart
<1>2. CASE Enqueue
  <2>1. PICK record \in ItemType :
           /\ record = Item("record", current.id, current.nextSeq + 1, None)
           /\ current.id \in Ids /\ issued' = issued \cup {record}
           /\ (counted' = counted \cup {record}) \/ (Records(items') = Records(items) \cup {record})
    BY <1>2, EnqueueFacts
  <2>2. record.id \in Ids
    BY <2>1 DEF Item
  <2> QED
    BY <1>1, <2>1, <2>2 DEF OnTheWay
<1>3. CASE issued' \subseteq issued
  BY <1>1, <1>3
<1>4. CASE RunDelete \/ SweepDelete
  <2>1. issued' \subseteq issued
    BY <1>4 DEF RunDelete, SweepDelete, Deleted, DeletedPartly
  <2> QED
    BY <1>3, <2>1
<1> QED
  BY <1>1, <1>2, <1>3, <1>4
     DEF Next, CallStep, WriterStep, vars, StartRecording, StopRecording,
         DeleteRecording, Shutdown, Expire, SendCommand, SendTimeout, WaitDone, WaitTimeout, TakeRecord,
         DropRecord, TakeStart, TakeCommand, FlushThen, FlushFull, FlushTimer, TakeDuration, TakeSweep,
         MarkTerminal, RunStop, RunStart, RunExpire, SweepOver, DurationTimer, SweepTimer

\* No event is lost silently: one that got a sequence number from this process is stored,
\* on its way, or counted in Stats, until its recording is deleted; every way a record leaves
\* the queue or the batch counts or commits it.
THEOREM AccountedAlways == Spec => []Accounted
<1> DEFINE Held == \A r \in issued : r.id \in Ids /\ (r.seq \in events[r.id] \/ r \in OnTheWay \cup counted)
<1>1. Init => Held
  BY DEF Init
<1>2. StoreInv /\ Held /\ [Next]_vars => Held'
  <2> SUFFICES ASSUME StoreInv, Held, [Next]_vars, NEW r \in issued'
               PROVE  r.id \in Ids /\ (r.seq \in events'[r.id] \/ r \in OnTheWay' \cup counted')
    OBVIOUS
  <2>1. ~Restart /\ (r \in issued \/ (r.id \in Ids /\ r \in OnTheWay' \cup counted'))
    BY NextIssues
  <2>2. CASE r \in issued
    <3>1. r.id \in Ids /\ (r.seq \in events[r.id] \/ r \in OnTheWay \/ r \in counted)
      BY <2>2
    <3>2. events[r.id] \subseteq events'[r.id]
      BY <2>2, <3>1, NextForgets
    <3>3. counted \subseteq counted' /\ (r \in OnTheWay => r \in OnTheWay' \/ r \in counted' \/ r.seq \in events'[r.id])
      BY <2>1, NextDelivers
    <3> QED
      BY <3>1, <3>2, <3>3
  <2> QED
    BY <2>1, <2>2
<1>3. StoreInv /\ Held => Accounted
  BY PendingFacts DEF Accounted
<1> HIDE DEF Held
<1> QED
  BY <1>1, <1>2, <1>3, StoreInvariance, PTL DEF Spec

-----------------------------------------------------------------------------
(* The limit. *)

\* What a batch adds to the events of its recording.
LEMMA StoredCounts ==
    ASSUME StoreInv, NEW id \in Ids \ terminal, FlushOf(id), FlushWrites(id)
    PROVE  /\ totals'[id] = totals[id] + Cardinality(Records(batch))
           /\ Cardinality(Records(batch)) \in Nat /\ Cardinality(Records(batch)) <= BatchSize
           /\ Cardinality(events'[id]) <= Cardinality(events[id]) + Cardinality(Records(batch))
           /\ \A k \in Ids \ {id} : events'[k] = events[k] /\ totals'[k] = totals[k]
<1> DEFINE R == Records(batch)  S == {r.seq : r \in R}
<1>t. /\ events \in [Ids -> SUBSET Seqs] /\ totals \in [Ids -> 0..MaxSeq] /\ Len(batch) <= BatchSize
      /\ Len(batch) \in Nat
  BY TypeParts DEF StoreInv, DbOK, CountsOK, BatchOK
<1>1. events'[id] = events[id] \cup S /\ totals'[id] = totals[id] + Cardinality(R)
      /\ \A k \in Ids \ {id} : events'[k] = events[k] /\ totals'[k] = totals[k]
  BY <1>t DEF FlushWrites
<1>2. R # {} /\ \A r \in R : r.id = id
  BY DEF FlushOf
<1>3. IsFiniteSet(R) /\ Cardinality(R) \in Nat /\ Cardinality(R) <= Len(batch)
  BY <1>2, BatchCounts
<1>4. [r \in R |-> r.seq] \in Surjection(R, S)
  BY DEF Surjection
<1> HIDE DEF R, S
<1>5. IsFiniteSet(S) /\ Cardinality(S) <= Cardinality(R)
  BY <1>3, <1>4, FS_Surjection
<1>6. IsFiniteSet(Seqs)
  BY StoreBounds, FS_Interval DEF Seqs
<1>7. IsFiniteSet(events[id])
  BY <1>t, <1>6, FS_Subset
<1>8. /\ Cardinality(events[id] \cup S) = Cardinality(events[id]) + Cardinality(S) - Cardinality(events[id] \cap S)
  BY <1>5, <1>7, FS_Union
<1>9. Cardinality(events[id]) \in Nat /\ Cardinality(S) \in Nat /\ Cardinality(events[id] \cap S) \in Nat
  <2>1. IsFiniteSet(events[id] \cap S)
    BY <1>7, FS_Subset
  <2> QED
    BY <1>5, <1>7, <2>1, FS_CardinalityType
<1>10. Cardinality(events[id] \cup S) <= Cardinality(events[id]) + Cardinality(R)
  BY <1>3, <1>5, <1>8, <1>9
<1>11. Cardinality(R) <= BatchSize
  BY <1>3, <1>t, SizesAssumption
<1> QED
  BY <1>1, <1>3, <1>10, <1>11 DEF R

\* The events of a recording are finitely many, and a step that takes some away leaves fewer.
LEMMA FewerEvents ==
    ASSUME StoreInv, NEW id \in Ids
    PROVE  /\ Cardinality(events[id]) \in Nat
           /\ events'[id] \subseteq events[id] =>
                 Cardinality(events'[id]) \in Nat /\ Cardinality(events'[id]) <= Cardinality(events[id])
<1>1. events[id] \subseteq Seqs
  BY TypeParts DEF StoreInv, DbOK
<1>2. IsFiniteSet(Seqs)
  BY StoreBounds, FS_Interval DEF Seqs
<1>3. IsFiniteSet(events[id])
  BY <1>1, <1>2, FS_Subset
<1>4. events'[id] \subseteq events[id] =>
          IsFiniteSet(events'[id]) /\ Cardinality(events'[id]) <= Cardinality(events[id])
  BY <1>3, FS_Subset
<1> QED
  BY <1>3, <1>4, FS_CardinalityType

\* A mark stays until markTerminal has ended its recording.
LEMMA NextMark ==
    ASSUME StoreInv, [Next]_vars, ~Restart
    PROVE  terminal \subseteq terminal' /\ (mark' = mark \/ mark = NoMark \/ mark.id \in terminal')
<1> USE DEF db, store, calls, limits, writer, history
<1>1. terminal \subseteq terminal'
  BY NextRows
<1>2. CASE UNCHANGED mark \/ mark = NoMark
  BY <1>1, <1>2
<1>3. CASE MarkTerminal
  BY <1>1, <1>3 DEF MarkTerminal, Ended
<1> QED
  BY <1>2, <1>3
     DEF Next, CallStep, WriterStep, vars, StartRecording, StopRecording,
         DeleteRecording, Shutdown, Expire, SendCommand, SendTimeout, WaitDone, WaitTimeout, Enqueue, TakeRecord,
         DropRecord, TakeStart, TakeCommand, FlushThen, FlushFull, FlushTimer, TakeDuration, TakeSweep, Select,
         WriterFree, Runs, RunStop, RunDelete, SweepDelete, RunStart, RunExpire, SweepOver, DurationTimer, SweepTimer

\* A total goes back to zero only with the events.
LEMMA NextResets ==
    ASSUME StoreInv, [Next]_vars, ~Restart, NoneAdded, NEW id \in Ids, totals'[id] # totals[id]
    PROVE  events'[id] = {} /\ totals'[id] = 0
<1> USE DEF db, store, calls, limits, writer, history
<1>t. events \in [Ids -> SUBSET Seqs] /\ totals \in [Ids -> 0..MaxSeq]
  BY TypeParts DEF StoreInv, DbOK, CountsOK
<1>1. totals'[id] = 0
  BY DEF NoneAdded
<1>2. CASE RunDelete
  <2>1. Deleted(cmd.id) /\ totals' = [totals EXCEPT ![cmd.id] = 0]
    BY <1>2 DEF RunDelete
  <2>2. id = cmd.id
    BY <1>t, <2>1
  <2> QED
    BY <1>1, <1>t, <2>1, <2>2 DEF Deleted
<1>3. CASE TakeCommand \/ FlushFull \/ FlushTimer \/ TakeDuration \/ TakeSweep
  <2>1. Flush
    BY <1>3 DEF TakeCommand, FlushFull, FlushTimer, TakeDuration, TakeSweep, FlushThen
  <2>2. PICK k \in Ids \ terminal : FlushOf(k) /\ FlushWrites(k)
    BY <2>1, FlushEffect DEF FlushNothing, FlushOf, FlushLoses
  <2>3. /\ totals'[k] = totals[k] + Cardinality(Records(batch)) /\ Cardinality(Records(batch)) \in Nat
        /\ \A i \in Ids \ {k} : totals'[i] = totals[i]
    BY <2>2, StoredCounts
  <2>4. k = id /\ totals[id] \in Nat
    BY <1>t, <2>3, StoreBounds
  <2> QED
    BY <1>1, <2>3, <2>4
<1> QED
  BY <1>2, <1>3
     DEF Next, CallStep, WriterStep, vars, StartRecording, StopRecording,
         DeleteRecording, Shutdown, Expire, SendCommand, SendTimeout, WaitDone, WaitTimeout, Enqueue, TakeRecord,
         DropRecord, TakeStart, MarkTerminal, RunStop, SweepDelete, RunStart, RunExpire, SweepOver,
         DurationTimer, SweepTimer

\* The two halves of TotalsBound, of one recording.
WithinLimit(id) == Cardinality(events[id]) < MaxEvents + BatchSize
CountedUp(id) == /\ Cardinality(events[id]) <= totals[id]
                 /\ id \in terminal \/ mark.id = id \/ totals[id] < MaxEvents

LEMMA BoundParts ==
    TotalsBound <=> \A id \in Ids : WithinLimit(id) /\ (id >= nextId \/ Writable1(id) => CountedUp(id))
  BY DEF TotalsBound, WithinLimit, CountedUp, Writable1

LEMMA NextTotalsBound ==
    ASSUME StoreInv, TotalsBound, [Next]_vars
    PROVE  TotalsBound'
<1>p. (\A id \in Ids : WithinLimit(id)' /\ (id >= nextId' \/ Writable1(id)' => CountedUp(id)')) => TotalsBound'
  BY DEF TotalsBound, WithinLimit, CountedUp, Writable1
<1> SUFFICES ASSUME NEW id \in Ids
             PROVE  WithinLimit(id)' /\ (id >= nextId' \/ Writable1(id)' => CountedUp(id)')
  BY <1>p
<1>t. /\ events \in [Ids -> SUBSET Seqs] /\ totals \in [Ids -> 0..MaxSeq] /\ id \in Int /\ nextId \in Int
      /\ MaxEvents \in Nat \ {0} /\ BatchSize \in Nat \ {0} /\ NoMark.id = None /\ id # None /\ totals[id] \in Nat
  BY TypeParts, StoreBounds, LimitsAssumption, SizesAssumption
     DEF StoreInv, DbOK, CountsOK, Ids, NoMark, None
<1>0. WithinLimit(id) /\ (id >= nextId \/ Writable1(id) => CountedUp(id))
  BY BoundParts
<1>c. Cardinality(events[id]) \in Nat
  BY FewerEvents
<1>u. id >= nextId' => CountedUp(id)'
  <2> SUFFICES ASSUME id >= nextId' PROVE CountedUp(id)'
    OBVIOUS
  <2>1. events'[id] = {} /\ totals'[id] = 0
    BY NextUnused DEF Unused
  <2>2. Cardinality(events'[id]) = 0
    BY <2>1, FS_EmptySet
  <2> QED
    BY <1>t, <2>1, <2>2 DEF CountedUp
<1>w. Writable1(id)' => ~Restart /\ CountedUp(id)
  <2> SUFFICES ASSUME Writable1(id)' PROVE ~Restart /\ CountedUp(id)
    OBVIOUS
  <2>1. ~Restart /\ (Writable1(id) \/ (StartRecording /\ id = nextId))
    BY NextWritable
  <2>2. id = nextId => id >= nextId
    BY <1>t
  <2> QED
    BY <1>0, <2>1, <2>2
<1>1. ASSUME events'[id] \subseteq events[id], totals'[id] = totals[id] \/ (events'[id] = {} /\ totals'[id] = 0) \/ Restart
      PROVE  WithinLimit(id)' /\ (Writable1(id)' => CountedUp(id)')
  <2>1. Cardinality(events'[id]) \in Nat /\ Cardinality(events'[id]) <= Cardinality(events[id])
    BY <1>1, FewerEvents
  <2>2. WithinLimit(id)'
    BY <1>0, <1>c, <1>t, <2>1 DEF WithinLimit
  <2>3. ASSUME Writable1(id)' PROVE CountedUp(id)'
    <3>1. ~Restart /\ CountedUp(id)
      BY <1>w, <2>3
    <3>2. CASE totals'[id] = totals[id]
      <4>1. Cardinality(events'[id]) <= totals'[id]
        BY <1>c, <1>t, <2>1, <3>1, <3>2 DEF CountedUp
      <4>2. id \in terminal => id \in terminal'
        BY <3>1, NextMark
      <4>3. mark.id = id => mark'.id = id \/ id \in terminal'
        BY <1>t, <3>1, NextMark
      <4> QED
        BY <3>1, <3>2, <4>1, <4>2, <4>3 DEF CountedUp
    <3>3. CASE events'[id] = {} /\ totals'[id] = 0
      <4>1. Cardinality(events'[id]) = 0
        BY <3>3, FS_EmptySet
      <4> QED
        BY <1>t, <3>3, <4>1 DEF CountedUp
    <3> QED
      BY <1>1, <3>1, <3>2, <3>3
  <2> QED
    BY <2>2, <2>3
<1>2. CASE NoneAdded
  <2>1. events'[id] \subseteq events[id]
    BY <1>2 DEF NoneAdded
  <2>2. totals'[id] = totals[id] \/ (events'[id] = {} /\ totals'[id] = 0) \/ Restart
    BY <1>2, NextResets
  <2> QED
    BY <1>1, <1>u, <2>1, <2>2
<1>3. CASE FlushStep
  <2>0. Flush /\ mark = NoMark /\ terminal' = terminal
    BY <1>3 DEF FlushStep, FlushThen
  <2>1. CASE FlushNothing
    BY <1>1, <1>u, <2>1 DEF FlushNothing
  <2>2. ASSUME NEW k \in Ids \ terminal, FlushOf(k) PROVE WithinLimit(id)' /\ (Writable1(id)' => CountedUp(id)')
    <3>1. CASE FlushLoses(k)
      BY <1>1, <3>1 DEF FlushLoses
    <3>2. CASE FlushWrites(k) /\ k # id
      <4>1. events'[id] = events[id] /\ totals'[id] = totals[id]
        BY <2>2, <3>2, StoredCounts
      <4> QED
        BY <1>1, <4>1
    <3>3. CASE FlushWrites(k) /\ k = id
      <4>1. /\ totals'[id] = totals[id] + Cardinality(Records(batch))
            /\ Cardinality(Records(batch)) \in Nat /\ Cardinality(Records(batch)) <= BatchSize
            /\ Cardinality(events'[id]) <= Cardinality(events[id]) + Cardinality(Records(batch))
        BY <2>2, <3>3, StoredCounts
      <4>2. Writable1(id)
        <5>1. PICK r \in Records(batch) : r.id = id
          BY <2>2, <3>3 DEF FlushOf
        <5> QED
          BY <5>1 DEF Writable1, OnTheWay
      <4>3. Cardinality(events[id]) <= totals[id] /\ totals[id] < MaxEvents
        BY <1>0, <1>t, <2>0, <2>2, <3>3, <4>2 DEF CountedUp
      <4>e. Cardinality(events'[id]) \in Nat
        <5>1. events'[id] \subseteq Seqs
          BY NextTypes DEF TypeOK
        <5>2. IsFiniteSet(Seqs)
          BY StoreBounds, FS_Interval DEF Seqs
        <5>3. IsFiniteSet(events'[id])
          BY <5>1, <5>2, FS_Subset
        <5> QED
          BY <5>3, FS_CardinalityType
      <4>4. WithinLimit(id)' /\ Cardinality(events'[id]) <= totals'[id]
        BY <1>c, <1>t, <4>1, <4>3, <4>e DEF WithinLimit
      <4>5. totals'[id] >= MaxEvents => mark'.id = id
        BY <3>3 DEF FlushWrites
      <4>6. totals'[id] < MaxEvents \/ totals'[id] >= MaxEvents
        BY <1>t, <4>1
      <4> QED
        BY <4>4, <4>5, <4>6 DEF CountedUp
    <3> QED
      BY <2>2, <3>1, <3>2, <3>3 DEF FlushOf
  <2> QED
    BY <1>u, <2>0, <2>1, <2>2, FlushEffect
<1> QED
  BY <1>2, <1>3, NextAdds

\* No recording holds more events than the limit and its final batch, whatever the batch and
\* limit are and however many writes fail: writeBatch's running total is never below what
\* the database holds, and a recording over the limit is marked before another flush.
THEOREM LimitHoldsAlways == Spec => []LimitHolds
<1>1. Init => TotalsBound
  <2> SUFFICES ASSUME Init, NEW id \in Ids PROVE WithinLimit(id) /\ CountedUp(id)
    BY BoundParts
  <2>1. events[id] = {} /\ totals[id] = 0
    BY DEF Init
  <2>2. Cardinality(events[id]) = 0
    BY <2>1, FS_EmptySet
  <2> QED
    BY <2>1, <2>2, LimitsAssumption, SizesAssumption DEF WithinLimit, CountedUp
<1>2. StoreInv /\ TotalsBound /\ [Next]_vars => TotalsBound'
  BY NextTotalsBound
<1>3. TotalsBound => LimitHolds
  BY DEF TotalsBound, LimitHolds
<1> QED
  BY <1>1, <1>2, <1>3, StoreInvariance, PTL DEF Spec
=============================================================================
