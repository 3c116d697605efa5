----------------------- MODULE CommandRegistryProofs -----------------------
(***************************************************************************)
(* Proofs about CommandRegistry for every set of keys, callers and         *)
(* operators, every quarantine and every bound.                            *)
(*                                                                         *)
(* The argument has two layers, each an inductive invariant: who owns a    *)
(* key (Ownership), and what an ambiguity has been through (Ambiguity),    *)
(* which uses the first.                                                   *)
(***************************************************************************)
EXTENDS CommandRegistry, TLAPS

\* The steps of Arm between the two locked sections that claim and free a key.
Holding == {"write", "unroutable", "writeFailed", "announce", "await", "settle"}

\* An Arm call that is not idle has a transaction of its own; until it settles
\* it, the transaction is PENDING and holds its key.
CallsOwn ==
    /\ \A c \in Callers :
        /\ pc[c] # "idle" => callerTx[c] \in TxId
        /\ pc[c] \in Holding => /\ inflight[key[callerTx[c]]] = callerTx[c]
                                /\ state[callerTx[c]] = "PENDING"
        /\ pc[c] = "settle" => verdict[c] # "PENDING"
        /\ pc[c] = "report" => state[callerTx[c]] \in Terminal
    /\ \A c, d \in Callers :
        c # d /\ pc[c] # "idle" /\ pc[d] # "idle" => callerTx[c] # callerTx[d]

\* What the maps of the registry hold belongs to the key it is filed under.
KeysOwn ==
    \A k \in Keys :
        /\ inflight[k] # None => /\ key[inflight[k]] = k
                                 /\ state[inflight[k]] = "PENDING"
        /\ poisoned[k] # None => /\ key[poisoned[k]] = k
                                 /\ state[poisoned[k]] \in Ambiguous

\* Transactions past nextID have not been issued; the others have.
Numbered ==
    /\ \A t \in TxId : state[t] = "UNISSUED" <=> nextID < t
    /\ \A o \in Operators : resolver[o] # None => state[resolver[o]] \in Ambiguous

Ownership == TypeOK /\ Exclusive /\ CallsOwn /\ KeysOwn /\ Numbered

LEMMA InitOwnership == Init => Ownership
<1> SUFFICES ASSUME Init PROVE Ownership
  OBVIOUS
<1> USE DEF Init, None, TxId
<1>1. (CHOOSE k \in Keys : TRUE) \in Keys
  BY KeysAssumption
<1>2. TypeOK
  <2>1. key \in [TxId -> Keys] /\ attestedAs \in [TxId -> Nat \X Nat]
    BY <1>1
  <2>2. log \in Seq(Snapshot) /\ air \in SUBSET Answer
    OBVIOUS
  <2>3. nextID \in 0..MaxTx
    BY BoundAssumption
  <2> QED
    BY <2>1, <2>2, <2>3 DEF TypeOK, NewTx, PCs, States
<1>3. Exclusive /\ CallsOwn /\ KeysOwn
  BY DEF Exclusive, CallsOwn, KeysOwn, Holding
<1>4. Numbered
  BY BoundAssumption DEF Numbered
<1> QED
  BY <1>2, <1>3, <1>4 DEF Ownership

\* The id of no transaction is None.
LEMMA NoneIsNoTx == None \notin TxId
  BY BoundAssumption DEF None, TxId

\* The lazy removal of an expired quarantine keeps or clears one entry.
LEMMA ExpiryFacts ==
    ASSUME TypeOK, NEW k \in Keys
    PROVE  /\ AfterExpiry(k) \in [Keys -> Nat]
           /\ \A j \in Keys : AfterExpiry(k)[j] \in {quarantined[j], None}
           /\ ~Quarantined(k) => AfterExpiry(k)[k] = None
  BY DEF TypeOK, AfterExpiry, None

\* An Arm call that has issued and not settled has its key to itself.
LEMMA HolderFacts ==
    ASSUME Ownership, NEW c \in Callers, pc[c] \in Holding
    PROVE  /\ callerTx[c] \in TxId /\ key[callerTx[c]] \in Keys
           /\ inflight[key[callerTx[c]]] = callerTx[c]
           /\ state[callerTx[c]] = "PENDING"
           /\ poisoned[key[callerTx[c]]] = None
           /\ quarantined[key[callerTx[c]]] = None
           /\ \A d \in Callers \ {c} :
                pc[d] # "idle" => callerTx[d] # callerTx[c]
           /\ \A d \in Callers \ {c} :
                pc[d] \in Holding => key[callerTx[d]] # key[callerTx[c]]
<1>1. callerTx[c] \in TxId
  BY DEF Ownership, CallsOwn, Holding
<1>2. key[callerTx[c]] \in Keys
  BY <1>1 DEF Ownership, TypeOK
<1>3. inflight[key[callerTx[c]]] = callerTx[c] /\ state[callerTx[c]] = "PENDING"
  BY DEF Ownership, CallsOwn
<1>4. \A d \in Callers \ {c} : pc[d] # "idle" => callerTx[d] # callerTx[c]
  BY DEF Ownership, CallsOwn, Holding
<1>5. \A d \in Callers \ {c} :
        pc[d] \in Holding => key[callerTx[d]] # key[callerTx[c]]
  BY <1>3, <1>4 DEF Ownership, CallsOwn, Holding
<1>6. poisoned[key[callerTx[c]]] = None /\ quarantined[key[callerTx[c]]] = None
  BY <1>1, <1>2, <1>3, NoneIsNoTx DEF Ownership, Exclusive
<1> QED
  BY <1>1, <1>2, <1>3, <1>4, <1>5, <1>6

\* One step of any goroutine keeps the ownership of keys and transactions.
LEMMA NextOwnership == Ownership /\ [Next]_vars => Ownership'
<1> SUFFICES ASSUME Ownership, [Next]_vars PROVE Ownership'
  OBVIOUS
<1> USE NoneIsNoTx DEF Ownership, registry, txVars, callVars
<1>0. CASE UNCHANGED vars
  BY <1>0 DEF vars, TypeOK, Exclusive, CallsOwn, KeysOwn, Numbered
<1>1. ASSUME NEW c \in Callers, NEW k \in Keys, ArmIssue(c, k)
      PROVE  Ownership'
  <2>0. nextID' = nextID + 1 /\ nextID' \in TxId /\ nextID' \in 0..MaxTx
    BY <1>1, BoundAssumption DEF TypeOK, TxId, ArmIssue
  <2>a. state[nextID'] = "UNISSUED"
    BY <2>0 DEF TypeOK, Numbered
  <2>b. /\ \A d \in Callers : pc[d] # "idle" => callerTx[d] # nextID'
        /\ \A j \in Keys : inflight[j] # None => inflight[j] # nextID'
        /\ \A j \in Keys : poisoned[j] # None => poisoned[j] # nextID'
    <3>1. "UNISSUED" \notin Terminal /\ "UNISSUED" \notin Ambiguous
      BY DEF Terminal, Ambiguous, Answered
    <3>2. \A d \in Callers : pc[d] # "idle" => pc[d] \in Holding \/ pc[d] = "report"
      BY DEF TypeOK, PCs, Holding
    <3>3. \A d \in Callers : pc[d] # "idle" => callerTx[d] # nextID'
      BY <2>a, <3>1, <3>2 DEF CallsOwn
    <3> QED
      BY <2>a, <3>1, <3>3 DEF KeysOwn
  <2>1. TypeOK'
    BY <1>1, <2>0, ExpiryFacts DEF TypeOK, ArmIssue, Refuses, PCs, States
  <2>2. Exclusive'
    BY <1>1, <2>0, ExpiryFacts DEF TypeOK, Exclusive, ArmIssue, Refuses
  <2>3. CallsOwn'
    BY <1>1, <2>0, <2>a, <2>b DEF TypeOK, CallsOwn, KeysOwn, ArmIssue, Refuses, Holding
  <2>4. KeysOwn'
    BY <1>1, <2>0, <2>a, <2>b DEF TypeOK, CallsOwn, KeysOwn, ArmIssue, Refuses
  <2>5. Numbered'
    BY <1>1, <2>0, <2>a, <2>b DEF TypeOK, CallsOwn, KeysOwn, Numbered, ArmIssue, Refuses, Terminal, Ambiguous, Answered, TxId
  <2> QED
    BY <2>1, <2>2, <2>3, <2>4, <2>5
<1>2. ASSUME NEW c \in Callers,
            NEW outcome \in {"sent", "error", "unknownLink"}, ArmWrite(c, outcome)
      PROVE  Ownership'
  <2>h. pc[c] \in Holding
    BY <1>2 DEF ArmWrite, Holding
  <2> DEFINE t == callerTx[c]
  <2>0. /\ t \in TxId /\ key[t] \in Keys
        /\ inflight[key[t]] = t /\ state[t] = "PENDING"
        /\ poisoned[key[t]] = None /\ quarantined[key[t]] = None
        /\ \A d \in Callers \ {c} : pc[d] # "idle" => callerTx[d] # t
        /\ \A d \in Callers \ {c} : pc[d] \in Holding => key[callerTx[d]] # key[t]
    BY <2>h, HolderFacts
  <2>w. air' \in SUBSET Answer
    BY <1>2, <2>0, AckDelayAssumption DEF ArmWrite, Answer, TypeOK
  <2>1. TypeOK'
    BY <1>2, <2>w DEF TypeOK, ArmWrite, AfterWrite, PCs
  <2>2. Exclusive'
    BY <1>2 DEF TypeOK, Exclusive, ArmWrite, AfterWrite
  <2>3. CallsOwn'
    BY <1>2, <2>0 DEF TypeOK, CallsOwn, KeysOwn, ArmWrite, AfterWrite, Holding
  <2>4. KeysOwn'
    BY <1>2 DEF TypeOK, CallsOwn, KeysOwn, ArmWrite, AfterWrite
  <2>5. Numbered'
    BY <1>2 DEF TypeOK, CallsOwn, KeysOwn, Numbered, ArmWrite, AfterWrite
  <2> QED
    BY <2>1, <2>2, <2>3, <2>4, <2>5
<1>3. ASSUME NEW c \in Callers, ArmUnroutable(c)
      PROVE  Ownership'
  <2>h. pc[c] \in Holding
    BY <1>3 DEF ArmUnroutable, Holding
  <2> DEFINE t == callerTx[c]
  <2>0. /\ t \in TxId /\ key[t] \in Keys
        /\ inflight[key[t]] = t /\ state[t] = "PENDING"
        /\ poisoned[key[t]] = None /\ quarantined[key[t]] = None
        /\ \A d \in Callers \ {c} : pc[d] # "idle" => callerTx[d] # t
        /\ \A d \in Callers \ {c} : pc[d] \in Holding => key[callerTx[d]] # key[t]
    BY <2>h, HolderFacts
  <2>1. TypeOK'
    BY <1>3, <2>0 DEF TypeOK, ArmUnroutable, PCs, States
  <2>2. Exclusive'
    BY <1>3, <2>0 DEF TypeOK, Exclusive, ArmUnroutable
  <2>3. CallsOwn'
    BY <1>3, <2>0 DEF TypeOK, CallsOwn, KeysOwn, ArmUnroutable, Holding, Terminal, Ambiguous, Answered
  <2>4. KeysOwn'
    <3>1. ASSUME NEW j \in Keys, j # key[t]
          PROVE  /\ inflight'[j] = inflight[j] /\ poisoned'[j] = poisoned[j]
                 /\ inflight[j] # t /\ poisoned[j] # t
      BY <1>3, <2>0, <3>1 DEF TypeOK, KeysOwn, ArmUnroutable
    <3>2. ASSUME NEW j \in Keys, j # key[t], NEW x \in TxId, x # t
          PROVE  state'[x] = state[x] /\ key'[x] = key[x]
      BY <1>3, <2>0, <3>2 DEF TypeOK, ArmUnroutable
    <3>3. /\ inflight'[key[t]] = None /\ key'[t] = key[t]
          /\ poisoned'[key[t]] # None => poisoned'[key[t]] = t /\ state'[t] \in Ambiguous
      BY <1>3, <2>0 DEF TypeOK, Ambiguous, ArmUnroutable
    <3>4. \A j \in Keys : /\ inflight[j] \in TxId \cup {None}
                         /\ poisoned[j] \in TxId \cup {None}
      BY DEF TypeOK
    <3> QED
      BY <2>0, <3>1, <3>2, <3>3, <3>4 DEF KeysOwn
  <2>5. Numbered'
    BY <1>3, <2>0 DEF TypeOK, CallsOwn, KeysOwn, Numbered, ArmUnroutable, Terminal, Ambiguous, Answered
  <2> QED
    BY <2>1, <2>2, <2>3, <2>4, <2>5
<1>4. ASSUME NEW c \in Callers, ArmWriteFailed(c)
      PROVE  Ownership'
  <2>h. pc[c] \in Holding
    BY <1>4 DEF ArmWriteFailed, Holding
  <2> DEFINE t == callerTx[c]
  <2>0. /\ t \in TxId /\ key[t] \in Keys
        /\ inflight[key[t]] = t /\ state[t] = "PENDING"
        /\ poisoned[key[t]] = None /\ quarantined[key[t]] = None
        /\ \A d \in Callers \ {c} : pc[d] # "idle" => callerTx[d] # t
        /\ \A d \in Callers \ {c} : pc[d] \in Holding => key[callerTx[d]] # key[t]
    BY <2>h, HolderFacts
  <2>1. TypeOK'
    BY <1>4, <2>0 DEF TypeOK, ArmWriteFailed, PCs, States, Terminal, Ambiguous, Answered
  <2>2. Exclusive'
    BY <1>4, <2>0 DEF TypeOK, Exclusive, ArmWriteFailed
  <2>3. CallsOwn'
    BY <1>4, <2>0 DEF TypeOK, CallsOwn, KeysOwn, ArmWriteFailed, Holding, Terminal, Ambiguous, Answered
  <2>4. KeysOwn'
    <3>1. ASSUME NEW j \in Keys, j # key[t]
          PROVE  /\ inflight'[j] = inflight[j] /\ poisoned'[j] = poisoned[j]
                 /\ inflight[j] # t /\ poisoned[j] # t
      BY <1>4, <2>0, <3>1 DEF TypeOK, KeysOwn, ArmWriteFailed
    <3>2. ASSUME NEW j \in Keys, j # key[t], NEW x \in TxId, x # t
          PROVE  state'[x] = state[x] /\ key'[x] = key[x]
      BY <1>4, <2>0, <3>2 DEF TypeOK, ArmWriteFailed
    <3>3. /\ inflight'[key[t]] = None /\ key'[t] = key[t]
          /\ poisoned'[key[t]] # None => poisoned'[key[t]] = t /\ state'[t] \in Ambiguous
      BY <1>4, <2>0 DEF TypeOK, Ambiguous, ArmWriteFailed
    <3>4. \A j \in Keys : /\ inflight[j] \in TxId \cup {None}
                         /\ poisoned[j] \in TxId \cup {None}
      BY DEF TypeOK
    <3> QED
      BY <2>0, <3>1, <3>2, <3>3, <3>4 DEF KeysOwn
  <2>5. Numbered'
    BY <1>4, <2>0 DEF TypeOK, CallsOwn, KeysOwn, Numbered, ArmWriteFailed, Terminal, Ambiguous, Answered
  <2> QED
    BY <2>1, <2>2, <2>3, <2>4, <2>5
<1>5. ASSUME NEW c \in Callers, ArmAnnounce(c)
      PROVE  Ownership'
  <2>h. pc[c] \in Holding
    BY <1>5 DEF ArmAnnounce, Holding
  <2> DEFINE t == callerTx[c]
  <2>0. /\ t \in TxId /\ key[t] \in Keys
        /\ inflight[key[t]] = t /\ state[t] = "PENDING"
        /\ poisoned[key[t]] = None /\ quarantined[key[t]] = None
        /\ \A d \in Callers \ {c} : pc[d] # "idle" => callerTx[d] # t
        /\ \A d \in Callers \ {c} : pc[d] \in Holding => key[callerTx[d]] # key[t]
    BY <2>h, HolderFacts
  <2>w. log' \in Seq(Snapshot)
    BY <1>5, <2>0 DEF ArmAnnounce, Published, Snapshot, TypeOK
  <2>1. TypeOK'
    BY <1>5, <2>w DEF TypeOK, ArmAnnounce, Published, PCs
  <2>2. Exclusive'
    BY <1>5 DEF TypeOK, Exclusive, ArmAnnounce, Published
  <2>3. CallsOwn'
    BY <1>5, <2>0 DEF TypeOK, CallsOwn, KeysOwn, ArmAnnounce, Published, Holding
  <2>4. KeysOwn'
    BY <1>5 DEF TypeOK, CallsOwn, KeysOwn, ArmAnnounce, Published
  <2>5. Numbered'
    BY <1>5 DEF TypeOK, CallsOwn, KeysOwn, Numbered, ArmAnnounce, Published
  <2> QED
    BY <2>1, <2>2, <2>3, <2>4, <2>5
<1>6. ASSUME NEW c \in Callers, ArmSelectAck(c)
      PROVE  Ownership'
  <2>h. pc[c] \in Holding
    BY <1>6 DEF ArmSelectAck, Holding
  <2> DEFINE t == callerTx[c]
  <2>0. /\ t \in TxId /\ key[t] \in Keys
        /\ inflight[key[t]] = t /\ state[t] = "PENDING"
        /\ poisoned[key[t]] = None /\ quarantined[key[t]] = None
        /\ \A d \in Callers \ {c} : pc[d] # "idle" => callerTx[d] # t
        /\ \A d \in Callers \ {c} : pc[d] \in Holding => key[callerTx[d]] # key[t]
    BY <2>h, HolderFacts
  <2>w. ackChan[t] \in Ack
    BY <1>6, <2>0 DEF ArmSelectAck, TypeOK
  <2>1. TypeOK'
    BY <1>6, <2>0, <2>w DEF TypeOK, ArmSelectAck, PCs, Ack, Answered
  <2>2. Exclusive'
    BY <1>6 DEF TypeOK, Exclusive, ArmSelectAck
  <2>3. CallsOwn'
    BY <1>6, <2>0 DEF TypeOK, CallsOwn, KeysOwn, ArmSelectAck, Holding
  <2>4. KeysOwn'
    BY <1>6 DEF TypeOK, CallsOwn, KeysOwn, ArmSelectAck
  <2>5. Numbered'
    BY <1>6 DEF TypeOK, CallsOwn, KeysOwn, Numbered, ArmSelectAck
  <2> QED
    BY <2>1, <2>2, <2>3, <2>4, <2>5
<1>7. ASSUME NEW c \in Callers, NEW why \in GiveUp, ArmSelectGiveUp(c, why)
      PROVE  Ownership'
  <2>h. pc[c] \in Holding
    BY <1>7 DEF ArmSelectGiveUp, Holding
  <2> DEFINE t == callerTx[c]
  <2>0. /\ t \in TxId /\ key[t] \in Keys
        /\ inflight[key[t]] = t /\ state[t] = "PENDING"
        /\ poisoned[key[t]] = None /\ quarantined[key[t]] = None
        /\ \A d \in Callers \ {c} : pc[d] # "idle" => callerTx[d] # t
        /\ \A d \in Callers \ {c} : pc[d] \in Holding => key[callerTx[d]] # key[t]
    BY <2>h, HolderFacts
  <2>1. TypeOK'
    BY <1>7, <2>0 DEF TypeOK, ArmSelectGiveUp, GiveUp, PCs
  <2>2. Exclusive'
    BY <1>7 DEF TypeOK, Exclusive, ArmSelectGiveUp, GiveUp
  <2>3. CallsOwn'
    BY <1>7, <2>0 DEF TypeOK, CallsOwn, KeysOwn, ArmSelectGiveUp, GiveUp, Holding
  <2>4. KeysOwn'
    BY <1>7 DEF TypeOK, CallsOwn, KeysOwn, ArmSelectGiveUp, GiveUp
  <2>5. Numbered'
    BY <1>7 DEF TypeOK, CallsOwn, KeysOwn, Numbered, ArmSelectGiveUp, GiveUp
  <2> QED
    BY <2>1, <2>2, <2>3, <2>4, <2>5
<1>8. ASSUME NEW c \in Callers, ArmSettle(c)
      PROVE  Ownership'
  <2>h. pc[c] \in Holding
    BY <1>8 DEF ArmSettle, Holding
  <2> DEFINE t == callerTx[c]
  <2>0. /\ t \in TxId /\ key[t] \in Keys
        /\ inflight[key[t]] = t /\ state[t] = "PENDING"
        /\ poisoned[key[t]] = None /\ quarantined[key[t]] = None
        /\ \A d \in Callers \ {c} : pc[d] # "idle" => callerTx[d] # t
        /\ \A d \in Callers \ {c} : pc[d] \in Holding => key[callerTx[d]] # key[t]
    BY <2>h, HolderFacts
  <2>v. /\ verdict[c] \in Terminal
        /\ verdict[c] \in Ambiguous <=> verdict[c] \in {"TIMED_OUT", "CANCELLED"}
    BY <1>8 DEF ArmSettle, TypeOK, CallsOwn, Terminal, Ambiguous, Answered
  <2>1. TypeOK'
    BY <1>8, <2>0, <2>v DEF TypeOK, ArmSettle, GiveUpPoisons, PCs, States
  <2>2. Exclusive'
    BY <1>8, <2>0 DEF TypeOK, Exclusive, ArmSettle, GiveUpPoisons
  <2>3. CallsOwn'
    BY <1>8, <2>0, <2>v DEF TypeOK, CallsOwn, KeysOwn, ArmSettle, GiveUpPoisons, Holding, Terminal, Ambiguous, Answered
  <2>4. KeysOwn'
    <3>1. ASSUME NEW j \in Keys, j # key[t]
          PROVE  /\ inflight'[j] = inflight[j] /\ poisoned'[j] = poisoned[j]
                 /\ inflight[j] # t /\ poisoned[j] # t
      BY <1>8, <2>0, <3>1 DEF TypeOK, KeysOwn, ArmSettle, GiveUpPoisons
    <3>2. ASSUME NEW j \in Keys, j # key[t], NEW x \in TxId, x # t
          PROVE  state'[x] = state[x] /\ key'[x] = key[x]
      BY <1>8, <2>0, <3>2 DEF TypeOK, ArmSettle
    <3>3. /\ inflight'[key[t]] = None /\ key'[t] = key[t]
          /\ poisoned'[key[t]] # None => poisoned'[key[t]] = t /\ state'[t] \in Ambiguous
      BY <1>8, <2>0, <2>v DEF TypeOK, Ambiguous, ArmSettle, GiveUpPoisons
    <3>4. \A j \in Keys : /\ inflight[j] \in TxId \cup {None}
                         /\ poisoned[j] \in TxId \cup {None}
      BY DEF TypeOK
    <3> QED
      BY <2>0, <3>1, <3>2, <3>3, <3>4 DEF KeysOwn
  <2>5. Numbered'
    <3>1. /\ state' = [state EXCEPT ![t] = verdict[c]]
          /\ UNCHANGED <<nextID, resolver>>
      BY <1>8 DEF ArmSettle
    <3>2. "PENDING" \notin Ambiguous /\ "UNISSUED" \notin Terminal
      BY DEF Ambiguous, Answered, Terminal
    <3>3. \A o \in Operators : resolver[o] # None => resolver[o] \in TxId \ {t}
      BY <2>0, <3>2 DEF TypeOK, Numbered
    <3> QED
      BY <2>0, <2>v, <3>1, <3>2, <3>3 DEF TypeOK, Numbered
  <2> QED
    BY <2>1, <2>2, <2>3, <2>4, <2>5
<1>9. ASSUME NEW c \in Callers, ArmReport(c)
      PROVE  Ownership'
  <2>0. /\ callerTx[c] \in TxId /\ state[callerTx[c]] \in Terminal
        /\ \A d \in Callers \ {c} : pc[d] # "idle" => callerTx[d] # callerTx[c]
    BY <1>9 DEF ArmReport, CallsOwn
  <2>w. log' \in Seq(Snapshot)
    BY <1>9, <2>0 DEF ArmReport, Published, Snapshot, TypeOK
  <2>1. TypeOK'
    BY <1>9, <2>w DEF TypeOK, ArmReport, Published, PCs
  <2>2. Exclusive'
    BY <1>9 DEF TypeOK, Exclusive, ArmReport, Published
  <2>3. CallsOwn'
    BY <1>9, <2>0 DEF TypeOK, CallsOwn, KeysOwn, ArmReport, Published, Holding
  <2>4. KeysOwn'
    BY <1>9 DEF TypeOK, CallsOwn, KeysOwn, ArmReport, Published
  <2>5. Numbered'
    BY <1>9 DEF TypeOK, CallsOwn, KeysOwn, Numbered, ArmReport, Published
  <2> QED
    BY <2>1, <2>2, <2>3, <2>4, <2>5
<1>10. ASSUME NEW o \in Operators, NEW k \in Keys, NEW refEpoch \in 1..epoch,
            NEW refId \in TxId, ResolveArm(o, k, refEpoch, refId)
      PROVE  Ownership'
  <2>0. poisoned[k] \in TxId /\ refEpoch \in Nat /\ refId \in Nat
    BY <1>10 DEF ResolveArm, TypeOK, TxId
  <2>w. /\ attestedAs' \in [TxId -> Nat \X Nat]
        /\ quarantined' \in [Keys -> Nat]
    <3>1. <<refEpoch, refId>> \in Nat \X Nat
      BY <2>0
    <3>2. now + Quarantine \in Nat
      BY QuarantineAssumption DEF TypeOK
    <3>3. attestedAs' = [attestedAs EXCEPT ![poisoned[k]] = <<refEpoch, refId>>]
      BY <1>10 DEF ResolveArm
    <3>4. quarantined' = [quarantined EXCEPT ![k] = now + Quarantine]
      BY <1>10 DEF ResolveArm, QuarantineUntil
    <3>5. attestedAs \in [TxId -> Nat \X Nat] /\ quarantined \in [Keys -> Nat]
      BY DEF TypeOK
    <3>6. attestedAs' \in [TxId -> Nat \X Nat]
      BY <3>1, <3>3, <3>5
    <3> QED
      BY <3>2, <3>4, <3>5, <3>6
  <2>1. TypeOK'
    BY <1>10, <2>0, <2>w DEF TypeOK, ResolveArm, Names
  <2>2. Exclusive'
    BY <1>10 DEF TypeOK, Exclusive, ResolveArm, Names
  <2>3. CallsOwn'
    BY <1>10 DEF TypeOK, CallsOwn, KeysOwn, ResolveArm, Names
  <2>4. KeysOwn'
    BY <1>10 DEF TypeOK, CallsOwn, KeysOwn, ResolveArm, Names
  <2>5. Numbered'
    BY <1>10 DEF TypeOK, CallsOwn, KeysOwn, Numbered, ResolveArm, Names
  <2> QED
    BY <2>1, <2>2, <2>3, <2>4, <2>5
<1>11. ASSUME NEW o \in Operators, ResolvePublish(o)
      PROVE  Ownership'
  <2>0. resolver[o] \in TxId /\ state[resolver[o]] \in Terminal
    BY <1>11 DEF ResolvePublish, TypeOK, Numbered, Terminal
  <2>w. log' \in Seq(Snapshot)
    BY <1>11, <2>0 DEF ResolvePublish, Published, Snapshot, TypeOK
  <2>1. TypeOK'
    BY <1>11, <2>w DEF TypeOK, ResolvePublish, Published
  <2>2. Exclusive'
    BY <1>11 DEF TypeOK, Exclusive, ResolvePublish, Published
  <2>3. CallsOwn'
    BY <1>11 DEF TypeOK, CallsOwn, KeysOwn, ResolvePublish, Published
  <2>4. KeysOwn'
    BY <1>11 DEF TypeOK, CallsOwn, KeysOwn, ResolvePublish, Published
  <2>5. Numbered'
    BY <1>11 DEF TypeOK, CallsOwn, KeysOwn, Numbered, ResolvePublish, Published
  <2> QED
    BY <2>1, <2>2, <2>3, <2>4, <2>5
<1>12. ASSUME NEW k \in Keys, QuarantineRemaining(k)
      PROVE  Ownership'
  <2>1. TypeOK'
    BY <1>12, ExpiryFacts DEF TypeOK, QuarantineRemaining
  <2>2. Exclusive'
    BY <1>12, ExpiryFacts DEF TypeOK, Exclusive, QuarantineRemaining
  <2>3. CallsOwn'
    BY <1>12 DEF TypeOK, CallsOwn, KeysOwn, QuarantineRemaining
  <2>4. KeysOwn'
    BY <1>12 DEF TypeOK, CallsOwn, KeysOwn, QuarantineRemaining
  <2>5. Numbered'
    BY <1>12 DEF TypeOK, CallsOwn, KeysOwn, Numbered, QuarantineRemaining
  <2> QED
    BY <2>1, <2>2, <2>3, <2>4, <2>5
<1>13. ASSUME NEW a \in air \cup Overheard, NEW result \in Results,
            AckLookup(a, result)
      PROVE  Ownership'
  <2>0. a.key \in Keys /\ a.tx \in TxId \cup {None}
    BY DEF TypeOK, Answer, Overheard
  <2>q. /\ quarantined' \in [Keys -> Nat]
        /\ \A j \in Keys : quarantined'[j] \in {quarantined[j], None}
    BY <1>13, <2>0, ExpiryFacts DEF AckLookup, TypeOK
  <2>s. sink' \in [to : TxId, ack : Ack] \cup {Idle}
    BY <1>13, <2>0 DEF AckLookup, TypeOK, Ack, Final, Results
  <2>w. air' \in SUBSET Answer
    BY <1>13 DEF AckLookup, TypeOK
  <2>1. TypeOK'
    BY <1>13, <2>q, <2>s, <2>w DEF TypeOK, AckLookup
  <2>2. Exclusive'
    BY <1>13, <2>q DEF TypeOK, Exclusive, AckLookup
  <2>3. CallsOwn'
    BY <1>13 DEF TypeOK, CallsOwn, KeysOwn, AckLookup
  <2>4. KeysOwn'
    BY <1>13 DEF TypeOK, CallsOwn, KeysOwn, AckLookup
  <2>5. Numbered'
    BY <1>13 DEF TypeOK, CallsOwn, KeysOwn, Numbered, AckLookup
  <2> QED
    BY <2>1, <2>2, <2>3, <2>4, <2>5
<1>14. ASSUME AckSend
      PROVE  Ownership'
  <2>1. TypeOK'
    BY <1>14 DEF TypeOK, AckSend
  <2>2. Exclusive'
    BY <1>14 DEF TypeOK, Exclusive, AckSend
  <2>3. CallsOwn'
    BY <1>14 DEF TypeOK, CallsOwn, KeysOwn, AckSend
  <2>4. KeysOwn'
    BY <1>14 DEF TypeOK, CallsOwn, KeysOwn, AckSend
  <2>5. Numbered'
    BY <1>14 DEF TypeOK, CallsOwn, KeysOwn, Numbered, AckSend
  <2> QED
    BY <2>1, <2>2, <2>3, <2>4, <2>5
<1>15. ASSUME NEW a \in air, AckLost(a)
      PROVE  Ownership'
  <2>1. TypeOK'
    BY <1>15 DEF TypeOK, AckLost
  <2>2. Exclusive'
    BY <1>15 DEF TypeOK, Exclusive, AckLost
  <2>3. CallsOwn'
    BY <1>15 DEF TypeOK, CallsOwn, KeysOwn, AckLost
  <2>4. KeysOwn'
    BY <1>15 DEF TypeOK, CallsOwn, KeysOwn, AckLost
  <2>5. Numbered'
    BY <1>15 DEF TypeOK, CallsOwn, KeysOwn, Numbered, AckLost
  <2> QED
    BY <2>1, <2>2, <2>3, <2>4, <2>5
<1>16. ASSUME Tick
      PROVE  Ownership'
  <2>1. TypeOK'
    BY <1>16 DEF TypeOK, Tick
  <2>2. Exclusive'
    BY <1>16 DEF TypeOK, Exclusive, Tick
  <2>3. CallsOwn'
    BY <1>16 DEF TypeOK, CallsOwn, KeysOwn, Tick
  <2>4. KeysOwn'
    BY <1>16 DEF TypeOK, CallsOwn, KeysOwn, Tick
  <2>5. Numbered'
    BY <1>16 DEF TypeOK, CallsOwn, KeysOwn, Numbered, Tick
  <2> QED
    BY <2>1, <2>2, <2>3, <2>4, <2>5
<1>17. CASE Restart
  <2>1. (CHOOSE k \in Keys : TRUE) \in Keys
    BY KeysAssumption
  <2>2. TypeOK'
    <3>1. key' \in [TxId -> Keys] /\ attestedAs' \in [TxId -> Nat \X Nat]
      BY <1>17, <2>1 DEF Restart, None
    <3>2. log' \in Seq(Snapshot)
      BY <1>17 DEF Restart
    <3>3. air' \in SUBSET Answer
      <4>1. ASSUME NEW a \in Answer PROVE [a EXCEPT !.tx = None] \in Answer
        BY DEF Answer
      <4> QED
        BY <1>17, <4>1 DEF Restart, TypeOK
    <3>4. nextID' \in 0..MaxTx /\ epoch' \in Nat
      BY <1>17, BoundAssumption DEF Restart, TypeOK
    <3> QED
      BY <1>17, <3>1, <3>2, <3>3, <3>4 DEF Restart, TypeOK, NewTx, PCs, States, None
  <2>3. Exclusive' /\ KeysOwn'
    BY <1>17 DEF Restart, Exclusive, KeysOwn
  <2>4. CallsOwn'
    BY <1>17 DEF Restart, CallsOwn, Holding
  <2>5. Numbered'
    BY <1>17 DEF Restart, Numbered, TxId
  <2> QED
    BY <2>2, <2>3, <2>4, <2>5
<1> QED
  BY <1>0, <1>1, <1>2, <1>3, <1>4, <1>5, <1>6, <1>7, <1>8, <1>9, <1>10, <1>11, <1>12, <1>13, <1>14, <1>15, <1>16, <1>17
     DEF Next, Arm, ArmRefused, ArmStep, Resolve, ResolveRefused

-----------------------------------------------------------------------------
\* The latest transaction of its key.
Newest(t) == \A u \in TxId : u <= nextID /\ key[u] = key[t] => u <= t

\* An operator attested t, and the quarantine is still in the map or over.
Attested(t) ==
    /\ attestedAs[t] = <<epoch, t>>
    /\ attestedAt[t] <= now
    /\ \/ quarantined[key[t]] >= attestedAt[t] + Quarantine
       \/ now >= attestedAt[t] + Quarantine

\* What holds a key is its latest transaction; an ambiguity is either retained
\* in the poisoned map or attested.
HeldByNewest ==
    \A k \in Keys : /\ inflight[k] # None => Newest(inflight[k])
                    /\ poisoned[k] # None => Newest(poisoned[k])
AmbiguityKept ==
    \A t \in TxId : state[t] \in Ambiguous => poisoned[key[t]] = t \/ Attested(t)

Ambiguity == HeldByNewest /\ AmbiguityKept /\ AmbiguityClosesKey

LEMMA InitAmbiguity == Init => Ambiguity
  BY BoundAssumption
     DEF Init, Ambiguity, HeldByNewest, AmbiguityKept, AmbiguityClosesKey,
         Ambiguous, TxId, None

\* Steps that touch neither the maps nor the transactions nor the clock.
LEMMA IdleAmbiguity ==
    Ambiguity /\ UNCHANGED <<registry, state, key, issuedAt, attestedAt, attestedAs>>
      => Ambiguity'
  BY DEF Ambiguity, HeldByNewest, AmbiguityKept, AmbiguityClosesKey, Newest,
         Attested, registry

LEMMA ExpiryAmbiguity ==
    ASSUME Ownership, Ambiguity, NEW k \in Keys,
           quarantined' = AfterExpiry(k) \/ quarantined' = quarantined,
           UNCHANGED <<now, epoch, nextID, inflight, poisoned, txVars>>
    PROVE  Ambiguity'
<1>1. HeldByNewest' /\ AmbiguityClosesKey'
  BY DEF Ambiguity, HeldByNewest, AmbiguityClosesKey, Newest, txVars
<1>2. ASSUME NEW t \in TxId, Attested(t) PROVE Attested(t)'
  <2>1. /\ quarantined[key[t]] \in Nat /\ now \in Nat /\ attestedAt[t] \in Nat
        /\ quarantined[key[t]] >= attestedAt[t] + Quarantine =>
             quarantined[key[t]] # None
    BY QuarantineAssumption DEF Ownership, TypeOK, None
  <2>2. key[t] \in Keys
    BY DEF Ownership, TypeOK
  <2>3. UNCHANGED <<now, epoch, key, attestedAt, attestedAs>>
    BY DEF txVars
  <2>4. \/ quarantined'[key[t]] = quarantined[key[t]]
        \/ quarantined[key[t]] = None
        \/ now >= quarantined[key[t]]
    BY <2>1, <2>2 DEF AfterExpiry, Quarantined, Ownership, TypeOK
  <2>5. Quarantine \in Nat
    BY QuarantineAssumption
  <2> QED
    BY <1>2, <2>1, <2>3, <2>4, <2>5 DEF Attested
<1> QED
  BY <1>1, <1>2 DEF Ambiguity, AmbiguityKept, txVars

\* Settling c's transaction: it leaves inflight, and is poisoned if ambiguous.
LEMMA SettleAmbiguity ==
    ASSUME Ownership, Ambiguity, NEW c \in Callers, pc[c] \in Holding,
           NEW s \in States,
           inflight' = [inflight EXCEPT ![key[callerTx[c]]] = None],
           state' = [state EXCEPT ![callerTx[c]] = s],
           poisoned' = IF s \in Ambiguous
                       THEN [poisoned EXCEPT ![key[callerTx[c]]] = callerTx[c]]
                       ELSE poisoned,
           UNCHANGED <<now, epoch, nextID, quarantined, key, issuedAt,
                       attestedAt, attestedAs>>
    PROVE  Ambiguity'
<1> DEFINE t == callerTx[c]
<1>1. /\ t \in TxId /\ key[t] \in Keys /\ inflight[key[t]] = t
      /\ poisoned[key[t]] = None
  BY HolderFacts
<1>2. Newest(t)
  BY <1>1, NoneIsNoTx DEF Ambiguity, HeldByNewest
<1>3. HeldByNewest'
  BY <1>1, <1>2, NoneIsNoTx DEF Ambiguity, HeldByNewest, Newest, Ownership, TypeOK
<1>4. AmbiguityKept'
  BY <1>1, NoneIsNoTx DEF Ambiguity, AmbiguityKept, Attested, Ownership, TypeOK
<1>5. AmbiguityClosesKey'
  <2> SUFFICES ASSUME NEW x \in TxId, NEW u \in TxId, x < u, u <= nextID,
                      key[x] = key[u], state'[x] \in Ambiguous
               PROVE  /\ attestedAs[x] = <<epoch, x>>
                      /\ issuedAt[u] >= attestedAt[x] + Quarantine
    BY DEF AmbiguityClosesKey
  <2>1. x # t
    BY <1>2 DEF Newest, TxId
  <2>2. state[x] \in Ambiguous
    BY <2>1, <1>1 DEF Ownership, TypeOK
  <2> QED
    BY <2>2 DEF Ambiguity, AmbiguityClosesKey
<1> QED
  BY <1>3, <1>4, <1>5 DEF Ambiguity

LEMMA IssueAmbiguity ==
    ASSUME Ownership, Ambiguity, NEW c \in Callers, NEW k \in Keys, ArmIssue(c, k)
    PROVE  Ambiguity'
<1>u. PICK u \in TxId : u = nextID + 1
  BY BoundAssumption DEF ArmIssue, Ownership, TypeOK, TxId
<1>n. nextID \in Nat
  BY DEF Ownership, TypeOK
<1>x. \A x \in TxId : x \in Nat /\ (x <= u <=> x <= nextID \/ x = u)
  BY <1>u, <1>n DEF TxId
<1>0. nextID' = u /\ u \in TxId
  BY <1>u DEF ArmIssue
<1>1. state[u] = "UNISSUED" /\ "UNISSUED" \notin Ambiguous
  BY <1>u, <1>n DEF Ownership, Numbered, Ambiguous
<1>2. /\ inflight[k] = None /\ poisoned[k] = None /\ ~Quarantined(k)
      /\ inflight' = [inflight EXCEPT ![k] = u] /\ poisoned' = poisoned
      /\ key' = [key EXCEPT ![u] = k]
      /\ state' = [state EXCEPT ![u] = "PENDING"]
      /\ issuedAt' = [issuedAt EXCEPT ![u] = now]
      /\ quarantined' = AfterExpiry(k)
      /\ UNCHANGED <<now, epoch, attestedAt, attestedAs>>
  BY <1>0 DEF ArmIssue, Refuses
<1>3. \A j \in Keys : /\ inflight[j] # None => inflight[j] \in TxId /\ inflight[j] # u /\ key[inflight[j]] = j
                      /\ poisoned[j] # None => poisoned[j] \in TxId /\ poisoned[j] # u /\ key[poisoned[j]] = j
  BY <1>1 DEF Ownership, TypeOK, KeysOwn
<1>4. HeldByNewest'
  <2>1. Newest(u)'
    BY <1>0, <1>x DEF Newest
  <2>2. ASSUME NEW j \in Keys, j # k, NEW x \in TxId, x # u, key[x] = j, Newest(x)
        PROVE  Newest(x)'
    BY <1>0, <1>x, <1>2, <2>2 DEF Newest, Ownership, TypeOK
  <2>3. ASSUME NEW j \in Keys
        PROVE  (/\ inflight[j] # None => Newest(inflight[j])
                /\ poisoned[j] # None => Newest(poisoned[j]))'
    <3>1. CASE j = k
      <4>1. inflight'[j] = u /\ poisoned'[j] = None
        BY <1>2, <3>1 DEF Ownership, TypeOK
      <4> QED
        BY <2>1, <4>1 DEF Newest
    <3>2. CASE j # k
      <4>1. inflight'[j] = inflight[j] /\ poisoned'[j] = poisoned[j]
        BY <1>2, <3>2 DEF Ownership, TypeOK
      <4>2. inflight[j] # None => Newest(inflight[j])'
        BY <1>3, <2>2, <3>2, <4>1 DEF Ambiguity, HeldByNewest, Newest
      <4>3. poisoned[j] # None => Newest(poisoned[j])'
        BY <1>3, <2>2, <3>2, <4>1 DEF Ambiguity, HeldByNewest, Newest
      <4> QED
        BY <4>1, <4>2, <4>3
    <3> QED
      BY <3>1, <3>2
  <2> QED
    BY <2>3 DEF HeldByNewest
<1>5. ASSUME NEW t \in TxId, state'[t] \in Ambiguous
      PROVE  /\ t # u /\ state[t] \in Ambiguous /\ key'[t] = key[t] /\ key[t] \in Keys
             /\ key[t] = k => Attested(t) /\ now >= attestedAt[t] + Quarantine
  <2>1. t # u
    BY <1>0, <1>1, <1>2, <1>5 DEF Ambiguous, Ownership, TypeOK
  <2>2. state[t] \in Ambiguous /\ key'[t] = key[t] /\ key[t] \in Keys
    BY <1>2, <1>5, <2>1 DEF Ownership, TypeOK
  <2>3. ASSUME key[t] = k PROVE Attested(t)
    BY <1>2, <2>2, <2>3, NoneIsNoTx DEF Ambiguity, AmbiguityKept
  <2>4. ASSUME key[t] = k PROVE now >= attestedAt[t] + Quarantine
    <3>1. /\ now \in Nat /\ attestedAt[t] \in Nat /\ quarantined[k] \in Nat
          /\ Quarantine \in Nat /\ Quarantine > 0
      BY QuarantineAssumption DEF Ownership, TypeOK
    <3>2. quarantined[k] = 0 \/ now >= quarantined[k]
      BY <1>2, <3>1 DEF Quarantined, None
    <3>3. \/ quarantined[k] >= attestedAt[t] + Quarantine
          \/ now >= attestedAt[t] + Quarantine
      BY <2>3, <2>4 DEF Attested
    <3> QED
      BY <3>1, <3>2, <3>3
  <2> QED
    BY <2>1, <2>2, <2>3, <2>4
<1>6. AmbiguityKept'
  <2> SUFFICES ASSUME NEW t \in TxId, state'[t] \in Ambiguous
               PROVE  poisoned'[key'[t]] = t \/ Attested(t)'
    BY DEF AmbiguityKept
  <2>1. CASE key[t] = k
    BY <1>2, <1>5, <2>1 DEF Attested
  <2>2. CASE key[t] # k
    <3>1. quarantined'[key[t]] = quarantined[key[t]]
      BY <1>2, <1>5, <2>2 DEF AfterExpiry, Ownership, TypeOK
    <3> QED
      BY <1>2, <1>5, <3>1 DEF Ambiguity, AmbiguityKept, Attested
  <2> QED
    BY <2>1, <2>2
<1>7. AmbiguityClosesKey'
  <2> SUFFICES ASSUME NEW t \in TxId, NEW w \in TxId, t < w, w <= u,
                      key'[t] = key'[w], state'[t] \in Ambiguous
               PROVE  /\ attestedAs[t] = <<epoch, t>>
                      /\ issuedAt'[w] >= attestedAt[t] + Quarantine
    BY <1>0, <1>2 DEF AmbiguityClosesKey
  <2>1. CASE w = u
    BY <1>0, <1>2, <1>5, <2>1 DEF Attested, Ownership, TypeOK
  <2>2. CASE w # u
    BY <1>0, <1>x, <1>2, <1>5, <2>2 DEF Ambiguity, AmbiguityClosesKey, Ownership, TypeOK
  <2> QED
    BY <2>1, <2>2
<1> QED
  BY <1>4, <1>6, <1>7 DEF Ambiguity

LEMMA ResolveAmbiguity ==
    ASSUME Ownership, Ambiguity, NEW o \in Operators, NEW k \in Keys,
           NEW refEpoch \in 1..epoch, NEW refId \in TxId,
           ResolveArm(o, k, refEpoch, refId)
    PROVE  Ambiguity'
<1> DEFINE p == poisoned[k]
<1>1. p \in TxId /\ key[p] = k /\ Newest(p) /\ state[p] \in Ambiguous
  BY DEF ResolveArm, Ownership, TypeOK, KeysOwn, Ambiguity, HeldByNewest
<1>2. /\ poisoned' = [poisoned EXCEPT ![k] = None]
      /\ quarantined' = [quarantined EXCEPT ![k] = now + Quarantine]
      /\ attestedAt' = [attestedAt EXCEPT ![p] = now]
      /\ attestedAs' = [attestedAs EXCEPT ![p] = <<epoch, p>>]
      /\ UNCHANGED <<now, epoch, nextID, inflight, state, key, issuedAt>>
  BY DEF ResolveArm, Names, QuarantineUntil
<1>3. HeldByNewest'
  BY <1>2 DEF Ambiguity, HeldByNewest, Newest, Ownership, TypeOK
<1>4. AmbiguityKept'
  <2> SUFFICES ASSUME NEW t \in TxId, state[t] \in Ambiguous
               PROVE  poisoned'[key[t]] = t \/ Attested(t)'
    BY <1>2 DEF AmbiguityKept
  <2>0. key[t] \in Keys
    BY DEF Ownership, TypeOK
  <2>1. CASE t = p
    <3>1. /\ quarantined'[key[t]] = now + Quarantine
          /\ attestedAt'[t] = now /\ attestedAs'[t] = <<epoch, t>>
      BY <1>1, <1>2, <2>1 DEF Ownership, TypeOK
    <3>2. now \in Nat /\ now + Quarantine \in Nat
      BY QuarantineAssumption DEF Ownership, TypeOK
    <3> QED
      BY <1>2, <3>1, <3>2 DEF Attested
  <2>2. CASE t # p /\ key[t] = k
    <3>1. Attested(t)
      BY <2>2 DEF Ambiguity, AmbiguityKept
    <3>2. /\ quarantined'[key[t]] = now + Quarantine
          /\ attestedAt'[t] = attestedAt[t] /\ attestedAs'[t] = attestedAs[t]
          /\ now \in Nat /\ attestedAt[t] \in Nat /\ Quarantine \in Nat
      BY <1>2, <2>2, QuarantineAssumption DEF Ownership, TypeOK
    <3> QED
      BY <1>2, <3>1, <3>2 DEF Attested
  <2>3. CASE key[t] # k
    BY <1>1, <1>2, <2>0, <2>3 DEF Ambiguity, AmbiguityKept, Attested, Ownership, TypeOK
  <2> QED
    BY <2>1, <2>2, <2>3
<1>5. AmbiguityClosesKey'
  <2> SUFFICES ASSUME NEW t \in TxId, NEW u \in TxId, t < u, u <= nextID,
                      key[t] = key[u], state[t] \in Ambiguous
               PROVE  /\ attestedAs'[t] = <<epoch, t>>
                      /\ issuedAt[u] >= attestedAt'[t] + Quarantine
    BY <1>2 DEF AmbiguityClosesKey
  <2>1. t # p
    BY <1>1 DEF Newest, TxId
  <2> QED
    BY <1>2, <2>1 DEF Ambiguity, AmbiguityClosesKey, Ownership, TypeOK
<1> QED
  BY <1>3, <1>4, <1>5 DEF Ambiguity

\* One step of any goroutine, of the clock, or a restart keeps Ambiguity.
LEMMA NextAmbiguity == Ownership /\ Ambiguity /\ [Next]_vars => Ambiguity'
<1> SUFFICES ASSUME Ownership, Ambiguity, [Next]_vars PROVE Ambiguity'
  OBVIOUS
<1>0. CASE UNCHANGED vars
  BY <1>0, IdleAmbiguity DEF vars, txVars
<1>1. ASSUME NEW c \in Callers, NEW k \in Keys, Arm(c, k) PROVE Ambiguity'
  BY <1>1, IssueAmbiguity, IdleAmbiguity DEF Arm, ArmRefused, vars, txVars
<1>2. ASSUME NEW c \in Callers, ArmStep(c) PROVE Ambiguity'
  <2>1. CASE ArmUnroutable(c)
    <3>1. pc[c] \in Holding /\ "UNSENT" \in States /\ "UNSENT" \notin Ambiguous
      BY <2>1 DEF ArmUnroutable, Holding, States, Ambiguous
    <3> QED
      BY <2>1, <3>1, SettleAmbiguity DEF ArmUnroutable
  <2>2. CASE ArmWriteFailed(c)
    <3>1. pc[c] \in Holding /\ "SEND_FAILED" \in States /\ "SEND_FAILED" \in Ambiguous
      BY <2>2 DEF ArmWriteFailed, Holding, States, Terminal, Ambiguous
    <3> QED
      BY <2>2, <3>1, SettleAmbiguity DEF ArmWriteFailed
  <2>3. CASE ArmSettle(c)
    <3>1. pc[c] \in Holding
      BY <2>3 DEF ArmSettle, Holding
    <3>2. /\ verdict[c] \in States
          /\ verdict[c] \in Ambiguous <=> GiveUpPoisons(verdict[c])
      BY DEF Ownership, TypeOK, States, Terminal, Ambiguous, Answered, GiveUpPoisons
    <3> QED
      BY <2>3, <3>1, <3>2, SettleAmbiguity DEF ArmSettle
  <2>4. CASE \E outcome \in {"sent", "error", "unknownLink"} : ArmWrite(c, outcome)
    BY <2>4, IdleAmbiguity DEF ArmWrite, txVars
  <2>5. CASE ArmAnnounce(c) \/ ArmReport(c) \/ \E why \in GiveUp : ArmSelectGiveUp(c, why)
    BY <2>5, IdleAmbiguity DEF ArmAnnounce, ArmReport, ArmSelectGiveUp, txVars
  <2>6. CASE ArmSelectAck(c)
    BY <2>6, IdleAmbiguity DEF ArmSelectAck
  <2> QED
    BY <1>2, <2>1, <2>2, <2>3, <2>4, <2>5, <2>6 DEF ArmStep
<1>3. ASSUME NEW o \in Operators, NEW k \in Keys, Resolve(o, k) PROVE Ambiguity'
  BY <1>3, ResolveAmbiguity, IdleAmbiguity DEF Resolve, ResolveRefused, vars, txVars
<1>4. ASSUME NEW o \in Operators, ResolvePublish(o) PROVE Ambiguity'
  BY <1>4, IdleAmbiguity DEF ResolvePublish, txVars
<1>5. ASSUME NEW k \in Keys, QuarantineRemaining(k) PROVE Ambiguity'
  BY <1>5, ExpiryAmbiguity DEF QuarantineRemaining
<1>6. ASSUME NEW a \in air \cup Overheard, NEW result \in Results, AckLookup(a, result)
      PROVE  Ambiguity'
  <2>1. a.key \in Keys
    BY DEF Ownership, TypeOK, Answer, Overheard
  <2> QED
    BY <1>6, <2>1, ExpiryAmbiguity DEF AckLookup
<1>7. CASE AckSend \/ \E a \in air : AckLost(a)
  BY <1>7, IdleAmbiguity DEF AckSend, AckLost, txVars
<1>8. CASE Tick
  <2>1. /\ now' = now + 1 /\ now \in Nat /\ Quarantine \in Nat
        /\ UNCHANGED <<epoch, nextID, inflight, poisoned, quarantined, state, key,
                       issuedAt, attestedAt, attestedAs>>
    BY <1>8, QuarantineAssumption DEF Tick, txVars, Ownership, TypeOK
  <2>2. HeldByNewest' /\ AmbiguityClosesKey'
    BY <2>1 DEF Ambiguity, HeldByNewest, AmbiguityClosesKey, Newest
  <2>3. ASSUME NEW t \in TxId, Attested(t) PROVE Attested(t)'
    <3>1. attestedAt[t] \in Nat
      BY DEF Ownership, TypeOK
    <3> QED
      BY <2>1, <2>3, <3>1 DEF Attested
  <2> QED
    BY <2>1, <2>2, <2>3 DEF Ambiguity, AmbiguityKept
<1>9. CASE Restart
  BY <1>9 DEF Restart, Ambiguity, HeldByNewest, AmbiguityKept, AmbiguityClosesKey, Ambiguous
<1> QED
  BY <1>0, <1>1, <1>2, <1>3, <1>4, <1>5, <1>6, <1>7, <1>8, <1>9 DEF Next

-----------------------------------------------------------------------------
LEMMA Invariant == Spec => [](Ownership /\ Ambiguity)
<1>1. Ownership /\ Ambiguity /\ [Next]_vars => (Ownership /\ Ambiguity)'
  BY NextOwnership, NextAmbiguity
<1> QED
  BY InitOwnership, InitAmbiguity, <1>1, PTL DEF Spec

\* Every variable of the registry keeps its type, whatever the interleaving.
THEOREM TypeCorrect == Spec => []TypeOK
<1>1. Ownership => TypeOK
  BY DEF Ownership
<1> QED
  BY <1>1, Invariant, PTL

\* registry.go:77: inflight, poisoned and quarantined are mutually exclusive
\* per key, for any number of callers, operators and vehicles.
THEOREM MapsExclusive == Spec => []Exclusive
<1>1. Ownership => Exclusive
  BY DEF Ownership
<1> QED
  BY <1>1, Invariant, PTL

\* A command that ended ambiguously closes its key until that very command has
\* been attested and the quarantine has passed, for any number of callers.
THEOREM AmbiguityIsClosed == Spec => []AmbiguityClosesKey
<1>1. Ambiguity => AmbiguityClosesKey
  BY DEF Ambiguity
<1> QED
  BY <1>1, Invariant, PTL

-----------------------------------------------------------------------------
(***************************************************************************)
(* The command registry implements the gate of CommandGate, for every set  *)
(* of keys, callers and operators and every quarantine.                    *)
(***************************************************************************)

\* The four shapes of a gate.
LEMMA BusyShape ==
    ASSUME NEW tx, tx # None, NEW suspect, NEW until, NEW time
    PROVE  GateIn(tx, suspect, until, time) = Gate!Busy(tx)
  BY DEF GateIn, Gate!Busy

LEMMA SuspectShape ==
    ASSUME NEW suspect, suspect # None, NEW until, NEW time
    PROVE  GateIn(None, suspect, until, time) = Gate!Suspect(suspect)
  BY DEF GateIn, Gate!Suspect

LEMMA CoolingShape ==
    ASSUME NEW until \in Nat, NEW time \in Nat, time < until
    PROVE  GateIn(None, None, until, time) = Gate!Cooling(until)
  BY DEF GateIn, Gate!Cooling, None

LEMMA OpenShape ==
    ASSUME NEW until \in Nat, NEW time \in Nat, time >= until
    PROVE  GateIn(None, None, until, time) = Gate!Open
  BY DEF GateIn, Gate!Open, None

\* The phases differ, so a gate has one shape.
LEMMA PhasesDiffer ==
    /\ \A t : Gate!Busy(t).phase = "busy" /\ Gate!Busy(t).tx = t
    /\ \A t : Gate!Suspect(t).phase = "ambiguous"
    /\ \A u \in Nat, v \in Nat : Gate!Cooling(u) = Gate!Cooling(v) => u = v
    /\ \A t, u : /\ Gate!Busy(t) # Gate!Cooling(u)
                 /\ Gate!Suspect(t) # Gate!Cooling(u)
    /\ \A u : Gate!Open # Gate!Cooling(u)
  BY DEF Gate!Busy, Gate!Suspect, Gate!Cooling, Gate!Open

\* A step that leaves the maps alone, or only removes a quarantine that has
\* expired, is invisible at the gate.
LEMMA Stutters ==
    ASSUME Ownership, Ownership', UNCHANGED <<now, nextID, inflight, poisoned>>,
           \A k \in Keys : \/ quarantined'[k] = quarantined[k]
                           \/ quarantined'[k] = None /\ ~Quarantined(k)
    PROVE  UNCHANGED <<now, nextID, Gates>>
<1>1. ASSUME NEW k \in Keys
      PROVE  GateIn(inflight'[k], poisoned'[k], quarantined'[k], now') =
             GateIn(inflight[k], poisoned[k], quarantined[k], now)
  <2>1. CASE quarantined'[k] = quarantined[k]
    BY <2>1
  <2>2. CASE quarantined'[k] = None /\ ~Quarantined(k)
    BY <2>2 DEF GateIn, Quarantined
  <2> QED
    BY <2>1, <2>2
<1> QED
  BY <1>1 DEF Gates

\* A step that changes the maps of one key changes that key's gate only.
LEMMA OneGate ==
    ASSUME NEW k \in Keys, UNCHANGED now,
           \A j \in Keys \ {k} : /\ inflight'[j] = inflight[j]
                                 /\ poisoned'[j] = poisoned[j]
                                 /\ quarantined'[j] = quarantined[j]
    PROVE  Gates' = [Gates EXCEPT ![k] =
                       GateIn(inflight'[k], poisoned'[k], quarantined'[k], now)]
  BY DEF Gates

LEMMA GateTypes ==
    ASSUME Ownership, NEW k \in Keys
    PROVE  /\ now \in Nat /\ quarantined[k] \in Nat
           /\ Gates[k] = GateIn(inflight[k], poisoned[k], quarantined[k], now)
  BY DEF Ownership, TypeOK, Gates

\* Settling c's transaction concludes or abandons the gate of its key.
LEMMA SettleGate ==
    ASSUME Ownership, NEW c \in Callers, pc[c] \in Holding,
           inflight' = [inflight EXCEPT ![key[callerTx[c]]] = None],
           \/ poisoned' = poisoned
           \/ poisoned' = [poisoned EXCEPT ![key[callerTx[c]]] = callerTx[c]],
           UNCHANGED <<now, nextID, quarantined>>
    PROVE  \E k \in Keys : Gate!Conclude(k) \/ Gate!Abandon(k)
<1> DEFINE t == callerTx[c]
           k == key[t]
<1>1. /\ t \in TxId /\ k \in Keys /\ inflight[k] = t
      /\ poisoned[k] = None /\ quarantined[k] = None
  BY HolderFacts
<1>2. Gates[k] = Gate!Busy(t)
  <2>1. Gates[k] = GateIn(t, None, None, now) /\ now \in Nat /\ None \in Nat
    BY <1>1, GateTypes
  <2>2. t # None
    BY <1>1, NoneIsNoTx
  <2> QED
    BY <2>1, <2>2, BusyShape
<1>3. inflight \in [Keys -> TxId \cup {None}] /\ poisoned \in [Keys -> TxId \cup {None}]
  BY DEF Ownership, TypeOK
<1>4. Gates' = [Gates EXCEPT ![k] = GateIn(None, poisoned'[k], None, now)]
  BY <1>1, <1>3, OneGate
<1>5. now \in Nat /\ None \in Nat /\ now >= None
  BY DEF Ownership, TypeOK, None
<1>6. CASE poisoned' = poisoned
  <2>0. GateIn(None, None, None, now) = Gate!Open
    BY <1>5, OpenShape
  <2>1. Gates' = [Gates EXCEPT ![k] = Gate!Open]
    BY <1>1, <1>4, <1>6, <2>0
  <2> QED
    BY <1>1, <1>2, <2>1, PhasesDiffer DEF Gate!Conclude
<1>7. CASE poisoned' = [poisoned EXCEPT ![k] = t]
  <2>1. poisoned'[k] = t
    BY <1>1, <1>3, <1>7
  <2>0. t # None
    BY <1>1, NoneIsNoTx
  <2>3. GateIn(None, t, None, now) = Gate!Suspect(t)
    BY <1>5, <2>0, SuspectShape
  <2>2. Gates' = [Gates EXCEPT ![k] = Gate!Suspect(t)]
    BY <1>4, <2>1, <2>3
  <2> QED
    BY <1>1, <1>2, <2>2, PhasesDiffer DEF Gate!Abandon
<1> QED
  BY <1>6, <1>7

LEMMA IssueGate ==
    ASSUME Ownership, NEW c \in Callers, NEW k \in Keys, ArmIssue(c, k)
    PROVE  Gate!Issue(k)
<1>1. /\ inflight[k] = None /\ poisoned[k] = None /\ ~Quarantined(k)
      /\ inflight' = [inflight EXCEPT ![k] = nextID'] /\ poisoned' = poisoned
      /\ quarantined' = AfterExpiry(k) /\ nextID' = nextID + 1 /\ UNCHANGED now
  BY DEF ArmIssue, Refuses
<1>2. now >= quarantined[k]
  BY <1>1, GateTypes DEF Quarantined, None
<1>3. Gates[k] = Gate!Open
  <2>1. Gates[k] = GateIn(None, None, quarantined[k], now)
    BY <1>1, GateTypes
  <2> QED
    BY <1>2, <2>1, GateTypes, OpenShape
<1>4. /\ nextID' # None
      /\ inflight \in [Keys -> TxId \cup {None}] /\ quarantined \in [Keys -> Nat]
  BY <1>1 DEF Ownership, TypeOK, None
<1>5. inflight'[k] = nextID' /\ quarantined'[k] \in Nat
  BY <1>1, <1>4, ExpiryFacts DEF Ownership
<1>6. Gates' = [Gates EXCEPT ![k] = GateIn(nextID', poisoned'[k], quarantined'[k], now)]
  BY <1>1, <1>4, <1>5, OneGate DEF AfterExpiry
<1>7. Gates' = [Gates EXCEPT ![k] = Gate!Busy(nextID')]
  BY <1>4, <1>6, BusyShape
<1> QED
  BY <1>1, <1>3, <1>7 DEF Gate!Issue

LEMMA ResolveGate ==
    ASSUME Ownership, NEW o \in Operators, NEW k \in Keys,
           NEW refEpoch \in 1..epoch, NEW refId \in TxId,
           ResolveArm(o, k, refEpoch, refId)
    PROVE  Gate!Attest(k)
<1>1. /\ inflight[k] = None /\ poisoned[k] # None /\ UNCHANGED <<now, nextID, inflight>>
      /\ poisoned' = [poisoned EXCEPT ![k] = None]
      /\ quarantined' = [quarantined EXCEPT ![k] = now + Quarantine]
  BY DEF ResolveArm, QuarantineUntil
<1>2. Gates[k] = Gate!Suspect(poisoned[k])
  BY <1>1, GateTypes, SuspectShape
<1>3. /\ poisoned \in [Keys -> TxId \cup {None}] /\ quarantined \in [Keys -> Nat]
      /\ now \in Nat /\ now + Quarantine \in Nat /\ now < now + Quarantine
  BY QuarantineAssumption DEF Ownership, TypeOK
<1>4. Gates' = [Gates EXCEPT ![k] = GateIn(None, None, now + Quarantine, now)]
  BY <1>1, <1>3, OneGate
<1>5. Gates' = [Gates EXCEPT ![k] = Gate!Cooling(now + Quarantine)]
  BY <1>3, <1>4, CoolingShape
<1> QED
  BY <1>1, <1>2, <1>5, PhasesDiffer DEF Gate!Attest

LEMMA TickGate == ASSUME Ownership, Tick PROVE Gate!Tick
<1>1. /\ now' = now + 1 /\ now \in Nat
      /\ UNCHANGED <<nextID, inflight, poisoned, quarantined>>
  BY DEF Tick, Ownership, TypeOK
<1>2. ASSUME NEW k \in Keys
      PROVE  Gates'[k] = IF Gates[k] = Gate!Cooling(now + 1) THEN Gate!Open ELSE Gates[k]
  <2>0. /\ quarantined[k] \in Nat
        /\ Gates[k] = GateIn(inflight[k], poisoned[k], quarantined[k], now)
        /\ Gates'[k] = GateIn(inflight[k], poisoned[k], quarantined[k], now + 1)
    BY <1>1, GateTypes DEF Gates
  <2> DEFINE now1 == now + 1
             g == GateIn(inflight[k], poisoned[k], quarantined[k], now)
             h == GateIn(inflight[k], poisoned[k], quarantined[k], now1)
  <2>a. now1 \in Nat /\ now \in Nat /\ now1 > now
    BY <1>1
  <2>b. SUFFICES h = IF g = Gate!Cooling(now1) THEN Gate!Open ELSE g
    BY <2>0
  <2>e. ASSUME inflight[k] # None PROVE g = Gate!Busy(inflight[k]) /\ h = g
    BY <2>e, BusyShape
  <2>c. ASSUME inflight[k] = None, poisoned[k] # None
        PROVE  g = Gate!Suspect(poisoned[k]) /\ h = g
    BY <2>c, SuspectShape
  <2>d. ASSUME inflight[k] = None, poisoned[k] = None
        PROVE  /\ now < quarantined[k] => g = Gate!Cooling(quarantined[k])
               /\ now >= quarantined[k] => g = Gate!Open
               /\ now1 < quarantined[k] => h = Gate!Cooling(quarantined[k])
               /\ now1 >= quarantined[k] => h = Gate!Open
    BY <2>0, <2>a, <2>d, CoolingShape, OpenShape
  <2> HIDE DEF g, h
  <2>1. CASE inflight[k] # None
    BY <2>1, <2>e, PhasesDiffer
  <2>2. CASE inflight[k] = None /\ poisoned[k] # None
    BY <2>2, <2>c, PhasesDiffer
  <2>3. CASE inflight[k] = None /\ poisoned[k] = None
    <3>1. CASE quarantined[k] <= now
      BY <2>0, <2>a, <2>3, <2>d, <3>1, PhasesDiffer
    <3>2. CASE quarantined[k] = now1
      BY <2>0, <2>a, <2>3, <2>d, <3>2
    <3>3. CASE now1 < quarantined[k]
      <4>1. g = Gate!Cooling(quarantined[k]) /\ h = g
        BY <2>0, <2>a, <2>3, <2>d, <3>3
      <4>2. Gate!Cooling(quarantined[k]) # Gate!Cooling(now1)
        BY <2>0, <2>a, <3>3, PhasesDiffer
      <4> QED
        BY <4>1, <4>2
    <3> QED
      BY <2>0, <2>a, <3>1, <3>2, <3>3
  <2> QED
    BY <2>1, <2>2, <2>3
<1>3. Gates' = [k \in Keys |-> Gates'[k]]
  BY DEF Gates
<1> QED
  BY <1>1, <1>2, <1>3 DEF Gate!Tick

\* Every step of the registry is a step of the gate or invisible to it.
LEMMA StepGate ==
    Ownership /\ Ownership' /\ [Next]_vars => [Gate!Next]_<<now, nextID, Gates>>
<1> SUFFICES ASSUME Ownership, Ownership', [Next]_vars
             PROVE  Gate!Next \/ UNCHANGED <<now, nextID, Gates>>
  OBVIOUS
<1>0. CASE UNCHANGED vars
  BY <1>0, Stutters DEF vars, registry
<1>1. ASSUME NEW c \in Callers, NEW k \in Keys, Arm(c, k)
      PROVE  Gate!Next \/ UNCHANGED <<now, nextID, Gates>>
  BY <1>1, IssueGate, Stutters DEF Arm, ArmRefused, vars, registry, Gate!Next
<1>2. ASSUME NEW c \in Callers, ArmStep(c)
      PROVE  Gate!Next \/ UNCHANGED <<now, nextID, Gates>>
  <2>1. CASE ArmUnroutable(c)
    BY <2>1, SettleGate DEF ArmUnroutable, Holding, Gate!Next
  <2>2. CASE ArmWriteFailed(c)
    BY <2>2, SettleGate DEF ArmWriteFailed, Holding, Gate!Next
  <2>3. CASE ArmSettle(c)
    BY <2>3, SettleGate DEF ArmSettle, Holding, Gate!Next
  <2>4. CASE \E outcome \in {"sent", "error", "unknownLink"} : ArmWrite(c, outcome)
    BY <2>4, Stutters DEF ArmWrite, registry
  <2>5. CASE ArmAnnounce(c) \/ ArmReport(c) \/ ArmSelectAck(c)
    BY <2>5, Stutters DEF ArmAnnounce, ArmReport, ArmSelectAck, registry
  <2>6. CASE \E why \in GiveUp : ArmSelectGiveUp(c, why)
    BY <2>6, Stutters DEF ArmSelectGiveUp, registry
  <2> QED
    BY <1>2, <2>1, <2>2, <2>3, <2>4, <2>5, <2>6 DEF ArmStep
<1>3. ASSUME NEW o \in Operators, NEW k \in Keys, Resolve(o, k)
      PROVE  Gate!Next \/ UNCHANGED <<now, nextID, Gates>>
  BY <1>3, ResolveGate, Stutters DEF Resolve, ResolveRefused, vars, registry, Gate!Next
<1>4. ASSUME NEW k \in Keys,
             quarantined' = AfterExpiry(k) \/ quarantined' = quarantined,
             UNCHANGED <<now, nextID, inflight, poisoned>>
      PROVE  UNCHANGED <<now, nextID, Gates>>
  BY <1>4, Stutters DEF AfterExpiry, Ownership, TypeOK
<1>5. CASE \E k \in Keys : QuarantineRemaining(k)
  BY <1>5, <1>4 DEF QuarantineRemaining
<1>6. CASE \E a \in air \cup Overheard, result \in Results : AckLookup(a, result)
  <2>1. \A a \in air \cup Overheard : a.key \in Keys
    BY DEF Ownership, TypeOK, Answer, Overheard
  <2> QED
    BY <1>6, <1>4, <2>1 DEF AckLookup
<1>7. CASE AckSend \/ (\E a \in air : AckLost(a)) \/ \E o \in Operators : ResolvePublish(o)
  BY <1>7, Stutters DEF AckSend, AckLost, ResolvePublish, registry
<1>8. CASE Tick
  BY <1>8, TickGate DEF Gate!Next
<1>9. CASE Restart
  <2>0. GateIn(None, None, None, now) = Gate!Open
    <3>1. now \in Nat /\ None \in Nat /\ now >= None
      BY DEF Ownership, TypeOK, None
    <3> QED
      BY <3>1, OpenShape
  <2>1. Gates' = [k \in Keys |-> Gate!Open]
    BY <1>9, <2>0 DEF Restart, Gates
  <2> QED
    BY <1>9, <2>1 DEF Restart, Gate!Next, Gate!Reset
<1> QED
  BY <1>0, <1>1, <1>2, <1>3, <1>5, <1>6, <1>7, <1>8, <1>9 DEF Next

\* The registry with all its goroutines, late answers, lazy expiry and restarts
\* implements the abstract gate.
THEOREM RegistryImplementsGate == Spec => ImplementsGate
<1>1. Init => Gate!Init
  <2>1. GateIn(None, None, None, 1) = Gate!Open
    BY OpenShape DEF None
  <2> QED
    BY <2>1 DEF Init, Gate!Init, Gates, None
<1>2. Spec => []Ownership
  BY Invariant, PTL
<1> QED
  BY <1>1, <1>2, StepGate, PTL DEF Spec, ImplementsGate, Gate!Spec

-----------------------------------------------------------------------------
(***************************************************************************)
(* What the browsers may believe of an arm command: that the answer shown  *)
(* is the vehicle's answer to that command (OwnAnswer), and that its       *)
(* snapshots arrive in order (PendingBeforeTerminal).                      *)
(*                                                                         *)
(* Both rest on Ownership and Ambiguity.  Answers says where the one       *)
(* answer to a transaction can be, and needs Past; the quarantine enters   *)
(* in one place, the lemma AnswersItsKey.  Publication says what has been  *)
(* handed to the Publisher and what is still to tell.                      *)
(***************************************************************************)
\* What the registry remembers of the past: a transaction is pending only while it is
\* in flight, was issued before now, and was attested only after it ended ambiguously.
Past ==
    /\ epoch >= 1
    /\ \A t \in TxId :
        /\ state[t] = "PENDING" => inflight[key[t]] = t
        /\ issuedAt[t] <= now
        /\ attestedAs[t] = <<epoch, t>> => state[t] \in Ambiguous

\* The circumstances under which an answer can be trusted to be the answer.
Trusted == AckDelay < Quarantine /\ ~Duplicates /\ epoch = 1

InAir(t) == \E a \in air : a.tx = t
\* No answer to t is anywhere.
Unanswered(t) == ~InAir(t) /\ sink.ack.tx # t /\ ackChan[t] = NoAck /\ settledBy[t] = None

\* An answer in the air is of a written transaction of its key, and arrives in time:
\* before the quarantine of that transaction can be over.
Flying(a) ==
    /\ a.tx \in TxId /\ key[a.tx] = a.key /\ state[a.tx] \notin {"UNISSUED", "UNSENT"}
    /\ now <= a.due /\ a.due <= now + AckDelay
    /\ attestedAs[a.tx] = <<epoch, a.tx>> => a.due <= attestedAt[a.tx] + AckDelay

\* An answer is in one place: in the air, handed over, in the channel, or used.
OncePerTx ==
    /\ \A a \in air : Flying(a)
    /\ \A a, b \in air : a.tx = b.tx => a = b
    /\ sink # Idle => sink.ack.tx = sink.to /\ ~InAir(sink.to)
    /\ \A t \in TxId : ackChan[t] # NoAck => ackChan[t].tx = t /\ ~InAir(t)
    /\ \A t \in TxId : settledBy[t] # None => settledBy[t] = t /\ ~InAir(t)
BeforeWrite ==
    /\ \A t \in TxId : state[t] = "UNISSUED" => Unanswered(t)
    /\ \A c \in Callers : pc[c] \in {"write", "unroutable"} => Unanswered(callerTx[c])
AfterAnswer ==
    /\ \A t \in TxId : state[t] \in Answered => settledBy[t] = t
    /\ \A c \in Callers : pc[c] = "settle" /\ verdict[c] \in Answered =>
          settledBy[callerTx[c]] = callerTx[c]

Answers == Trusted => OncePerTx /\ BeforeWrite /\ AfterAnswer

LEMMA InitPast == Init => Past
  BY BoundAssumption DEF Init, Past, NewTx, TxId, None

\* Steps that touch neither the clock nor what the registry keeps of a transaction.
LEMMA IdlePast ==
    Past /\ UNCHANGED <<now, epoch, inflight, state, key, issuedAt, attestedAs>> => Past'
  BY DEF Past

\* Settling c's transaction.
LEMMA SettlePast ==
    ASSUME Ownership, Past, NEW c \in Callers, pc[c] \in Holding,
           NEW s \in States, s # "PENDING",
           inflight' = [inflight EXCEPT ![key[callerTx[c]]] = None],
           state' = [state EXCEPT ![callerTx[c]] = s],
           UNCHANGED <<now, epoch, key, issuedAt, attestedAs>>
    PROVE  Past'
<1> DEFINE t == callerTx[c]
<1>1. t \in TxId /\ key[t] \in Keys /\ inflight[key[t]] = t /\ state[t] = "PENDING"
  BY HolderFacts
<1>2. state \in [TxId -> States] /\ inflight \in [Keys -> TxId \cup {None}] /\ key \in [TxId -> Keys]
  BY DEF Ownership, TypeOK
<1>3. ASSUME NEW x \in TxId, state'[x] = "PENDING" PROVE inflight'[key[x]] = x
  <2>1. x # t /\ state[x] = "PENDING"
    BY <1>1, <1>2, <1>3
  <2>2. inflight[key[x]] = x /\ key[x] # key[t]
    BY <1>1, <2>1 DEF Past
  <2> QED
    BY <1>2, <2>2
<1>4. ASSUME NEW x \in TxId, attestedAs[x] = <<epoch, x>> PROVE state'[x] \in Ambiguous
  <2>1. state[x] \in Ambiguous
    BY <1>4 DEF Past
  <2>2. x # t
    BY <1>1, <2>1 DEF Ambiguous
  <2> QED
    BY <1>1, <1>2, <2>1, <2>2
<1> QED
  BY <1>3, <1>4 DEF Past

LEMMA IssuePast ==
    ASSUME Ownership, Past, NEW c \in Callers, NEW k \in Keys, ArmIssue(c, k)
    PROVE  Past'
<1>u. PICK u \in TxId : u = nextID + 1
  BY BoundAssumption DEF ArmIssue, Ownership, TypeOK, TxId
<1>0. /\ inflight[k] = None
      /\ inflight' = [inflight EXCEPT ![k] = u] /\ state' = [state EXCEPT ![u] = "PENDING"]
      /\ key' = [key EXCEPT ![u] = k] /\ issuedAt' = [issuedAt EXCEPT ![u] = now]
      /\ UNCHANGED <<now, epoch, attestedAs>>
  BY <1>u DEF ArmIssue, Refuses
<1>1. /\ state \in [TxId -> States] /\ inflight \in [Keys -> TxId \cup {None}]
      /\ key \in [TxId -> Keys] /\ issuedAt \in [TxId -> Nat] /\ now \in Nat /\ nextID \in Nat
  BY DEF Ownership, TypeOK
<1>2. state[u] = "UNISSUED"
  BY <1>u, <1>1 DEF Ownership, Numbered
<1>3. ASSUME NEW x \in TxId
      PROVE  /\ state'[x] = "PENDING" => inflight'[key'[x]] = x
             /\ issuedAt'[x] <= now
             /\ attestedAs[x] = <<epoch, x>> => state'[x] \in Ambiguous
  <2>1. CASE x = u
    BY <1>0, <1>1, <1>2, <2>1 DEF Past, Ambiguous
  <2>2. CASE x # u
    <3>1. state'[x] = state[x] /\ key'[x] = key[x] /\ issuedAt'[x] = issuedAt[x]
      BY <1>0, <1>1, <2>2
    <3>2. state[x] = "PENDING" => inflight[key[x]] = x /\ key[x] # k
      BY <1>0, NoneIsNoTx DEF Past
    <3> QED
      BY <1>0, <1>1, <3>1, <3>2 DEF Past
  <2> QED
    BY <2>1, <2>2
<1> QED
  BY <1>0, <1>3 DEF Past

LEMMA ResolvePast ==
    ASSUME Ownership, Past, NEW o \in Operators, NEW k \in Keys, NEW e, NEW i, ResolveArm(o, k, e, i)
    PROVE  Past'
<1>1. /\ poisoned[k] \in TxId /\ state[poisoned[k]] \in Ambiguous
  BY DEF ResolveArm, Ownership, TypeOK, KeysOwn
<1>2. /\ attestedAs' = [attestedAs EXCEPT ![poisoned[k]] = <<e, i>>]
      /\ UNCHANGED <<now, epoch, inflight, state, key, issuedAt>>
  BY DEF ResolveArm
<1>3. \A x \in TxId : x # poisoned[k] => attestedAs'[x] = attestedAs[x]
  BY <1>2 DEF Ownership, TypeOK
<1> QED
  BY <1>1, <1>2, <1>3 DEF Past

LEMMA NextPast == Ownership /\ Past /\ [Next]_vars => Past'
<1> SUFFICES ASSUME Ownership, Past, [Next]_vars PROVE Past'
  OBVIOUS
<1> USE DEF registry, txVars
<1>0. CASE UNCHANGED vars
  BY <1>0, IdlePast DEF vars
<1>1. ASSUME NEW c \in Callers, NEW k \in Keys, Arm(c, k) PROVE Past'
  BY <1>1, IssuePast, IdlePast DEF Arm, ArmRefused, vars
<1>2. ASSUME NEW c \in Callers, ArmStep(c) PROVE Past'
  <2>1. CASE ArmUnroutable(c)
    <3>1. pc[c] \in Holding /\ "UNSENT" \in States
      BY <2>1 DEF ArmUnroutable, Holding, States
    <3> QED
      BY <2>1, <3>1, SettlePast DEF ArmUnroutable
  <2>2. CASE ArmWriteFailed(c)
    <3>1. pc[c] \in Holding /\ "SEND_FAILED" \in States
      BY <2>2 DEF ArmWriteFailed, Holding, States, Terminal, Ambiguous
    <3> QED
      BY <2>2, <3>1, SettlePast DEF ArmWriteFailed
  <2>3. CASE ArmSettle(c)
    <3>1. pc[c] \in Holding /\ verdict[c] \in States /\ verdict[c] # "PENDING"
      BY <2>3 DEF ArmSettle, Holding, Ownership, CallsOwn, TypeOK, States, Terminal, Ambiguous, Answered
    <3> QED
      BY <2>3, <3>1, SettlePast DEF ArmSettle
  <2>4. CASE \/ \E outcome \in {"sent", "error", "unknownLink"} : ArmWrite(c, outcome)
             \/ ArmAnnounce(c) \/ ArmReport(c) \/ ArmSelectAck(c)
             \/ \E why \in GiveUp : ArmSelectGiveUp(c, why)
    BY <2>4, IdlePast DEF ArmWrite, ArmAnnounce, ArmReport, ArmSelectAck, ArmSelectGiveUp
  <2> QED
    BY <1>2, <2>1, <2>2, <2>3, <2>4 DEF ArmStep
<1>3. ASSUME NEW o \in Operators, NEW k \in Keys, Resolve(o, k) PROVE Past'
  BY <1>3, ResolvePast, IdlePast DEF Resolve, ResolveRefused, vars
<1>4. CASE \/ \E o \in Operators : ResolvePublish(o)
           \/ \E k \in Keys : QuarantineRemaining(k)
           \/ \E a \in air \cup Overheard, result \in Results : AckLookup(a, result)
           \/ AckSend \/ \E a \in air : AckLost(a)
  BY <1>4, IdlePast DEF ResolvePublish, QuarantineRemaining, AckLookup, AckSend, AckLost
<1>5. CASE Tick
  <2>1. now \in Nat /\ \A t \in TxId : issuedAt[t] \in Nat
    BY DEF Ownership, TypeOK
  <2> QED
    BY <1>5, <2>1 DEF Tick, Past
<1>6. CASE Restart
  <2>1. epoch \in Nat /\ now \in Nat
    BY DEF Ownership, TypeOK
  <2> QED
    BY <1>6, <2>1 DEF Restart, Past, NewTx, TxId, None
<1> QED
  BY <1>0, <1>1, <1>2, <1>3, <1>4, <1>5, <1>6 DEF Next

-----------------------------------------------------------------------------
LEMMA InitAnswers == Init => Answers
  BY DEF Init, Answers, OncePerTx, BeforeWrite, AfterAnswer, Unanswered, InAir, Idle, NoAck,
         NewTx, None, TxId, Answered

\* The calls that have not written, or have an answer in hand, are among those before.
LEMMA IdleAnswers ==
    ASSUME Answers,
           UNCHANGED <<now, epoch, state, key, attestedAt, attestedAs, settledBy, ackChan, sink, air>>,
           \A c \in Callers : /\ pc'[c] \in {"write", "unroutable"} =>
                                    pc[c] \in {"write", "unroutable"} /\ callerTx'[c] = callerTx[c]
                              /\ pc'[c] = "settle" /\ verdict'[c] \in Answered =>
                                    /\ pc[c] = "settle" /\ verdict[c] = verdict'[c]
                                    /\ callerTx'[c] = callerTx[c]
    PROVE  Answers'
<1> SUFFICES ASSUME Trusted' PROVE (OncePerTx /\ BeforeWrite /\ AfterAnswer)'
  BY DEF Answers
<1>0. Trusted /\ OncePerTx /\ BeforeWrite /\ AfterAnswer
  BY DEF Answers, Trusted
<1>1. OncePerTx'
  BY <1>0 DEF OncePerTx, Flying, InAir
<1>2. BeforeWrite'
  <2>1. \A t \in TxId : Unanswered(t) => Unanswered(t)'
    BY DEF Unanswered, InAir
  <2>2. ASSUME NEW c \in Callers, pc'[c] \in {"write", "unroutable"} PROVE Unanswered(callerTx[c])
    BY <1>0, <2>2 DEF BeforeWrite
  <2> QED
    BY <1>0, <2>1, <2>2 DEF BeforeWrite, Unanswered, InAir
<1>3. AfterAnswer'
  BY <1>0 DEF AfterAnswer
<1> QED
  BY <1>1, <1>2, <1>3

\* Settling c's transaction: with an answer, if it has one, and unwritten if it has none.
LEMMA SettleAnswers ==
    ASSUME Ownership, Answers, NEW c \in Callers, pc[c] \in Holding,
           NEW s \in States \ {"UNISSUED"}, state' = [state EXCEPT ![callerTx[c]] = s],
           s = "UNSENT" => pc[c] = "unroutable",
           s \in Answered => pc[c] = "settle" /\ verdict[c] \in Answered,
           NEW at \in {"idle", "report"}, pc' = [pc EXCEPT ![c] = at],
           \A d \in Callers \ {c} : callerTx'[d] = callerTx[d],
           UNCHANGED <<now, epoch, key, attestedAt, attestedAs, settledBy, ackChan, sink, air, verdict>>
    PROVE  Answers'
<1> SUFFICES ASSUME Trusted' PROVE (OncePerTx /\ BeforeWrite /\ AfterAnswer)'
  BY DEF Answers
<1>0. Trusted /\ OncePerTx /\ BeforeWrite /\ AfterAnswer
  BY DEF Answers, Trusted
<1> DEFINE t == callerTx[c]
<1>1. t \in TxId /\ state[t] = "PENDING"
  BY HolderFacts
<1>2. /\ state'[t] = s /\ \A x \in TxId \ {t} : state'[x] = state[x]
      /\ pc'[c] = at /\ \A d \in Callers \ {c} : pc'[d] = pc[d]
  BY <1>1 DEF Ownership, TypeOK
<1>3. ASSUME NEW a \in air PROVE Flying(a)'
  <2>1. Flying(a)
    BY <1>0 DEF OncePerTx
  <2>2. CASE a.tx = t
    <3>1. s # "UNSENT"
      BY <1>0, <2>2 DEF BeforeWrite, Unanswered, InAir
    <3> QED
      BY <1>2, <2>1, <2>2, <3>1 DEF Flying
  <2>3. CASE a.tx # t
    BY <1>2, <2>1, <2>3 DEF Flying
  <2> QED
    BY <2>2, <2>3
<1>4. OncePerTx'
  BY <1>0, <1>3 DEF OncePerTx, InAir
<1>5. BeforeWrite'
  <2>1. \A x \in TxId : state'[x] = "UNISSUED" => state[x] = "UNISSUED"
    BY <1>2
  <2>2. ASSUME NEW d \in Callers, pc'[d] \in {"write", "unroutable"}
        PROVE  pc[d] \in {"write", "unroutable"} /\ callerTx'[d] = callerTx[d]
    BY <1>2, <2>2
  <2> QED
    BY <1>0, <2>1, <2>2 DEF BeforeWrite, Unanswered, InAir
<1>6. AfterAnswer'
  <2>1. ASSUME NEW x \in TxId, state'[x] \in Answered PROVE settledBy[x] = x
    BY <1>0, <1>2, <2>1 DEF AfterAnswer
  <2>2. ASSUME NEW d \in Callers, pc'[d] = "settle" /\ verdict[d] \in Answered
        PROVE  settledBy[callerTx'[d]] = callerTx'[d]
    BY <1>0, <1>2, <2>2 DEF AfterAnswer
  <2> QED
    BY <2>1, <2>2 DEF AfterAnswer
<1> QED
  BY <1>4, <1>5, <1>6

\* A new transaction has no answer yet.
LEMMA IssueAnswers ==
    ASSUME Ownership, Past, Answers, NEW c \in Callers, NEW k \in Keys, ArmIssue(c, k)
    PROVE  Answers'
<1> SUFFICES ASSUME Trusted' PROVE (OncePerTx /\ BeforeWrite /\ AfterAnswer)'
  BY DEF Answers
<1>u. PICK u \in TxId : u = nextID + 1
  BY BoundAssumption DEF ArmIssue, Ownership, TypeOK, TxId
<1>1. /\ state' = [state EXCEPT ![u] = "PENDING"] /\ key' = [key EXCEPT ![u] = k]
      /\ callerTx' = [callerTx EXCEPT ![c] = u] /\ pc' = [pc EXCEPT ![c] = "write"]
      /\ UNCHANGED <<now, epoch, attestedAt, attestedAs, settledBy, verdict, ackChan, sink, air>>
  BY <1>u DEF ArmIssue
<1>0. Trusted /\ OncePerTx /\ BeforeWrite /\ AfterAnswer
  BY <1>1 DEF Answers, Trusted
<1>2. /\ state'[u] = "PENDING" /\ \A x \in TxId \ {u} : state'[x] = state[x] /\ key'[x] = key[x]
      /\ pc'[c] = "write" /\ callerTx'[c] = u
      /\ \A d \in Callers \ {c} : pc'[d] = pc[d] /\ callerTx'[d] = callerTx[d]
  BY <1>1 DEF Ownership, TypeOK
<1>3. state[u] = "UNISSUED"
  BY <1>u DEF Ownership, TypeOK, Numbered
<1>4. Unanswered(u)
  BY <1>0, <1>3 DEF BeforeWrite
<1>5. ASSUME NEW a \in air PROVE Flying(a)'
  <2>1. Flying(a) /\ a.tx # u
    BY <1>0, <1>3 DEF OncePerTx, Flying
  <2> QED
    BY <1>1, <1>2, <2>1 DEF Flying
<1>6. OncePerTx'
  BY <1>0, <1>1, <1>5 DEF OncePerTx, InAir
<1>7. BeforeWrite'
  <2>1. \A x : Unanswered(x) <=> (~InAir(x) /\ sink.ack.tx # x /\ ackChan[x] = NoAck /\ settledBy[x] = None)'
    BY <1>1 DEF Unanswered, InAir
  <2>2. \A x \in TxId : state'[x] = "UNISSUED" => Unanswered(x)
    BY <1>0, <1>2 DEF BeforeWrite
  <2>3. \A d \in Callers : pc'[d] \in {"write", "unroutable"} => Unanswered(callerTx'[d])
    BY <1>0, <1>2, <1>4 DEF BeforeWrite
  <2> QED
    BY <1>1, <2>2, <2>3 DEF BeforeWrite, Unanswered, InAir
<1>8. AfterAnswer'
  <2>1. ASSUME NEW x \in TxId, state'[x] \in Answered PROVE settledBy[x] = x
    BY <1>0, <1>2, <2>1 DEF AfterAnswer, Answered
  <2>2. ASSUME NEW d \in Callers, pc'[d] = "settle" /\ verdict[d] \in Answered
        PROVE  settledBy[callerTx'[d]] = callerTx'[d]
    BY <1>0, <1>2, <2>2 DEF AfterAnswer
  <2> QED
    BY <1>1, <2>1, <2>2 DEF AfterAnswer
<1> QED
  BY <1>6, <1>7, <1>8

\* The one answer to the transaction is on its way.
LEMMA WriteAnswers ==
    ASSUME Ownership, Past, Answers, NEW c \in Callers, NEW outcome \in {"sent", "error"}, ArmWrite(c, outcome)
    PROVE  Answers'
<1> SUFFICES ASSUME Trusted' PROVE (OncePerTx /\ BeforeWrite /\ AfterAnswer)'
  BY DEF Answers
<1> DEFINE t == callerTx[c]
           answer == [key |-> key[t], tx |-> t, target |-> "gcs", due |-> now + AckDelay]
<1>1. /\ pc[c] = "write" /\ pc' = [pc EXCEPT ![c] = AfterWrite(outcome)] /\ air' = air \cup {answer}
      /\ UNCHANGED <<now, epoch, state, key, issuedAt, attestedAt, attestedAs, settledBy, callerTx,
                     verdict, ackChan, sink>>
  BY DEF ArmWrite, registry, txVars
<1>0. Trusted /\ OncePerTx /\ BeforeWrite /\ AfterAnswer
  BY <1>1 DEF Answers, Trusted
<1>2. t \in TxId /\ state[t] = "PENDING" /\ \A d \in Callers \ {c} : pc[d] # "idle" => callerTx[d] # t
  BY <1>1, HolderFacts DEF Holding
<1>3. /\ pc'[c] \in {"announce", "writeFailed"} /\ \A d \in Callers \ {c} : pc'[d] = pc[d]
  BY <1>1 DEF AfterWrite, Ownership, TypeOK
<1>4. Unanswered(t)
  BY <1>0, <1>1 DEF BeforeWrite
<1>5. answer.tx = t /\ answer.key = key[t] /\ answer.due = now + AckDelay
  OBVIOUS
<1>6. Flying(answer)
  <2>1. now \in Nat /\ AckDelay \in Nat
    BY AckDelayAssumption DEF Ownership, TypeOK
  <2>2. attestedAs[t] # <<epoch, t>>
    BY <1>2 DEF Past, Ambiguous
  <2>h. HIDE DEF answer
  <2> QED
    BY <1>2, <1>5, <2>1, <2>2 DEF Flying
<1>7. \A x \in TxId : InAir(x)' => InAir(x) \/ x = t
  BY <1>1, <1>5 DEF InAir
<1>8. OncePerTx'
  <2>1. \A a \in air' : Flying(a)'
    BY <1>0, <1>1, <1>6 DEF OncePerTx, Flying
  <2>2. \A a, b \in air' : a.tx = b.tx => a = b
    <3>h. HIDE DEF answer
    <3>1. \A a \in air : a.tx # answer.tx
      BY <1>4, <1>5 DEF Unanswered, InAir
    <3> QED
      BY <1>0, <1>1, <3>1 DEF OncePerTx
  <2>3. sink # Idle => sink.to \in TxId
    BY DEF Ownership, TypeOK
  <2>4. /\ sink # Idle => sink.ack.tx = sink.to /\ ~InAir(sink.to)'
        /\ \A x \in TxId : ackChan[x] # NoAck => ackChan[x].tx = x /\ ~InAir(x)'
        /\ \A x \in TxId : settledBy[x] # None => settledBy[x] = x /\ ~InAir(x)'
    <3>1. /\ sink # Idle => sink.ack.tx = sink.to /\ ~InAir(sink.to) /\ sink.to # t
          /\ \A x \in TxId : ackChan[x] # NoAck => ackChan[x].tx = x /\ ~InAir(x) /\ x # t
          /\ \A x \in TxId : settledBy[x] # None => settledBy[x] = x /\ ~InAir(x) /\ x # t
      BY <1>0, <1>4 DEF OncePerTx, Unanswered
    <3>2. sink # Idle => ~InAir(sink.to)'
      <4> SUFFICES ASSUME sink # Idle PROVE ~(\E a \in air' : a.tx = sink.to)
        BY <1>1 DEF InAir
      <4> QED
        BY <1>1, <1>5, <2>3, <3>1 DEF InAir
    <3> QED
      BY <1>7, <3>1, <3>2
  <2> QED
    BY <1>1, <2>1, <2>2, <2>4 DEF OncePerTx
<1>9. BeforeWrite'
  <2>1. ASSUME NEW x \in TxId, x # t, Unanswered(x) PROVE Unanswered(x)'
    BY <1>1, <1>7, <2>1 DEF Unanswered
  <2>2. ASSUME NEW x \in TxId, state'[x] = "UNISSUED" PROVE Unanswered(x)'
    BY <1>0, <1>1, <1>2, <2>1, <2>2 DEF BeforeWrite
  <2>3. ASSUME NEW d \in Callers, pc'[d] \in {"write", "unroutable"} PROVE Unanswered(callerTx[d])'
    <3>1. d # c /\ pc[d] \in {"write", "unroutable"}
      BY <1>3, <2>3
    <3>2. callerTx[d] # t /\ callerTx[d] \in TxId
      BY <1>2, <3>1 DEF Ownership, CallsOwn
    <3>3. Unanswered(callerTx[d])
      BY <1>0, <3>1 DEF BeforeWrite
    <3>4. ~InAir(callerTx[d]) /\ sink.ack.tx # callerTx[d] /\ ackChan[callerTx[d]] = NoAck /\ settledBy[callerTx[d]] = None
      BY <3>3 DEF Unanswered
    <3>5. \A a \in air' : a.tx # callerTx[d]
      BY <1>1, <1>5, <3>2, <3>4 DEF InAir
    <3> QED
      BY <1>1, <3>4, <3>5 DEF Unanswered, InAir
  <2> QED
    BY <1>1, <2>2, <2>3 DEF BeforeWrite, Unanswered, InAir
<1>10. AfterAnswer'
  BY <1>0, <1>1, <1>3 DEF AfterAnswer
<1> QED
  BY <1>8, <1>9, <1>10

\* Answers only leave the air: one is lost, or reaches a registry that drops it.
LEMMA ShrinkAnswers ==
    ASSUME Answers, air' \subseteq air,
           UNCHANGED <<now, epoch, state, key, attestedAt, attestedAs, settledBy, ackChan, sink,
                       pc, callerTx, verdict>>
    PROVE  Answers'
<1> SUFFICES ASSUME Trusted' PROVE (OncePerTx /\ BeforeWrite /\ AfterAnswer)'
  BY DEF Answers
<1>0. Trusted /\ OncePerTx /\ BeforeWrite /\ AfterAnswer
  BY DEF Answers, Trusted
<1>1. OncePerTx'
  <2>1. \A a \in air' : Flying(a)'
    BY <1>0 DEF OncePerTx, Flying
  <2> QED
    BY <1>0, <2>1 DEF OncePerTx, InAir
<1>2. BeforeWrite'
  BY <1>0 DEF BeforeWrite, Unanswered, InAir
<1>3. AfterAnswer'
  BY <1>0 DEF AfterAnswer
<1> QED
  BY <1>1, <1>2, <1>3

\* Arm's select takes the answer out of the channel: the answer to its transaction.
LEMMA SelectAnswers ==
    ASSUME Ownership, Answers, NEW c \in Callers, ArmSelectAck(c)
    PROVE  Answers'
<1> SUFFICES ASSUME Trusted' PROVE (OncePerTx /\ BeforeWrite /\ AfterAnswer)'
  BY DEF Answers
<1> DEFINE t == callerTx[c]
<1>1. /\ pc[c] = "await" /\ ackChan[t] # NoAck
      /\ settledBy' = [settledBy EXCEPT ![t] = ackChan[t].tx]
      /\ ackChan' = [ackChan EXCEPT ![t] = NoAck] /\ pc' = [pc EXCEPT ![c] = "settle"]
      /\ \A d \in Callers \ {c} : verdict'[d] = verdict[d]
      /\ UNCHANGED <<now, epoch, state, key, attestedAt, attestedAs, callerTx, sink, air>>
  BY DEF ArmSelectAck, registry, Ownership, TypeOK
<1>0. Trusted /\ OncePerTx /\ BeforeWrite /\ AfterAnswer
  BY <1>1 DEF Answers, Trusted
<1>2. t \in TxId /\ state[t] = "PENDING" /\ \A d \in Callers \ {c} : pc[d] # "idle" => callerTx[d] # t
  BY <1>1, HolderFacts DEF Holding
<1>3. ackChan[t].tx = t /\ ~InAir(t)
  BY <1>0, <1>1, <1>2 DEF OncePerTx
<1>4. /\ settledBy'[t] = t /\ ackChan'[t] = NoAck /\ pc'[c] = "settle"
      /\ \A x \in TxId \ {t} : settledBy'[x] = settledBy[x] /\ ackChan'[x] = ackChan[x]
      /\ \A d \in Callers \ {c} : pc'[d] = pc[d]
  BY <1>1, <1>2, <1>3 DEF Ownership, TypeOK
<1>5. OncePerTx'
  <2>1. \A a \in air' : Flying(a)'
    BY <1>0, <1>1 DEF OncePerTx, Flying
  <2>2. \A x \in TxId : /\ ackChan'[x] # NoAck => ackChan'[x].tx = x /\ ~InAir(x)
                        /\ settledBy'[x] # None => settledBy'[x] = x /\ ~InAir(x)
    BY <1>0, <1>3, <1>4 DEF OncePerTx
  <2> QED
    BY <1>0, <1>1, <2>1, <2>2 DEF OncePerTx, InAir
<1>6. BeforeWrite'
  <2>1. ASSUME NEW x \in TxId, x # t, Unanswered(x) PROVE Unanswered(x)'
    BY <1>1, <1>4, <2>1 DEF Unanswered, InAir
  <2>2. ASSUME NEW x \in TxId, state'[x] = "UNISSUED" PROVE Unanswered(x)'
    BY <1>0, <1>1, <1>2, <2>1, <2>2 DEF BeforeWrite
  <2>3. ASSUME NEW d \in Callers, pc'[d] \in {"write", "unroutable"} PROVE Unanswered(callerTx[d])'
    <3>1. d # c /\ pc[d] \in {"write", "unroutable"}
      BY <1>4, <2>3
    <3>2. PICK x \in TxId : x = callerTx[d] /\ x # t
      BY <1>2, <3>1 DEF Ownership, CallsOwn
    <3>3. Unanswered(x)
      BY <1>0, <3>1, <3>2 DEF BeforeWrite
    <3>4. Unanswered(x)'
      BY <2>1, <3>2, <3>3
    <3> QED
      BY <1>1, <3>2, <3>4 DEF Unanswered, InAir
  <2> QED
    BY <1>1, <2>2, <2>3 DEF BeforeWrite, Unanswered, InAir
<1>7. AfterAnswer'
  <2>1. ASSUME NEW x \in TxId, state'[x] \in Answered PROVE settledBy'[x] = x
    BY <1>0, <1>1, <1>4, <2>1 DEF AfterAnswer
  <2>2. ASSUME NEW d \in Callers, pc'[d] = "settle" /\ verdict'[d] \in Answered
        PROVE  settledBy'[callerTx[d]] = callerTx[d]
    <3>1. CASE d = c
      BY <1>4, <3>1
    <3>2. CASE d # c
      <4>1. pc[d] = "settle" /\ verdict[d] \in Answered
        BY <1>1, <1>4, <2>2, <3>2
      <4>2. callerTx[d] \in TxId \ {t}
        BY <1>2, <3>2, <4>1 DEF Ownership, CallsOwn
      <4> QED
        BY <1>0, <1>4, <4>1, <4>2 DEF AfterAnswer
    <3> QED
      BY <3>1, <3>2
  <2> QED
    BY <1>1, <2>1, <2>2 DEF AfterAnswer
<1> QED
  BY <1>5, <1>6, <1>7

\* An attestation comes after the write: whatever is in the air arrives within AckDelay of it.
LEMMA ResolveAnswers ==
    ASSUME Ownership, Answers, NEW o \in Operators, NEW k \in Keys, NEW e, NEW i, ResolveArm(o, k, e, i)
    PROVE  Answers'
<1> SUFFICES ASSUME Trusted' PROVE (OncePerTx /\ BeforeWrite /\ AfterAnswer)'
  BY DEF Answers
<1> DEFINE p == poisoned[k]
<1>1. /\ attestedAt' = [attestedAt EXCEPT ![p] = now] /\ attestedAs' = [attestedAs EXCEPT ![p] = <<e, i>>]
      /\ UNCHANGED <<now, epoch, state, key, settledBy, ackChan, sink, air, pc, callerTx, verdict>>
  BY DEF ResolveArm, callVars
<1>0. Trusted /\ OncePerTx /\ BeforeWrite /\ AfterAnswer
  BY <1>1 DEF Answers, Trusted
<1>2. /\ \A x \in TxId \ {p} : attestedAt'[x] = attestedAt[x] /\ attestedAs'[x] = attestedAs[x]
      /\ p \in TxId => attestedAt'[p] = now
  BY <1>1 DEF Ownership, TypeOK
<1>3. ASSUME NEW a \in air PROVE Flying(a)'
  <2>1. Flying(a)
    BY <1>0 DEF OncePerTx
  <2> QED
    BY <1>1, <1>2, <2>1 DEF Flying
<1>4. OncePerTx'
  BY <1>0, <1>1, <1>3 DEF OncePerTx, InAir
<1>5. BeforeWrite'
  BY <1>0, <1>1 DEF BeforeWrite, Unanswered, InAir
<1>6. AfterAnswer'
  BY <1>0, <1>1 DEF AfterAnswer
<1> QED
  BY <1>4, <1>5, <1>6

\* The heart of the matter: an answer that finds a transaction in flight on its key is
\* the answer to that transaction.  An earlier one has been answered, or was ambiguous,
\* and then the quarantine has outlived its answer.
LEMMA AnswersItsKey ==
    ASSUME Ownership, Ambiguity, Past, Trusted, OncePerTx, AfterAnswer,
           NEW a \in air, inflight[a.key] # None
    PROVE  inflight[a.key] = a.tx
<1> DEFINE t == inflight[a.key]
           s == a.tx
<1>1. Flying(a) /\ InAir(s)
  BY DEF OncePerTx, InAir
<1>2. a.key \in Keys /\ s \in TxId /\ key[s] = a.key /\ state[s] \notin {"UNISSUED", "UNSENT"}
  BY <1>1 DEF Flying, Ownership, TypeOK, Answer
<1>3. t \in TxId /\ key[t] = a.key /\ state[t] = "PENDING" /\ Newest(t)
  BY <1>2 DEF Ownership, TypeOK, KeysOwn, Ambiguity, HeldByNewest
<1>4. CASE state[s] = "PENDING"
  BY <1>2, <1>4 DEF Past
<1>5. state[s] \notin Answered
  BY <1>1, <1>2, NoneIsNoTx DEF OncePerTx, AfterAnswer
<1>6. CASE state[s] \in Ambiguous
  <2>1. s <= nextID /\ t <= nextID /\ s \in Nat /\ t \in Nat /\ nextID \in Nat
    <3>1. s \in Nat /\ t \in Nat /\ nextID \in Nat
      BY <1>2, <1>3 DEF Ownership, TypeOK, TxId
    <3>2. ~(nextID < s) /\ ~(nextID < t)
      BY <1>2, <1>3 DEF Ownership, Numbered
    <3> QED
      BY <3>1, <3>2
  <2>2. s # t
    BY <1>3, <1>6 DEF Ambiguous
  <2>3. s < t
    BY <1>2, <1>3, <2>1, <2>2 DEF Newest
  <2>4. attestedAs[s] = <<epoch, s>> /\ issuedAt[t] >= attestedAt[s] + Quarantine
    BY <1>2, <1>3, <1>6, <2>1, <2>3 DEF Ambiguity, AmbiguityClosesKey
  <2>5. now <= a.due /\ a.due <= attestedAt[s] + AckDelay /\ issuedAt[t] <= now
    BY <1>1, <1>3, <2>4 DEF Flying, Past
  <2>6. /\ now \in Nat /\ a.due \in Nat /\ attestedAt[s] \in Nat /\ issuedAt[t] \in Nat
        /\ Quarantine \in Nat /\ AckDelay \in Nat /\ AckDelay < Quarantine
    BY <1>2, <1>3, QuarantineAssumption, AckDelayAssumption DEF Ownership, TypeOK, Answer, Trusted
  <2> QED
    BY <2>4, <2>5, <2>6
<1>7. state[s] \in States
  BY <1>2 DEF Ownership, TypeOK
<1> QED
  BY <1>2, <1>4, <1>5, <1>6, <1>7 DEF States, Terminal

LEMMA LookupAnswers ==
    ASSUME Ownership, Ambiguity, Past, Answers,
           NEW a \in air \cup Overheard, NEW result \in Results, AckLookup(a, result)
    PROVE  Answers'
<1>1. CASE sink' = sink
  BY <1>1, ShrinkAnswers DEF AckLookup, callVars, txVars
<1>2. CASE sink' # sink
  <2> SUFFICES ASSUME Trusted' PROVE (OncePerTx /\ BeforeWrite /\ AfterAnswer)'
    BY DEF Answers
  <2> DEFINE t == inflight[a.key]
  <2>1. UNCHANGED <<now, epoch, state, key, attestedAt, attestedAs, settledBy, ackChan, pc, callerTx, verdict>>
    BY DEF AckLookup, callVars, txVars
  <2>0. Trusted /\ OncePerTx /\ BeforeWrite /\ AfterAnswer
    BY <2>1 DEF Answers, Trusted
  <2>2. /\ t # None /\ Final(result) /\ a.target = "gcs"
        /\ sink = Idle /\ sink' = [to |-> t, ack |-> [tx |-> a.tx, result |-> result]]
    BY <1>2 DEF AckLookup
  <2>3. a \in air /\ air' = air \ {a}
    BY <2>0, <2>2 DEF Overheard, Final, Trusted, AckLookup
  <2>4. a.tx = t /\ t \in TxId
    <3>1. t = a.tx
      BY <2>0, <2>2, <2>3, AnswersItsKey
    <3> QED
      BY <2>0, <2>3, <3>1 DEF OncePerTx, Flying
  <2>5. InAir(t) /\ \A b \in air' : b.tx # t
    BY <2>0, <2>3, <2>4 DEF OncePerTx, InAir
  <2>6. sink'.to = t /\ sink'.ack.tx = t
    BY <2>2, <2>4
  <2>7. OncePerTx'
    <3>1. \A b \in air' : Flying(b)'
      BY <2>0, <2>1, <2>3 DEF OncePerTx, Flying
    <3>2. \A x \in TxId : ~InAir(x) => ~InAir(x)'
      BY <2>3 DEF InAir
    <3>3. ~InAir(sink.to)'
      BY <2>5, <2>6 DEF InAir
    <3> QED
      BY <2>0, <2>1, <2>3, <2>6, <3>1, <3>2, <3>3 DEF OncePerTx
  <2>8. BeforeWrite'
    <3>1. ASSUME NEW x, Unanswered(x)
          PROVE  (\A b \in air' : b.tx # x) /\ sink'.ack.tx # x /\ ackChan'[x] = NoAck /\ settledBy'[x] = None
      BY <2>1, <2>3, <2>5, <2>6, <3>1 DEF Unanswered, InAir
    <3> QED
      BY <2>0, <2>1, <3>1 DEF BeforeWrite, Unanswered, InAir
  <2>9. AfterAnswer'
    BY <2>0, <2>1 DEF AfterAnswer
  <2> QED
    BY <2>7, <2>8, <2>9
<1> QED
  BY <1>1, <1>2

LEMMA SendAnswers == ASSUME Ownership, Answers, AckSend PROVE Answers'
<1> SUFFICES ASSUME Trusted' PROVE (OncePerTx /\ BeforeWrite /\ AfterAnswer)'
  BY DEF Answers
<1>1. UNCHANGED <<now, epoch, state, key, attestedAt, attestedAs, settledBy, air, pc, callerTx, verdict>>
  BY DEF AckSend, registry, txVars, callVars
<1>0. Trusted /\ OncePerTx /\ BeforeWrite /\ AfterAnswer
  BY <1>1 DEF Answers, Trusted
<1>2. sink # Idle /\ sink' = Idle /\ sink.to \in TxId /\ sink.ack.tx = sink.to /\ ~InAir(sink.to)
  BY <1>0 DEF AckSend, OncePerTx, Ownership, TypeOK
<1>3. \A x \in TxId : ackChan'[x] = ackChan[x] \/ (x = sink.to /\ ackChan'[x] = sink.ack)
  BY <1>2 DEF AckSend, Ownership, TypeOK
<1>4. OncePerTx'
  <2>1. \A a \in air' : Flying(a)'
    BY <1>0, <1>1 DEF OncePerTx, Flying
  <2>2. \A x \in TxId : ackChan'[x] # NoAck => ackChan'[x].tx = x /\ ~InAir(x)
    BY <1>0, <1>2, <1>3 DEF OncePerTx
  <2> QED
    BY <1>0, <1>1, <1>2, <2>1, <2>2 DEF OncePerTx, InAir
<1>5. BeforeWrite'
  <2>1. ASSUME NEW x \in TxId, Unanswered(x)
        PROVE  ~InAir(x) /\ sink'.ack.tx # x /\ ackChan'[x] = NoAck /\ settledBy[x] = None
    <3>1. sink'.ack.tx = None
      BY <1>2 DEF Idle, NoAck
    <3> QED
      BY <1>2, <1>3, <2>1, <3>1, NoneIsNoTx DEF Unanswered
  <2>2. ASSUME NEW d \in Callers, pc[d] \in {"write", "unroutable"} PROVE callerTx[d] \in TxId
    BY <2>2 DEF Ownership, CallsOwn
  <2> QED
    BY <1>0, <1>1, <2>1, <2>2 DEF BeforeWrite, Unanswered, InAir
<1>6. AfterAnswer'
  BY <1>0, <1>1 DEF AfterAnswer
<1> QED
  BY <1>4, <1>5, <1>6

LEMMA TickAnswers == ASSUME Ownership, Answers, Tick PROVE Answers'
<1> SUFFICES ASSUME Trusted' PROVE (OncePerTx /\ BeforeWrite /\ AfterAnswer)'
  BY DEF Answers
<1>1. /\ now' = now + 1 /\ \A a \in air : now < a.due
      /\ UNCHANGED <<epoch, state, key, attestedAt, attestedAs, settledBy, ackChan, sink, air,
                     pc, callerTx, verdict>>
  BY DEF Tick, txVars, callVars
<1>0. Trusted /\ OncePerTx /\ BeforeWrite /\ AfterAnswer
  BY <1>1 DEF Answers, Trusted
<1>2. ASSUME NEW a \in air PROVE Flying(a)'
  <2>1. Flying(a) /\ now < a.due
    BY <1>0, <1>1 DEF OncePerTx
  <2>2. now \in Nat /\ a.due \in Nat /\ AckDelay \in Nat
    BY AckDelayAssumption DEF Ownership, TypeOK, Answer
  <2> QED
    BY <1>1, <2>1, <2>2 DEF Flying
<1>3. OncePerTx'
  BY <1>0, <1>1, <1>2 DEF OncePerTx, InAir
<1>4. BeforeWrite' /\ AfterAnswer'
  BY <1>0, <1>1 DEF BeforeWrite, AfterAnswer, Unanswered, InAir
<1> QED
  BY <1>3, <1>4

\* Every step keeps an answer where it belongs; a restart ends the trust in answers.
LEMMA NextAnswers == Ownership /\ Ambiguity /\ Past /\ Answers /\ [Next]_vars => Answers'
<1> SUFFICES ASSUME Ownership, Ambiguity, Past, Answers, [Next]_vars PROVE Answers'
  OBVIOUS
<1> USE DEF registry, txVars, callVars
<1>t. pc \in [Callers -> PCs] /\ callerTx \in [Callers -> TxId \cup {None}]
  BY DEF Ownership, TypeOK
<1>0. CASE UNCHANGED vars
  BY <1>0, IdleAnswers DEF vars
<1>1. ASSUME NEW c \in Callers, NEW k \in Keys, Arm(c, k) PROVE Answers'
  BY <1>0, <1>1, IssueAnswers DEF Arm, ArmRefused
<1>2. ASSUME NEW c \in Callers, ArmStep(c) PROVE Answers'
  <2>1. CASE ArmUnroutable(c)
    <3>1. pc[c] \in Holding /\ "UNSENT" \in States \ {"UNISSUED"} /\ "UNSENT" \notin Answered
      BY <2>1 DEF ArmUnroutable, Holding, States, Answered
    <3>2. \A d \in Callers \ {c} : callerTx'[d] = callerTx[d]
      BY <1>t, <2>1 DEF ArmUnroutable
    <3> QED
      BY <2>1, <3>1, <3>2, SettleAnswers DEF ArmUnroutable
  <2>2. CASE ArmWriteFailed(c)
    <3>1. /\ pc[c] \in Holding /\ "SEND_FAILED" \in States \ {"UNISSUED"}
          /\ "SEND_FAILED" \notin Answered /\ "SEND_FAILED" # "UNSENT"
      BY <2>2 DEF ArmWriteFailed, Holding, States, Terminal, Ambiguous, Answered
    <3> QED
      BY <2>2, <3>1, SettleAnswers DEF ArmWriteFailed
  <2>3. CASE ArmSettle(c)
    <3>1. /\ pc[c] \in Holding /\ pc[c] = "settle" /\ verdict[c] \in States \ {"UNISSUED"} /\ verdict[c] # "UNSENT"
      BY <2>3 DEF ArmSettle, Holding, Ownership, TypeOK, States, Terminal, Ambiguous, Answered
    <3> QED
      BY <2>3, <3>1, SettleAnswers DEF ArmSettle
  <2>4. ASSUME NEW outcome \in {"sent", "error", "unknownLink"}, ArmWrite(c, outcome) PROVE Answers'
    <3>1. CASE outcome = "unknownLink"
      <4>1. pc[c] = "write" /\ pc' = [pc EXCEPT ![c] = "unroutable"] /\ UNCHANGED <<callerTx, verdict, air>>
        BY <2>4, <3>1 DEF ArmWrite, AfterWrite
      <4>2. \A d \in Callers : /\ pc'[d] \in {"write", "unroutable"} => pc[d] \in {"write", "unroutable"}
                               /\ pc'[d] = "settle" => pc[d] = "settle"
        BY <1>t, <4>1
      <4> QED
        BY <2>4, <4>1, <4>2, IdleAnswers DEF ArmWrite
    <3>2. CASE outcome # "unknownLink"
      BY <2>4, <3>2, WriteAnswers
    <3> QED
      BY <3>1, <3>2
  <2>5. CASE ArmAnnounce(c)
    <3>1. \A d \in Callers : pc'[d] = pc[d] \/ pc'[d] = "await"
      BY <1>t, <2>5 DEF ArmAnnounce
    <3> QED
      BY <2>5, <3>1, IdleAnswers DEF ArmAnnounce
  <2>6. CASE ArmReport(c)
    <3>1. \A d \in Callers : \/ pc'[d] = pc[d] /\ callerTx'[d] = callerTx[d] /\ verdict'[d] = verdict[d]
                             \/ pc'[d] = "idle"
      BY <1>t, <2>6 DEF ArmReport, Ownership, TypeOK
    <3> QED
      BY <2>6, <3>1, IdleAnswers DEF ArmReport
  <2>7. ASSUME NEW why \in GiveUp, ArmSelectGiveUp(c, why) PROVE Answers'
    <3>1. \A d \in Callers : \/ pc'[d] = pc[d] /\ verdict'[d] = verdict[d]
                             \/ pc'[d] = "settle" /\ verdict'[d] \notin Answered
      BY <1>t, <2>7 DEF ArmSelectGiveUp, GiveUp, Answered, Ownership, TypeOK
    <3> QED
      BY <2>7, <3>1, IdleAnswers DEF ArmSelectGiveUp
  <2> QED
    BY <1>2, <2>1, <2>2, <2>3, <2>4, <2>5, <2>6, <2>7, SelectAnswers DEF ArmStep
<1>3. ASSUME NEW o \in Operators, NEW k \in Keys, Resolve(o, k) PROVE Answers'
  BY <1>0, <1>3, ResolveAnswers DEF Resolve, ResolveRefused
<1>4. CASE (\E o \in Operators : ResolvePublish(o)) \/ \E k \in Keys : QuarantineRemaining(k)
  BY <1>4, IdleAnswers DEF ResolvePublish, QuarantineRemaining
<1>5. CASE \E a \in air \cup Overheard, result \in Results : AckLookup(a, result)
  BY <1>5, LookupAnswers
<1>6. CASE \E a \in air : AckLost(a)
  BY <1>6, ShrinkAnswers DEF AckLost
<1>7. CASE Restart
  <2>1. epoch \in Nat /\ epoch' = epoch + 1 /\ epoch >= 1
    BY <1>7 DEF Restart, Past, Ownership, TypeOK
  <2> QED
    BY <2>1 DEF Answers, Trusted
<1> QED
  BY <1>0, <1>1, <1>2, <1>3, <1>4, <1>5, <1>6, <1>7, SendAnswers, TickAnswers DEF Next

-----------------------------------------------------------------------------
\* What the Publisher has been handed of t.
Told(t, S) == At(t, S) # {}
ToldAs(t, resolved) == \E i \in At(t, Terminal) : log[i].resolved = resolved

\* PENDING is told once, first, and a terminal state is told as it is, at most once
\* by the call and once by an attestation.
InOrder(t) ==
    /\ \A i \in At(t, {"PENDING"}), j \in At(t, {"PENDING"}) : i = j
    /\ \A i \in At(t, {"PENDING"}), j \in At(t, Terminal) : i < j
    /\ \A i, j \in At(t, Terminal) : log[i].resolved = log[j].resolved => i = j
    /\ \A i \in At(t, Terminal) : log[i].state = state[t]
    /\ state[t] \in Terminal \ {"SEND_FAILED"} => Told(t, {"PENDING"})
    /\ state[t] \in {"UNISSUED", "UNSENT"} => ~Told(t, {"PENDING"})

\* What the call that runs t, and an operator who attests it, still have to tell.
ToTell ==
    /\ \A c \in Callers :
        /\ pc[c] \in Holding \ {"await", "settle"} => ~Told(callerTx[c], {"PENDING"})
        /\ pc[c] \in {"await", "settle"} => Told(callerTx[c], {"PENDING"})
        /\ pc[c] = "report" => ~ToldAs(callerTx[c], FALSE)
    /\ \A k \in Keys : poisoned[k] # None => ~ToldAs(poisoned[k], TRUE)
    /\ \A o \in Operators : resolver[o] # None =>
        /\ ~ToldAs(resolver[o], TRUE)
        /\ \A k \in Keys : poisoned[k] # resolver[o]
        /\ \A p \in Operators : p # o => resolver[p] # resolver[o]

Publication == (\A t \in TxId : InOrder(t)) /\ ToTell

LEMMA InitPublication == Init => Publication
  BY DEF Init, Publication, InOrder, ToTell, Told, ToldAs, At, Holding, Terminal, Ambiguous, Answered, None

\* What one publication adds to the log.
LEMMA PublishedFacts ==
    ASSUME TypeOK, NEW x \in TxId, NEW b \in BOOLEAN, state[x] \in Terminal \cup {"PENDING"},
           log' = Published(x, b)
    PROVE  /\ Len(log) \in Nat
           /\ \A t \in TxId : \A S : At(t, S)' = IF t = x /\ state[x] \in S
                                             THEN At(t, S) \cup {Len(log) + 1} ELSE At(t, S)
           /\ \A t \in TxId : \A S : \A i \in At(t, S) : i \in 1..Len(log) /\ log'[i] = log[i]
           /\ log'[Len(log) + 1] = [tx |-> x, state |-> state[x], resolved |-> b]
<1> DEFINE r == [tx |-> x, state |-> state[x], resolved |-> b]
<1>1. log \in Seq(Snapshot) /\ r \in Snapshot /\ log' = Append(log, r)
  BY DEF TypeOK, Snapshot, Published
<1>h. r.tx = x /\ r.state = state[x]
  OBVIOUS
<1>g. HIDE DEF r
<1>2. /\ Len(log) \in Nat /\ Len(log') = Len(log) + 1 /\ log'[Len(log) + 1] = r
      /\ \A i \in 1..Len(log) : log'[i] = log[i]
  BY <1>1
<1>3. \A i : i \in 1..Len(log') <=> i \in 1..Len(log) \/ i = Len(log) + 1
  BY <1>2
<1>4. ASSUME NEW t \in TxId, NEW S
      PROVE  At(t, S)' = IF t = x /\ state[x] \in S THEN At(t, S) \cup {Len(log) + 1} ELSE At(t, S)
  BY <1>2, <1>3, <1>h DEF At
<1>5. \A t \in TxId : \A S : \A i \in At(t, S) : i \in 1..Len(log) /\ log'[i] = log[i]
  BY <1>2 DEF At
<1> QED
  BY <1>2, <1>4, <1>5 DEF r

\* Steps that publish nothing and leave every transaction as it is.
LEMMA IdlePublication ==
    ASSUME Publication, UNCHANGED <<log, state, poisoned, resolver>>,
           \A c \in Callers : \/ pc'[c] = pc[c] /\ callerTx'[c] = callerTx[c]
                              \/ /\ callerTx'[c] = callerTx[c]
                                 /\ \/ {pc[c], pc'[c]} \subseteq Holding \ {"await", "settle"}
                                    \/ {pc[c], pc'[c]} \subseteq {"await", "settle"}
    PROVE  Publication'
<1>1. ASSUME NEW t \in TxId PROVE InOrder(t)'
  BY DEF Publication, InOrder, Told, At
<1>2. \A t, S, b : (Told(t, S)' <=> Told(t, S)) /\ (ToldAs(t, b)' <=> ToldAs(t, b))
  BY DEF Told, ToldAs, At
<1>3. ASSUME NEW c \in Callers
      PROVE  /\ pc'[c] \in Holding \ {"await", "settle"} => ~Told(callerTx'[c], {"PENDING"})
             /\ pc'[c] \in {"await", "settle"} => Told(callerTx'[c], {"PENDING"})
             /\ pc'[c] = "report" => ~ToldAs(callerTx'[c], FALSE)
  <2>1. callerTx'[c] = callerTx[c]
    OBVIOUS
  <2> QED
    BY <2>1 DEF Publication, ToTell, Holding
<1>4. ToTell'
  <2>1. ASSUME NEW k \in Keys, poisoned'[k] # None PROVE ~ToldAs(poisoned'[k], TRUE)
    BY <2>1 DEF Publication, ToTell
  <2>2. ASSUME NEW o \in Operators, resolver'[o] # None
        PROVE  /\ ~ToldAs(resolver'[o], TRUE) /\ \A k \in Keys : poisoned'[k] # resolver'[o]
               /\ \A q \in Operators : q # o => resolver'[q] # resolver'[o]
    BY <2>2 DEF Publication, ToTell
  <2> QED
    BY <1>3, <2>1, <2>2 DEF ToTell, Told, ToldAs, At
<1> QED
  BY <1>1, <1>4 DEF Publication

\* A transaction that has not ended has no terminal snapshot.
LEMMA NothingTold ==
    ASSUME Publication, NEW t \in TxId, state[t] \notin Terminal PROVE At(t, Terminal) = {}
  BY DEF Publication, InOrder, At

\* Settling c's transaction: its end is not told yet, its beginning is if it was written.
LEMMA SettlePublication ==
    ASSUME Ownership, Publication, NEW c \in Callers, pc[c] \in Holding,
           NEW s \in Terminal \cup {"UNSENT"}, state' = [state EXCEPT ![callerTx[c]] = s],
           s = "UNSENT" => pc[c] = "unroutable",
           s \in Terminal \ {"SEND_FAILED"} => pc[c] = "settle",
           NEW at \in {"idle", "report"}, pc' = [pc EXCEPT ![c] = at],
           at = "report" => callerTx'[c] = callerTx[c],
           \A d \in Callers \ {c} : callerTx'[d] = callerTx[d],
           \A k \in Keys : poisoned'[k] \in {poisoned[k], callerTx[c]},
           UNCHANGED <<log, resolver>>
    PROVE  Publication'
<1>t. PICK t \in TxId : t = callerTx[c]
  BY HolderFacts
<1>1. /\ state[t] = "PENDING" /\ state[t] \notin Terminal
      /\ \A d \in Callers \ {c} : pc[d] # "idle" => callerTx[d] # t
  BY <1>t, HolderFacts DEF Terminal, Ambiguous, Answered
<1>2. /\ state'[t] = s /\ \A x \in TxId \ {t} : state'[x] = state[x]
      /\ pc'[c] = at /\ \A d \in Callers \ {c} : pc'[d] = pc[d]
  BY <1>t, <1>1 DEF Ownership, TypeOK
<1>3. At(t, Terminal) = {}
  BY <1>1, NothingTold
<1>4. /\ s \in Terminal \ {"SEND_FAILED"} => Told(t, {"PENDING"})
      /\ s = "UNSENT" => ~Told(t, {"PENDING"})
  BY <1>t DEF Publication, ToTell, Holding
<1>5. InOrder(t)'
  BY <1>1, <1>2, <1>3, <1>4 DEF Publication, InOrder, Told, At, Terminal, Ambiguous, Answered
<1>6. ASSUME NEW x \in TxId, x # t PROVE InOrder(x)'
  BY <1>2, <1>6 DEF Publication, InOrder, Told, At
<1>7. \A x, S, b : (Told(x, S)' <=> Told(x, S)) /\ (ToldAs(x, b)' <=> ToldAs(x, b))
  BY DEF Told, ToldAs, At
<1>8. ~ToldAs(t, FALSE) /\ ~ToldAs(t, TRUE)
  BY <1>3 DEF ToldAs
<1>9. ToTell'
  <2>1. ASSUME NEW d \in Callers
        PROVE  /\ pc'[d] \in Holding \ {"await", "settle"} => ~Told(callerTx'[d], {"PENDING"})
               /\ pc'[d] \in {"await", "settle"} => Told(callerTx'[d], {"PENDING"})
               /\ pc'[d] = "report" => ~ToldAs(callerTx'[d], FALSE)
    <3>1. CASE d = c
      BY <1>t, <1>2, <1>8, <3>1 DEF Holding
    <3>2. CASE d # c
      BY <1>2, <3>2 DEF Publication, ToTell
    <3> QED
      BY <3>1, <3>2
  <2>2. ASSUME NEW k \in Keys, poisoned'[k] # None PROVE ~ToldAs(poisoned'[k], TRUE)
    BY <1>t, <1>8, <2>2 DEF Publication, ToTell
  <2>3. ASSUME NEW o \in Operators, resolver[o] # None
        PROVE  /\ ~ToldAs(resolver[o], TRUE) /\ \A k \in Keys : poisoned'[k] # resolver[o]
               /\ \A p \in Operators : p # o => resolver[p] # resolver[o]
    <3>1. resolver[o] # t
      BY <1>1, <2>3 DEF Ownership, Numbered, Terminal
    <3> QED
      BY <1>t, <2>3, <3>1 DEF Publication, ToTell
  <2> QED
    BY <2>1, <2>2, <2>3 DEF ToTell, Told, ToldAs, At
<1> QED
  BY <1>5, <1>6, <1>9 DEF Publication

LEMMA IssuePublication ==
    ASSUME Ownership, Publication, NEW c \in Callers, NEW k \in Keys, ArmIssue(c, k)
    PROVE  Publication'
<1>u. PICK u \in TxId : u = nextID + 1
  BY BoundAssumption DEF ArmIssue, Ownership, TypeOK, TxId
<1>1. /\ state' = [state EXCEPT ![u] = "PENDING"] /\ callerTx' = [callerTx EXCEPT ![c] = u]
      /\ pc' = [pc EXCEPT ![c] = "write"] /\ UNCHANGED <<log, poisoned, resolver>>
  BY <1>u DEF ArmIssue
<1>2. /\ state'[u] = "PENDING" /\ \A x \in TxId \ {u} : state'[x] = state[x]
      /\ pc'[c] = "write" /\ callerTx'[c] = u
      /\ \A d \in Callers \ {c} : pc'[d] = pc[d] /\ callerTx'[d] = callerTx[d]
  BY <1>1 DEF Ownership, TypeOK
<1>3. state[u] = "UNISSUED" /\ state[u] \notin Terminal
  BY <1>u DEF Ownership, TypeOK, Numbered, Terminal, Ambiguous, Answered
<1>4. At(u, Terminal) = {} /\ At(u, {"PENDING"}) = {}
  BY <1>3, NothingTold DEF Publication, InOrder, Told
<1>5. InOrder(u)'
  BY <1>1, <1>2, <1>4 DEF InOrder, Told, At, Terminal, Ambiguous, Answered
<1>6. ASSUME NEW x \in TxId, x # u PROVE InOrder(x)'
  BY <1>1, <1>2, <1>6 DEF Publication, InOrder, Told, At
<1>7. ToTell'
  <2>1. ASSUME NEW d \in Callers
        PROVE  /\ pc'[d] \in Holding \ {"await", "settle"} => ~Told(callerTx'[d], {"PENDING"})
               /\ pc'[d] \in {"await", "settle"} => Told(callerTx'[d], {"PENDING"})
               /\ pc'[d] = "report" => ~ToldAs(callerTx'[d], FALSE)
    <3>1. CASE d = c
      BY <1>2, <1>4, <3>1 DEF Told
    <3>2. CASE d # c
      BY <1>2, <3>2 DEF Publication, ToTell
    <3> QED
      BY <3>1, <3>2
  <2> QED
    BY <1>1, <2>1 DEF Publication, ToTell, Told, ToldAs, At
<1> QED
  BY <1>5, <1>6, <1>7 DEF Publication

\* An attestation takes the transaction out of the poisoned map: one operator tells it.
LEMMA ResolvePublication ==
    ASSUME Ownership, Publication, NEW o \in Operators, NEW k \in Keys, NEW e, NEW i, ResolveArm(o, k, e, i)
    PROVE  Publication'
<1> DEFINE x == poisoned[k]
<1>1. /\ poisoned' = [poisoned EXCEPT ![k] = None] /\ resolver' = [resolver EXCEPT ![o] = x]
      /\ UNCHANGED <<log, state, pc, callerTx>>
  BY DEF ResolveArm, callVars
<1>2. x \in TxId /\ key[x] = k /\ x # None
  BY NoneIsNoTx DEF ResolveArm, Ownership, TypeOK, KeysOwn
<1>3. /\ resolver'[o] = x /\ \A p \in Operators \ {o} : resolver'[p] = resolver[p]
      /\ poisoned'[k] = None /\ \A j \in Keys \ {k} : poisoned'[j] = poisoned[j]
  BY <1>1 DEF Ownership, TypeOK
<1>4. ~ToldAs(x, TRUE) /\ \A p \in Operators : resolver[p] # x
  BY <1>2 DEF Publication, ToTell
<1>5. \A j \in Keys : poisoned'[j] # x
  BY <1>2, <1>3 DEF Ownership, KeysOwn
<1>6. ASSUME NEW t \in TxId PROVE InOrder(t)'
  BY <1>1 DEF Publication, InOrder, Told, At
<1>7. ToTell'
  <2>1. ASSUME NEW j \in Keys, poisoned'[j] # None PROVE ~ToldAs(poisoned'[j], TRUE)
    BY <1>3, <2>1 DEF Publication, ToTell
  <2>2. ASSUME NEW p \in Operators, resolver'[p] # None
        PROVE  /\ ~ToldAs(resolver'[p], TRUE) /\ \A j \in Keys : poisoned'[j] # resolver'[p]
               /\ \A q \in Operators : q # p => resolver'[q] # resolver'[p]
    <3>1. CASE p = o
      BY <1>3, <1>4, <1>5, <3>1
    <3>2. CASE p # o
      <4>1. /\ ~ToldAs(resolver[p], TRUE) /\ \A j \in Keys : poisoned[j] # resolver[p]
            /\ \A q \in Operators : q # p => resolver[q] # resolver[p]
        BY <1>3, <2>2, <3>2 DEF Publication, ToTell
      <4> QED
        BY <1>3, <1>4, <2>2, <3>2, <4>1
    <3> QED
      BY <3>1, <3>2
  <2> QED
    BY <1>1, <2>1, <2>2 DEF Publication, ToTell, Told, ToldAs, At
<1> QED
  BY <1>6, <1>7 DEF Publication

LEMMA AnnouncePublication ==
    ASSUME Ownership, Publication, NEW c \in Callers, ArmAnnounce(c) PROVE Publication'
<1>x. PICK x \in TxId : x = callerTx[c]
  BY DEF ArmAnnounce, Ownership, CallsOwn
<1>1. /\ pc[c] = "announce" /\ log' = Published(x, FALSE) /\ pc' = [pc EXCEPT ![c] = "await"]
      /\ UNCHANGED <<state, poisoned, resolver, callerTx>>
  BY <1>x DEF ArmAnnounce, registry, txVars
<1>2. /\ state[x] = "PENDING" /\ state[x] \in Terminal \cup {"PENDING"} /\ "PENDING" \notin Terminal
      /\ \A d \in Callers \ {c} : pc[d] # "idle" => callerTx[d] # x
  BY <1>x, <1>1, HolderFacts DEF Holding, Terminal, Ambiguous, Answered
<1>3. pc'[c] = "await" /\ \A d \in Callers \ {c} : pc'[d] = pc[d]
  BY <1>1 DEF Ownership, TypeOK
<1>4. /\ At(x, Terminal) = {} /\ At(x, {"PENDING"}) = {}
  BY <1>x, <1>1, <1>2, NothingTold DEF Publication, ToTell, Told, Holding
<1>5. /\ At(x, {"PENDING"})' = {Len(log) + 1}
      /\ \A t \in TxId \ {x} : At(t, {"PENDING"})' = At(t, {"PENDING"})
      /\ \A t \in TxId : At(t, Terminal)' = At(t, Terminal)
      /\ \A t \in TxId : \A i \in At(t, Terminal) : log'[i] = log[i]
  <2>1. /\ \A t \in TxId : \A S : At(t, S)' = IF t = x /\ state[x] \in S
                                         THEN At(t, S) \cup {Len(log) + 1} ELSE At(t, S)
        /\ \A t \in TxId : \A S : \A i \in At(t, S) : i \in 1..Len(log) /\ log'[i] = log[i]
    BY <1>1, <1>2, PublishedFacts DEF Ownership
  <2> QED
    BY <1>2, <1>4, <2>1
<1>6. InOrder(x)'
  BY <1>1, <1>2, <1>4, <1>5 DEF InOrder, Told
<1>7. ASSUME NEW t \in TxId, t # x PROVE InOrder(t)'
  <2>1. /\ InOrder(t) /\ At(t, {"PENDING"})' = At(t, {"PENDING"}) /\ At(t, Terminal)' = At(t, Terminal)
        /\ \A i \in At(t, Terminal) : log'[i] = log[i]
    BY <1>5, <1>7 DEF Publication
  <2>2. state' = state
    BY <1>1
  <2>3. /\ \A i, j \in At(t, Terminal)' : log'[i].resolved = log'[j].resolved => i = j
        /\ \A i \in At(t, Terminal)' : log'[i].state = state[t]
    BY <2>1 DEF InOrder
  <2> QED
    BY <2>1, <2>2, <2>3 DEF InOrder, Told
<1>8. /\ \A t \in TxId, b \in BOOLEAN : ToldAs(t, b)' <=> ToldAs(t, b)
      /\ Told(x, {"PENDING"})' /\ \A t \in TxId \ {x} : Told(t, {"PENDING"})' <=> Told(t, {"PENDING"})
  BY <1>5 DEF Told, ToldAs
<1>9. ToTell'
  <2>1. ASSUME NEW d \in Callers
        PROVE  (/\ pc[d] \in Holding \ {"await", "settle"} => ~Told(callerTx[d], {"PENDING"})
                /\ pc[d] \in {"await", "settle"} => Told(callerTx[d], {"PENDING"})
                /\ pc[d] = "report" => ~ToldAs(callerTx[d], FALSE))'
    <3>1. CASE d = c
      BY <1>x, <1>1, <1>3, <1>8, <3>1 DEF Told
    <3>2. CASE d # c /\ pc[d] # "idle"
      <4>1. PICK y \in TxId \ {x} : y = callerTx[d]
        BY <1>2, <3>2 DEF Ownership, CallsOwn
      <4>2. /\ pc'[d] = pc[d] /\ callerTx'[d] = y
            /\ pc[d] \in Holding \ {"await", "settle"} => ~Told(y, {"PENDING"})'
            /\ pc[d] \in {"await", "settle"} => Told(y, {"PENDING"})'
            /\ pc[d] = "report" => ~ToldAs(y, FALSE)'
        BY <1>1, <1>3, <1>8, <3>2, <4>1 DEF Publication, ToTell
      <4> QED
        BY <4>2 DEF Told, ToldAs, At
    <3>3. CASE d # c /\ pc[d] = "idle"
      BY <1>3, <3>3 DEF Holding
    <3> QED
      BY <3>1, <3>2, <3>3
  <2>2. ASSUME NEW k \in Keys, poisoned'[k] # None PROVE ~ToldAs(poisoned[k], TRUE)'
    <3>1. PICK y \in TxId : y = poisoned[k]
      BY <1>1, <2>2 DEF Ownership, TypeOK
    <3>2. ~ToldAs(y, TRUE)'
      BY <1>1, <1>8, <2>2, <3>1 DEF Publication, ToTell
    <3> QED
      BY <1>1, <3>1, <3>2 DEF ToldAs, At
  <2>3. ASSUME NEW o \in Operators, resolver'[o] # None PROVE ~ToldAs(resolver[o], TRUE)'
    <3>1. PICK y \in TxId : y = resolver[o]
      BY <1>1, <2>3 DEF Ownership, TypeOK
    <3>2. ~ToldAs(y, TRUE)'
      BY <1>1, <1>8, <2>3, <3>1 DEF Publication, ToTell
    <3> QED
      BY <1>1, <3>1, <3>2 DEF ToldAs, At
  <2> QED
    BY <1>1, <2>1, <2>2, <2>3 DEF Publication, ToTell
<1> QED
  BY <1>6, <1>7, <1>9 DEF Publication

\* The end of x is told, by the call or by an operator, for the first time.
LEMMA EndInOrder ==
    ASSUME TypeOK, Publication, NEW x \in TxId, NEW b \in BOOLEAN, state[x] \in Terminal,
           log' = Published(x, b), state' = state, ~ToldAs(x, b)
    PROVE  /\ \A t \in TxId : InOrder(t)'
           /\ \A t \in TxId : Told(t, {"PENDING"})' <=> Told(t, {"PENDING"})
           /\ \A t \in TxId, a \in BOOLEAN : ToldAs(t, a)' => ToldAs(t, a) \/ (t = x /\ a = b)
<1> DEFINE n == Len(log) + 1
<1>1. "PENDING" \notin Terminal /\ state[x] \notin {"PENDING"}
  BY DEF Terminal, Ambiguous, Answered
<1>2. /\ Len(log) \in Nat /\ log'[n].state = state[x] /\ log'[n].resolved = b
      /\ \A t \in TxId : At(t, {"PENDING"})' = At(t, {"PENDING"})
      /\ \A t \in TxId \ {x} : At(t, Terminal)' = At(t, Terminal)
      /\ At(x, Terminal)' = At(x, Terminal) \cup {n}
      /\ \A t \in TxId : \A i \in At(t, Terminal) : log'[i] = log[i]
      /\ \A t \in TxId : \A i \in At(t, {"PENDING"}) : i \in 1..Len(log)
  <2>1. /\ Len(log) \in Nat
        /\ \A t \in TxId : \A S : At(t, S)' = IF t = x /\ state[x] \in S THEN At(t, S) \cup {n} ELSE At(t, S)
        /\ \A t \in TxId : \A S : \A i \in At(t, S) : i \in 1..Len(log) /\ log'[i] = log[i]
        /\ log'[n] = [tx |-> x, state |-> state[x], resolved |-> b]
    BY PublishedFacts
  <2> QED
    BY <1>1, <2>1
<1>h. HIDE DEF n
<1>3. \A t \in TxId : \A i \in At(t, {"PENDING"}) : i < n
  BY <1>2 DEF n
<1>4. \A i \in At(x, Terminal) : log[i].resolved # b
  BY DEF ToldAs
<1>5. InOrder(x)'
  <2>1. \A i \in At(x, Terminal)' : log'[i].state = state[x]
    BY <1>2 DEF Publication, InOrder
  <2>2. \A i, j \in At(x, Terminal)' : log'[i].resolved = log'[j].resolved => i = j
    BY <1>2, <1>4 DEF Publication, InOrder
  <2>3. \A i \in At(x, {"PENDING"})', j \in At(x, Terminal)' : i < j
    BY <1>2, <1>3 DEF Publication, InOrder
  <2> QED
    BY <1>2, <2>1, <2>2, <2>3 DEF Publication, InOrder, Told
<1>6. ASSUME NEW t \in TxId, t # x PROVE InOrder(t)'
  BY <1>2, <1>6 DEF Publication, InOrder, Told
<1>7. \A t \in TxId, a \in BOOLEAN : ToldAs(t, a)' => ToldAs(t, a) \/ (t = x /\ a = b)
  BY <1>2 DEF ToldAs
<1> QED
  BY <1>2, <1>5, <1>6, <1>7 DEF Told

LEMMA ReportPublication ==
    ASSUME Ownership, Publication, NEW c \in Callers, ArmReport(c) PROVE Publication'
<1>x. PICK x \in TxId : x = callerTx[c]
  BY DEF ArmReport, Ownership, CallsOwn
<1>1. /\ pc[c] = "report" /\ log' = Published(x, FALSE) /\ pc' = [pc EXCEPT ![c] = "idle"]
      /\ callerTx' = [callerTx EXCEPT ![c] = None] /\ UNCHANGED <<state, poisoned, resolver>>
  BY <1>x DEF ArmReport, registry, txVars
<1>2. /\ state[x] \in Terminal /\ ~ToldAs(x, FALSE)
      /\ \A d \in Callers \ {c} : pc[d] # "idle" => callerTx[d] # x
  BY <1>x, <1>1 DEF Ownership, CallsOwn, Publication, ToTell
<1>3. /\ pc'[c] = "idle"
      /\ \A d \in Callers \ {c} : pc'[d] = pc[d] /\ callerTx'[d] = callerTx[d]
  BY <1>1 DEF Ownership, TypeOK
<1>4. /\ \A t \in TxId : InOrder(t)'
      /\ \A t \in TxId : Told(t, {"PENDING"})' <=> Told(t, {"PENDING"})
      /\ \A t \in TxId, a \in BOOLEAN : ToldAs(t, a)' => ToldAs(t, a) \/ (t = x /\ a = FALSE)
  BY <1>1, <1>2, EndInOrder DEF Ownership
<1>5. ASSUME NEW d \in Callers
      PROVE  (/\ pc[d] \in Holding \ {"await", "settle"} => ~Told(callerTx[d], {"PENDING"})
              /\ pc[d] \in {"await", "settle"} => Told(callerTx[d], {"PENDING"})
              /\ pc[d] = "report" => ~ToldAs(callerTx[d], FALSE))'
  <2>1. CASE pc'[d] = "idle"
    BY <2>1 DEF Holding
  <2>2. CASE pc'[d] # "idle"
    <3>1. d # c /\ pc[d] # "idle"
      BY <1>3, <2>2
    <3>2. PICK y \in TxId \ {x} : y = callerTx[d]
      BY <1>2, <3>1 DEF Ownership, CallsOwn
    <3>3. /\ pc'[d] = pc[d] /\ callerTx'[d] = y
          /\ pc[d] \in Holding \ {"await", "settle"} => ~Told(y, {"PENDING"})'
          /\ pc[d] \in {"await", "settle"} => Told(y, {"PENDING"})'
          /\ pc[d] = "report" => ~ToldAs(y, FALSE)'
      BY <1>3, <1>4, <3>1, <3>2 DEF Publication, ToTell
    <3> QED
      BY <3>3 DEF Told, ToldAs, At
  <2> QED
    BY <2>1, <2>2
<1>6. ASSUME NEW k \in Keys, poisoned'[k] # None PROVE ~ToldAs(poisoned[k], TRUE)'
  <2>1. PICK y \in TxId : y = poisoned[k]
    BY <1>1, <1>6 DEF Ownership, TypeOK
  <2>2. ~ToldAs(y, TRUE)'
    BY <1>1, <1>4, <1>6, <2>1 DEF Publication, ToTell
  <2> QED
    BY <1>1, <2>1, <2>2 DEF ToldAs, At
<1>7. ASSUME NEW o \in Operators, resolver'[o] # None PROVE ~ToldAs(resolver[o], TRUE)'
  <2>1. PICK y \in TxId : y = resolver[o]
    BY <1>1, <1>7 DEF Ownership, TypeOK
  <2>2. ~ToldAs(y, TRUE)'
    BY <1>1, <1>4, <1>7, <2>1 DEF Publication, ToTell
  <2> QED
    BY <1>1, <2>1, <2>2 DEF ToldAs, At
<1>8. ToTell'
  BY <1>1, <1>5, <1>6, <1>7 DEF Publication, ToTell
<1> QED
  BY <1>4, <1>8 DEF Publication

LEMMA ResolvedPublication ==
    ASSUME Ownership, Publication, NEW o \in Operators, ResolvePublish(o) PROVE Publication'
<1>x. PICK x \in TxId : x = resolver[o]
  BY DEF ResolvePublish, Ownership, TypeOK
<1>1. /\ log' = Published(x, TRUE) /\ resolver' = [resolver EXCEPT ![o] = None]
      /\ UNCHANGED <<state, poisoned, pc, callerTx>>
  BY <1>x DEF ResolvePublish, registry, txVars, callVars
<1>2. /\ state[x] \in Terminal /\ ~ToldAs(x, TRUE) /\ \A k \in Keys : poisoned[k] # x
      /\ \A p \in Operators : p # o => resolver[p] # x
  BY <1>x DEF ResolvePublish, Ownership, Numbered, Terminal, Publication, ToTell
<1>3. resolver'[o] = None /\ \A p \in Operators \ {o} : resolver'[p] = resolver[p]
  BY <1>1 DEF Ownership, TypeOK
<1>4. /\ \A t \in TxId : InOrder(t)'
      /\ \A t \in TxId : Told(t, {"PENDING"})' <=> Told(t, {"PENDING"})
      /\ \A t \in TxId, a \in BOOLEAN : ToldAs(t, a)' => ToldAs(t, a) \/ (t = x /\ a = TRUE)
  BY <1>1, <1>2, EndInOrder DEF Ownership
<1>5. ASSUME NEW d \in Callers
      PROVE  (/\ pc[d] \in Holding \ {"await", "settle"} => ~Told(callerTx[d], {"PENDING"})
              /\ pc[d] \in {"await", "settle"} => Told(callerTx[d], {"PENDING"})
              /\ pc[d] = "report" => ~ToldAs(callerTx[d], FALSE))'
  <2>1. CASE pc[d] = "idle"
    BY <1>1, <2>1 DEF Holding
  <2>2. CASE pc[d] # "idle"
    <3>1. PICK y \in TxId : y = callerTx[d]
      BY <2>2 DEF Ownership, CallsOwn
    <3>2. /\ pc'[d] = pc[d] /\ callerTx'[d] = y
          /\ pc[d] \in Holding \ {"await", "settle"} => ~Told(y, {"PENDING"})'
          /\ pc[d] \in {"await", "settle"} => Told(y, {"PENDING"})'
          /\ pc[d] = "report" => ~ToldAs(y, FALSE)'
      BY <1>1, <1>4, <3>1 DEF Publication, ToTell
    <3> QED
      BY <3>2 DEF Told, ToldAs, At
  <2> QED
    BY <2>1, <2>2
<1>6. ASSUME NEW k \in Keys, poisoned'[k] # None PROVE ~ToldAs(poisoned[k], TRUE)'
  <2>1. PICK y \in TxId : y = poisoned[k] /\ y # x
    BY <1>1, <1>2, <1>6 DEF Ownership, TypeOK
  <2>2. ~ToldAs(y, TRUE)'
    BY <1>1, <1>4, <1>6, <2>1 DEF Publication, ToTell
  <2> QED
    BY <1>1, <2>1, <2>2 DEF ToldAs, At
<1>7. ASSUME NEW p \in Operators, resolver'[p] # None
      PROVE  /\ ~ToldAs(resolver[p], TRUE)' /\ \A k \in Keys : poisoned'[k] # resolver'[p]
             /\ \A q \in Operators : q # p => resolver'[q] # resolver'[p]
  <2>0. p # o
    BY <1>3, <1>7
  <2>1. PICK y \in TxId : y = resolver[p] /\ y # x /\ y = resolver'[p]
    BY <1>2, <1>3, <1>7, <2>0 DEF Ownership, TypeOK
  <2>2. ~ToldAs(y, TRUE)'
    BY <1>3, <1>4, <1>7, <2>0, <2>1 DEF Publication, ToTell
  <2>3. ~ToldAs(resolver[p], TRUE)'
    BY <2>1, <2>2 DEF ToldAs, At
  <2>4. /\ \A k \in Keys : poisoned[k] # resolver[p]
        /\ \A q \in Operators : q # p => resolver[q] # resolver[p]
    BY <1>3, <1>7, <2>0 DEF Publication, ToTell
  <2> QED
    BY <1>1, <1>3, <1>7, <2>1, <2>3, <2>4
<1>8. ToTell'
  BY <1>1, <1>5, <1>6, <1>7 DEF ToTell
<1> QED
  BY <1>4, <1>8 DEF Publication

\* Every step keeps the publications in order.
LEMMA NextPublication == Ownership /\ Publication /\ [Next]_vars => Publication'
<1> SUFFICES ASSUME Ownership, Publication, [Next]_vars PROVE Publication'
  OBVIOUS
<1> USE DEF registry, txVars, callVars
<1>t. pc \in [Callers -> PCs] /\ callerTx \in [Callers -> TxId \cup {None}]
  BY DEF Ownership, TypeOK
<1>0. CASE UNCHANGED <<log, state, poisoned, resolver, pc, callerTx>>
  BY <1>0, IdlePublication
<1>1. ASSUME NEW c \in Callers, NEW k \in Keys, Arm(c, k) PROVE Publication'
  BY <1>0, <1>1, IssuePublication DEF Arm, ArmRefused, vars
<1>2. ASSUME NEW c \in Callers, ArmStep(c) PROVE Publication'
  <2>1. CASE ArmUnroutable(c)
    <3>1. pc[c] \in Holding /\ "UNSENT" \notin Terminal
      BY <2>1 DEF ArmUnroutable, Holding, Terminal, Ambiguous, Answered
    <3>2. \A d \in Callers \ {c} : callerTx'[d] = callerTx[d]
      BY <1>t, <2>1 DEF ArmUnroutable
    <3> QED
      BY <2>1, <3>1, <3>2, SettlePublication DEF ArmUnroutable
  <2>2. CASE ArmWriteFailed(c)
    <3>1. pc[c] \in Holding /\ "SEND_FAILED" \in Terminal /\ "SEND_FAILED" # "UNSENT"
      BY <2>2 DEF ArmWriteFailed, Holding, Terminal, Ambiguous
    <3>2. \A k \in Keys : poisoned'[k] \in {poisoned[k], callerTx[c]}
      BY <2>2 DEF ArmWriteFailed, Ownership, TypeOK
    <3> QED
      BY <2>2, <3>1, <3>2, SettlePublication DEF ArmWriteFailed
  <2>3. CASE ArmSettle(c)
    <3>1. pc[c] \in Holding /\ pc[c] = "settle" /\ verdict[c] \in Terminal /\ verdict[c] # "UNSENT"
      BY <2>3 DEF ArmSettle, Holding, Ownership, CallsOwn, TypeOK, Terminal, Ambiguous, Answered
    <3>2. \A k \in Keys : poisoned'[k] \in {poisoned[k], callerTx[c]}
      BY <2>3 DEF ArmSettle, Ownership, TypeOK
    <3> QED
      BY <2>3, <3>1, <3>2, SettlePublication DEF ArmSettle
  <2>4. ASSUME NEW outcome \in {"sent", "error", "unknownLink"}, ArmWrite(c, outcome) PROVE Publication'
    <3>1. /\ pc[c] = "write" /\ pc' = [pc EXCEPT ![c] = AfterWrite(outcome)]
          /\ AfterWrite(outcome) \in Holding \ {"await", "settle"} /\ "write" \in Holding \ {"await", "settle"}
      BY <2>4 DEF ArmWrite, AfterWrite, Holding
    <3>2. \A d \in Callers : pc'[d] = pc[d] \/ {pc[d], pc'[d]} \subseteq Holding \ {"await", "settle"}
      BY <1>t, <3>1
    <3> QED
      BY <2>4, <3>2, IdlePublication DEF ArmWrite
  <2>5. CASE ArmSelectAck(c) \/ \E why \in GiveUp : ArmSelectGiveUp(c, why)
    <3>1. \A d \in Callers : pc'[d] = pc[d] \/ {pc[d], pc'[d]} \subseteq {"await", "settle"}
      BY <1>t, <2>5 DEF ArmSelectAck, ArmSelectGiveUp
    <3> QED
      BY <2>5, <3>1, IdlePublication DEF ArmSelectAck, ArmSelectGiveUp
  <2> QED
    BY <1>2, <2>1, <2>2, <2>3, <2>4, <2>5, AnnouncePublication, ReportPublication DEF ArmStep
<1>3. ASSUME NEW o \in Operators, NEW k \in Keys, Resolve(o, k) PROVE Publication'
  BY <1>0, <1>3, ResolvePublication DEF Resolve, ResolveRefused, vars
<1>4. CASE \/ UNCHANGED vars \/ \E k \in Keys : QuarantineRemaining(k)
           \/ \E a \in air \cup Overheard, result \in Results : AckLookup(a, result)
           \/ AckSend \/ (\E a \in air : AckLost(a)) \/ Tick
  BY <1>0, <1>4 DEF vars, QuarantineRemaining, AckLookup, AckSend, AckLost, Tick
<1>5. CASE Restart
  BY <1>5 DEF Restart, Publication, InOrder, ToTell, Told, ToldAs, At, Holding, Terminal, Ambiguous, Answered, None
<1> QED
  BY <1>1, <1>2, <1>3, <1>4, <1>5, ResolvedPublication DEF Next

-----------------------------------------------------------------------------
LEMMA AnswersInvariant == Spec => [](Ownership /\ Ambiguity /\ Past /\ Answers)
<1>1. Ownership /\ Ambiguity /\ Past /\ Answers /\ [Next]_vars
        => (Ownership /\ Ambiguity /\ Past /\ Answers)'
  BY NextOwnership, NextAmbiguity, NextPast, NextAnswers
<1> QED
  BY InitOwnership, InitAmbiguity, InitPast, InitAnswers, <1>1, PTL DEF Spec

\* A command is settled as ACCEPTED or REJECTED by the vehicle's answer to that very
\* command, although Registry.Publish matches a COMMAND_ACK by vehicle alone: for any
\* number of callers, operators and vehicles, and any quarantine longer than an answer
\* can take, on a link that does not repeat answers and before the first restart.
THEOREM AnswerIsOwn == Spec => []OwnAnswer
<1>1. Answers => OwnAnswer
  BY DEF Answers, Trusted, AfterAnswer, OwnAnswer
<1> QED
  BY <1>1, AnswersInvariant, PTL

LEMMA PublicationInvariant == Spec => [](Ownership /\ Publication)
<1>1. Ownership /\ Publication /\ [Next]_vars => (Ownership /\ Publication)'
  BY NextOwnership, NextPublication
<1> QED
  BY InitOwnership, InitPublication, <1>1, PTL DEF Spec

\* ADR 0004: the snapshots of a command reach the Publisher as PENDING first and once,
\* then its end once and its attestation once, all with the same state, for any
\* number of calls publishing at the same time outside the registry's lock.
THEOREM PublishedInOrder == Spec => []PendingBeforeTerminal
<1>1. ASSUME Publication PROVE PendingBeforeTerminal
  <2> SUFFICES ASSUME NEW t \in TxId
               PROVE  /\ \A i \in At(t, {"PENDING"}), j \in At(t, {"PENDING"}) : i = j
                      /\ \A i \in At(t, {"PENDING"}), j \in At(t, Terminal) : i < j
                      /\ At(t, Terminal) # {} /\ state[t] # "SEND_FAILED" => At(t, {"PENDING"}) # {}
                      /\ \A i, j \in At(t, Terminal) : log[i].resolved = log[j].resolved => i = j
                      /\ \A i, j \in At(t, Terminal) : log[i].state = log[j].state
    BY DEF PendingBeforeTerminal
  <2>1. InOrder(t)
    BY <1>1 DEF Publication
  <2>2. \A i \in At(t, Terminal) : log[i].state = state[t] /\ state[t] \in Terminal
    BY <2>1 DEF InOrder, At
  <2> QED
    BY <2>1, <2>2 DEF InOrder, Told
<1> QED
  BY <1>1, PublicationInvariant, PTL

=============================================================================
