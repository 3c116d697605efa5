------------------------ MODULE DesignSessionProofs -------------------------
(***************************************************************************)
(* Proofs about DesignSession for every scenario: any designs, commands    *)
(* and sweeps, and any bounds.                                             *)
(***************************************************************************)
EXTENDS DesignSession, SequenceTheorems, FiniteSetTheorems, WellFoundedInduction, TLAPS

\* Requests are numbered as they are issued, and no number is used twice.
Numbering ==
    /\ next \in Nat
    /\ \A a \in answers : a.seq \in 1 .. next
    /\ \A a, b \in answers : a.seq = b.seq => a = b

\* The request that is waited for was made of the design on the bench.
Waiting ==
    /\ current # NoRequest => answer("evaluation", current, Design, None) \in answers
    /\ currentSweep # NoRequest =>
         \E s \in scenario.sweeps : answer("sweep", currentSweep, Design, s) \in answers

SessionInv == Numbering /\ Waiting

LEMMA InitSession == Init => SessionInv
  BY DEF Init, SessionInv, Numbering, Waiting

\* An edit, an undo, a redo and a load wait for nothing any more.
LEMMA EditsInvalidate ==
    ASSUME SessionInv, invalidateRequest
    PROVE  SessionInv'
  BY DEF SessionInv, Numbering, Waiting, invalidateRequest

\* A number that has not been issued is on no answer.
LEMMA FreshNumber ==
    ASSUME Numbering, NEW n, n \in Nat, n > next
    PROVE  \A a \in answers : a.seq # n
  BY DEF Numbering

LEMMA AnswerFields ==
    ASSUME NEW kind, NEW seq, NEW d, NEW s
    PROVE  LET a == answer(kind, seq, d, s)
           IN  /\ a.kind = kind /\ a.seq = seq /\ a.snapshot = Snapshot(d)
               /\ a.design = d /\ a.at = edits /\ a.settings = s
  BY DEF answer

\* An evaluation is the answer that is waited for, of the design as it is.
LEMMA EvaluateSession ==
    ASSUME SessionInv, Evaluate
    PROVE  SessionInv'
<1> DEFINE a == answer("evaluation", next + 1, Design, None)
<1>1. /\ next \in Nat /\ next' = next + 1 /\ current' = next + 1 /\ answers' = answers \cup {a}
      /\ UNCHANGED <<scenario, history, cursor, currentSweep, edits>>
  BY DEF SessionInv, Numbering, Evaluate
<1>2. a.seq = next + 1 /\ \A b \in answers : b.seq # a.seq
  BY <1>1, FreshNumber, AnswerFields DEF SessionInv
<1>3. Numbering'
  BY <1>1, <1>2 DEF SessionInv, Numbering
<1>4. answer("evaluation", current, Design, None)' = a
  BY <1>1 DEF Design, answer
<1>5. \A s : answer("sweep", currentSweep, Design, s)' = answer("sweep", currentSweep, Design, s)
  BY <1>1 DEF Design, answer
<1> QED
  BY <1>1, <1>3, <1>4, <1>5 DEF SessionInv, Waiting

\* The two answers of a preview are waited for by nobody.
LEMMA PreviewSession ==
    ASSUME SessionInv, NEW c, Preview(c)
    PROVE  SessionInv'
<1>1. PICK d : /\ next \in Nat /\ next' = next + 2
               /\ answers' = answers \cup {answer("evaluation", next + 1, Design, None),
                                           answer("evaluation", next + 2, d, None)}
               /\ UNCHANGED <<scenario, history, cursor, current, currentSweep, edits>>
  BY DEF SessionInv, Numbering, Preview
<1> DEFINE a == answer("evaluation", next + 1, Design, None)
           b == answer("evaluation", next + 2, d, None)
<1>2. /\ a.seq = next + 1 /\ \A x \in answers : x.seq # a.seq
      /\ b.seq = next + 2 /\ \A x \in answers : x.seq # b.seq
  BY <1>1, FreshNumber, AnswerFields DEF SessionInv
<1> HIDE DEF a, b
<1>3. answers' = answers \cup {a, b}
  BY <1>1 DEF a, b
<1>4. Numbering'
  BY <1>1, <1>2, <1>3 DEF SessionInv, Numbering
<1>5. /\ answer("evaluation", current, Design, None)' = answer("evaluation", current, Design, None)
      /\ \A s : answer("sweep", currentSweep, Design, s)' = answer("sweep", currentSweep, Design, s)
  BY <1>1 DEF Design, answer
<1> QED
  BY <1>1, <1>3, <1>4, <1>5 DEF SessionInv, Waiting

\* A sweep is the answer that is waited for, of the design as it is.
LEMMA SweepSession ==
    ASSUME SessionInv, NEW s \in scenario.sweeps, Sweep(s)
    PROVE  SessionInv'
<1> DEFINE a == answer("sweep", next + 1, Design, s)
<1>1. /\ next \in Nat /\ next' = next + 1 /\ currentSweep' = next + 1 /\ answers' = answers \cup {a}
      /\ UNCHANGED <<scenario, history, cursor, current, edits>>
  BY DEF SessionInv, Numbering, Sweep
<1>2. a.seq = next + 1 /\ \A b \in answers : b.seq # a.seq
  BY <1>1, FreshNumber, AnswerFields DEF SessionInv
<1>3. Numbering'
  BY <1>1, <1>2 DEF SessionInv, Numbering
<1>4. \A z : answer("sweep", currentSweep, Design, z)' = answer("sweep", next + 1, Design, z)
  BY <1>1 DEF Design, answer
<1>5. answer("evaluation", current, Design, None)' = answer("evaluation", current, Design, None)
  BY <1>1 DEF Design, answer
<1> QED
  BY <1>1, <1>3, <1>4, <1>5 DEF SessionInv, Waiting

LEMMA NextSession == SessionInv /\ [Next]_vars => SessionInv'
<1> SUFFICES ASSUME SessionInv, [Next]_vars
             PROVE  SessionInv'
  OBVIOUS
<1>1. ASSUME NEW c, Do(c)
      PROVE  SessionInv'
  BY <1>1, EditsInvalidate DEF Do, revise
<1>2. CASE Undo \/ Redo \/ Load
  BY <1>2, EditsInvalidate DEF Undo, Redo, Load, revise
<1>3. CASE UNCHANGED vars
  <2>1. /\ answer("evaluation", current, Design, None)' = answer("evaluation", current, Design, None)
        /\ \A s : answer("sweep", currentSweep, Design, s)' = answer("sweep", currentSweep, Design, s)
    BY <1>3 DEF vars, Design, answer
  <2> QED
    BY <1>3, <2>1 DEF vars, SessionInv, Numbering, Waiting
<1> QED
  BY <1>1, <1>2, <1>3, PreviewSession, EvaluateSession, SweepSession DEF Next

\* What is accepted is the answer that is waited for, since no other has its number.
LEMMA WaitingIsAccepted == SessionInv => AcceptedIsCurrent
<1> SUFFICES ASSUME SessionInv
             PROVE  AcceptedIsCurrent
  OBVIOUS
<1> DEFINE e    == answer("evaluation", current, Design, None)
           w(s) == answer("sweep", currentSweep, Design, s)
<1>1. /\ e.kind = "evaluation" /\ e.seq = current /\ e.snapshot = Snapshot(Design)
      /\ e.design = Design /\ e.at = edits
  BY DEF answer
<1>2. \A s : /\ w(s).kind = "sweep" /\ w(s).seq = currentSweep /\ w(s).snapshot = Snapshot(Design)
             /\ w(s).design = Design /\ w(s).at = edits /\ w(s).settings = s
  BY DEF answer
<1> HIDE DEF e, w
<1>3. /\ current # NoRequest => e \in answers
      /\ currentSweep # NoRequest => \E s \in scenario.sweeps : w(s) \in answers
  BY DEF SessionInv, Waiting, e, w
<1>4. ASSUME NEW a \in answers, Accept(a)
      PROVE  a = e
  BY <1>1, <1>3, <1>4 DEF Accept, SessionInv, Numbering
<1>5. ASSUME NEW a \in answers, NEW s, AcceptSweep(a, s)
      PROVE  \E z : a = w(z)
  BY <1>2, <1>3, <1>5 DEF AcceptSweep, SessionInv, Numbering
<1>6. \A a \in answers :
        /\ Accept(a) => a.at = edits /\ a.design = Design /\ a.kind = "evaluation"
        /\ \A s \in scenario.sweeps : AcceptSweep(a, s) => a.at = edits /\ a.design = Design /\ a.kind = "sweep"
  BY <1>1, <1>2, <1>4, <1>5
<1>7. current # NoRequest => \E a \in answers : Accept(a)
  BY <1>1, <1>3 DEF Accept
<1>8. currentSweep # NoRequest => \E a \in answers, s \in scenario.sweeps : AcceptSweep(a, s)
  BY <1>2, <1>3 DEF AcceptSweep
<1> QED
  BY <1>6, <1>7, <1>8 DEF AcceptedIsCurrent

\* An answer the session accepts was asked for since the last edit, of the
\* design on the bench, and the answer to the last question is not lost.
THEOREM AcceptedIsCurrentAlways == Spec => []AcceptedIsCurrent
<1>1. Spec => []SessionInv
  BY InitSession, NextSession, PTL DEF Spec
<1> QED
  BY <1>1, WaitingIsAccepted, PTL
-----------------------------------------------------------------------------
(***************************************************************************)
(* Lists of named items, as the edits leave them.                          *)
(***************************************************************************)
LEMMA NamedListFacts ==
    ASSUME NEW l, NamedList(l)
    PROVE  /\ Len(l) \in Nat /\ DOMAIN l = 1 .. Len(l) /\ l \in Seq(ToSet(l))
           /\ \A i \in 1 .. Len(l) : l[i] \in ToSet(l) /\ "name" \in DOMAIN l[i]
           /\ l = [i \in 1 .. Len(l) |-> l[i]]
<1>1. /\ Len(l) \in Nat /\ l \in [1 .. Len(l) -> ToSet(l)]
  BY LenProperties DEF NamedList
<1> QED
  BY <1>1 DEF NamedList

\* A function on 1 .. n is a list.
LEMMA MadeList ==
    ASSUME NEW l, NEW n \in Nat, l = [i \in 1 .. n |-> l[i]],
           \A i \in 1 .. n : "name" \in DOMAIN l[i],
           \A i, j \in 1 .. n : l[i].name = l[j].name => i = j
    PROVE  NamedList(l) /\ Len(l) = n
<1>1. DOMAIN l = 1 .. n
  OBVIOUS
<1>2. l \in [1 .. n -> ToSet(l)]
  BY <1>1 DEF ToSet
<1>3. l \in Seq(ToSet(l))
  BY <1>2, SeqDef
<1>4. Len(l) = n
  BY <1>1, <1>3, LenProperties
<1> QED
  BY <1>1, <1>3, <1>4 DEF NamedList, UniqueNames, ToSet

LEMMA PlaceIsThere ==
    ASSUME NEW l, NamedList(l), NEW n, Named(l, n)
    PROVE  Place(l, n) \in 1 .. Len(l) /\ l[Place(l, n)].name = n
<1>1. PICK i \in 1 .. Len(l) : l[i].name = n
  BY DEF Named
<1>2. \A j \in 1 .. i - 1 : l[j].name # n
  BY <1>1, NamedListFacts DEF NamedList, UniqueNames
<1> QED
  BY <1>1, <1>2 DEF Place

\* Setting an item by its name, or a field of it, leaves the names as they were.
LEMMA ReplaceList ==
    ASSUME NEW l, NamedList(l), NEW p \in 1 .. Len(l), NEW it, "name" \in DOMAIN it, it.name = l[p].name
    PROVE  NamedList([l EXCEPT ![p] = it]) /\ \A m : Named([l EXCEPT ![p] = it], m) <=> Named(l, m)
<1> DEFINE x == [l EXCEPT ![p] = it]
<1>1. /\ Len(l) \in Nat /\ DOMAIN l = 1 .. Len(l) /\ \A i \in 1 .. Len(l) : "name" \in DOMAIN l[i]
      /\ \A i, j \in 1 .. Len(l) : l[i].name = l[j].name => i = j
  BY NamedListFacts DEF NamedList, UniqueNames
<1>2. /\ x = [i \in 1 .. Len(l) |-> x[i]]
      /\ \A i \in 1 .. Len(l) : x[i] = IF i = p THEN it ELSE l[i]
  BY <1>1
<1> HIDE DEF x
<1>3. \A i \in 1 .. Len(l) : "name" \in DOMAIN x[i] /\ x[i].name = l[i].name
  BY <1>1, <1>2
<1>4. \A i, j \in 1 .. Len(l) : x[i].name = x[j].name => i = j
  BY <1>1, <1>3
<1>5. NamedList(x) /\ Len(x) = Len(l)
  BY <1>1, <1>2, <1>3, <1>4, MadeList
<1> QED
  BY <1>3, <1>5 DEF Named, x

LEMMA PutList ==
    ASSUME NEW l, NamedList(l), NEW it, "name" \in DOMAIN it
    PROVE  NamedList(Put(l, it))
<1>1. CASE Named(l, it.name)
  BY <1>1, PlaceIsThere, ReplaceList DEF Put
<1>2. CASE ~Named(l, it.name)
  <2> DEFINE x == Append(l, it)
             T == ToSet(l) \cup {it}
  <2>1. /\ Len(l) \in Nat /\ \A i \in 1 .. Len(l) : "name" \in DOMAIN l[i]
        /\ \A i, j \in 1 .. Len(l) : l[i].name = l[j].name => i = j
        /\ l \in Seq(ToSet(l))
    BY NamedListFacts DEF NamedList, UniqueNames
  <2>2. l \in Seq(T) /\ it \in T
    BY <2>1, SeqMonotonic
  <2>3. /\ x \in Seq(T) /\ Len(x) = Len(l) + 1 /\ \A i \in 1 .. Len(l) : x[i] = l[i]
        /\ x[Len(l) + 1] = it
    BY <2>2, AppendProperties
  <2>4. x \in [1 .. Len(l) + 1 -> T]
    BY <2>3, LenProperties
  <2> HIDE DEF x, T
  <2>5. x = [i \in 1 .. Len(l) + 1 |-> x[i]]
    BY <2>4
  <2>6. \A i \in 1 .. Len(l) + 1 : \/ i \in 1 .. Len(l) /\ x[i] = l[i]
                                   \/ i = Len(l) + 1 /\ x[i] = it
    BY <2>1, <2>3
  <2>7. \A i \in 1 .. Len(l) : l[i].name # it.name
    BY <1>2 DEF Named
  <2>8. /\ \A i \in 1 .. Len(l) + 1 : "name" \in DOMAIN x[i]
        /\ \A i, j \in 1 .. Len(l) + 1 : x[i].name = x[j].name => i = j
    BY <2>1, <2>6, <2>7
  <2>9. Len(l) + 1 \in Nat
    BY <2>1
  <2>10. NamedList(x)
    BY <2>5, <2>8, <2>9, MadeList
  <2> QED
    BY <1>2, <2>10 DEF Put, x
<1> QED
  BY <1>1, <1>2

LEMMA UpdateList ==
    ASSUME NEW l, NamedList(l), NEW n, Named(l, n), NEW k, k # "name", NEW v
    PROVE  NamedList(Update(l, n, k, v)) /\ \A m : Named(Update(l, n, k, v), m) <=> Named(l, m)
<1> DEFINE p  == Place(l, n)
           it == [l[p] EXCEPT ![k] = v]
<1>1. p \in 1 .. Len(l) /\ "name" \in DOMAIN l[p]
  BY PlaceIsThere, NamedListFacts
<1>2. "name" \in DOMAIN it /\ it.name = l[p].name
  BY <1>1
<1>3. Update(l, n, k, v) = [l EXCEPT ![p] = it]
  BY DEF Update
<1> HIDE DEF p, it
<1>4. /\ NamedList([l EXCEPT ![p] = it])
      /\ \A m : Named([l EXCEPT ![p] = it], m) <=> Named(l, m)
  BY <1>1, <1>2, ReplaceList
<1> QED
  BY <1>3, <1>4

\* What is left when the item at p is taken out.
LEMMA RemoveList ==
    ASSUME NEW l, NamedList(l), NEW p \in 1 .. Len(l)
    PROVE  /\ NamedList(RemoveAt(l, p)) /\ Len(RemoveAt(l, p)) = Len(l) - 1
           /\ \A m : Named(RemoveAt(l, p), m) => Named(l, m) /\ m # l[p].name
<1> DEFINE x == RemoveAt(l, p)
           a == SubSeq(l, 1, p - 1)
           b == SubSeq(l, p + 1, Len(l))
           T == ToSet(l)
<1>1. /\ Len(l) \in Nat /\ \A i \in 1 .. Len(l) : "name" \in DOMAIN l[i]
      /\ \A i, j \in 1 .. Len(l) : l[i].name = l[j].name => i = j
      /\ l \in Seq(T)
  BY NamedListFacts DEF NamedList, UniqueNames
<1>2. /\ a \in Seq(T) /\ Len(a) = p - 1 /\ \A i \in 1 .. p - 1 : a[i] = l[i]
  BY <1>1, SubSeqProperties
<1>3. /\ b \in Seq(T) /\ Len(b) = Len(l) - p /\ \A i \in 1 .. Len(l) - p : b[i] = l[p + i]
  BY <1>1, SubSeqProperties
<1>4. /\ x \in Seq(T) /\ Len(x) = Len(l) - 1
      /\ \A i \in 1 .. Len(l) - 1 : x[i] = IF i < p THEN l[i] ELSE l[i + 1]
  <2>1. /\ a \o b \in Seq(T) /\ Len(a \o b) = Len(a) + Len(b)
        /\ \A i \in 1 .. Len(a) + Len(b) : (a \o b)[i] = IF i <= Len(a) THEN a[i] ELSE b[i - Len(a)]
    BY <1>2, <1>3, ConcatProperties
  <2>2. x = a \o b
    BY DEF RemoveAt
  <2> HIDE DEF a, b, x
  <2>3. Len(a) + Len(b) = Len(l) - 1
    BY <1>1, <1>2, <1>3
  <2>4. ASSUME NEW i \in 1 .. Len(l) - 1
        PROVE  x[i] = IF i < p THEN l[i] ELSE l[i + 1]
    BY <1>1, <1>2, <1>3, <2>1, <2>2, <2>3
  <2> QED
    BY <2>1, <2>2, <2>3, <2>4
<1>5. x = [i \in 1 .. Len(l) - 1 |-> x[i]]
  BY <1>4, LenProperties
<1> DEFINE was(i) == IF i < p THEN i ELSE i + 1
<1> HIDE DEF x, a, b, T
<1>6. ASSUME NEW i \in 1 .. Len(l) - 1
      PROVE  was(i) \in 1 .. Len(l) /\ was(i) # p /\ x[i] = l[was(i)]
  BY <1>1, <1>4
<1>7. \A i, j \in 1 .. Len(l) - 1 : was(i) = was(j) => i = j
  BY <1>1
<1> HIDE DEF was
<1>8. /\ Len(l) - 1 \in Nat
      /\ \A i \in 1 .. Len(l) - 1 : "name" \in DOMAIN x[i]
      /\ \A i, j \in 1 .. Len(l) - 1 : x[i].name = x[j].name => i = j
  <2>1. Len(l) - 1 \in Nat
    BY <1>1
  <2>2. ASSUME NEW i \in 1 .. Len(l) - 1
        PROVE  "name" \in DOMAIN x[i]
    BY <1>1, <1>6
  <2>3. ASSUME NEW i \in 1 .. Len(l) - 1, NEW j \in 1 .. Len(l) - 1, x[i].name = x[j].name
        PROVE  i = j
    <3>1. was(i) = was(j)
      BY <1>1, <1>6, <2>3
    <3> QED
      BY <1>7, <3>1
  <2> QED
    BY <2>1, <2>2, <2>3
<1>9. NamedList(x) /\ Len(x) = Len(l) - 1
  BY <1>5, <1>8, MadeList
<1>10. \A m : Named(x, m) => Named(l, m) /\ m # l[p].name
  BY <1>1, <1>6, <1>9 DEF Named
<1> QED
  BY <1>9, <1>10 DEF x

LEMMA WithoutList ==
    ASSUME NEW l, NamedList(l), NEW n, Named(l, n)
    PROVE  /\ NamedList(Without(l, n)) /\ Len(Without(l, n)) = Len(l) - 1
           /\ ~Named(Without(l, n), n)
<1> DEFINE p == Place(l, n)
<1>1. p \in 1 .. Len(l) /\ l[p].name = n
  BY PlaceIsThere
<1> HIDE DEF p
<1>2. /\ NamedList(RemoveAt(l, p)) /\ Len(RemoveAt(l, p)) = Len(l) - 1
      /\ \A m : Named(RemoveAt(l, p), m) => m # l[p].name
  BY <1>1, RemoveList
<1>3. Without(l, n) = RemoveAt(l, p)
  BY DEF Without, p
<1> QED
  BY <1>1, <1>2, <1>3

\* An item whose name is not on the list is put in anywhere.
LEMMA InsertList ==
    ASSUME NEW l, NamedList(l), NEW p \in 1 .. Len(l) + 1, NEW it, "name" \in DOMAIN it, ~Named(l, it.name)
    PROVE  NamedList(InsertAt(l, p, it))
<1> DEFINE x == InsertAt(l, p, it)
           a == SubSeq(l, 1, p - 1)
           b == SubSeq(l, p, Len(l))
           T == ToSet(l) \cup {it}
<1>1. /\ Len(l) \in Nat /\ \A i \in 1 .. Len(l) : "name" \in DOMAIN l[i] /\ l[i].name # it.name
      /\ \A i, j \in 1 .. Len(l) : l[i].name = l[j].name => i = j
      /\ l \in Seq(ToSet(l))
  BY NamedListFacts DEF NamedList, UniqueNames, Named
<1>2. l \in Seq(T) /\ it \in T
  BY <1>1, SeqMonotonic
<1>3. /\ a \in Seq(T) /\ Len(a) = p - 1 /\ \A i \in 1 .. p - 1 : a[i] = l[i]
  BY <1>1, <1>2, SubSeqProperties
<1>4. /\ b \in Seq(T) /\ Len(b) = Len(l) - p + 1 /\ \A i \in 1 .. Len(l) - p + 1 : b[i] = l[p + i - 1]
  BY <1>1, <1>2, SubSeqProperties
<1>5. <<it>> \in Seq(T) /\ Len(<<it>>) = 1 /\ <<it>>[1] = it
  BY <1>2
<1> DEFINE y == a \o <<it>>
<1>6. /\ y \in Seq(T) /\ Len(y) = p
      /\ \A i \in 1 .. p : y[i] = IF i = p THEN it ELSE l[i]
  <2>1. /\ y \in Seq(T) /\ Len(y) = Len(a) + 1
        /\ \A i \in 1 .. Len(a) + 1 : y[i] = IF i <= Len(a) THEN a[i] ELSE <<it>>[i - Len(a)]
    BY <1>3, <1>5, ConcatProperties
  <2> HIDE DEF a, y
  <2>2. Len(a) + 1 = p
    BY <1>1, <1>3
  <2>3. ASSUME NEW i \in 1 .. p
        PROVE  y[i] = IF i = p THEN it ELSE l[i]
    BY <1>1, <1>3, <1>5, <2>1, <2>2
  <2> QED
    BY <2>1, <2>2, <2>3
<1>7. x = y \o b
  BY DEF InsertAt
<1> HIDE DEF y, b
<1>8. /\ x \in Seq(T) /\ Len(x) = Len(l) + 1
      /\ \A i \in 1 .. Len(l) + 1 : x[i] = IF i < p THEN l[i] ELSE IF i = p THEN it ELSE l[i - 1]
  <2>1. /\ y \o b \in Seq(T) /\ Len(y \o b) = Len(y) + Len(b)
        /\ \A i \in 1 .. Len(y) + Len(b) : (y \o b)[i] = IF i <= Len(y) THEN y[i] ELSE b[i - Len(y)]
    BY <1>4, <1>6, ConcatProperties
  <2> HIDE DEF x
  <2>2. Len(y) + Len(b) = Len(l) + 1
    BY <1>1, <1>4, <1>6
  <2>3. ASSUME NEW i \in 1 .. Len(l) + 1
        PROVE  x[i] = IF i < p THEN l[i] ELSE IF i = p THEN it ELSE l[i - 1]
    BY <1>1, <1>4, <1>6, <1>7, <2>1, <2>2
  <2> QED
    BY <1>7, <2>1, <2>2, <2>3
<1>9. x = [i \in 1 .. Len(l) + 1 |-> x[i]]
  BY <1>8, LenProperties
<1> DEFINE was(i) == IF i < p THEN i ELSE i - 1
<1> HIDE DEF x, T
<1>10. ASSUME NEW i \in 1 .. Len(l) + 1
       PROVE  \/ i = p /\ x[i] = it
              \/ i # p /\ was(i) \in 1 .. Len(l) /\ x[i] = l[was(i)]
  BY <1>1, <1>8
<1>11. \A i, j \in (1 .. Len(l) + 1) \ {p} : was(i) = was(j) => i = j
  BY <1>1
<1> HIDE DEF was
<1>12. /\ Len(l) + 1 \in Nat
       /\ \A i \in 1 .. Len(l) + 1 : "name" \in DOMAIN x[i]
       /\ \A i, j \in 1 .. Len(l) + 1 : x[i].name = x[j].name => i = j
  <2>1. Len(l) + 1 \in Nat
    BY <1>1
  <2>2. ASSUME NEW i \in 1 .. Len(l) + 1
        PROVE  "name" \in DOMAIN x[i]
    BY <1>1, <1>10
  <2>3. ASSUME NEW i \in 1 .. Len(l) + 1, NEW j \in 1 .. Len(l) + 1, x[i].name = x[j].name
        PROVE  i = j
    <3>1. i = p <=> j = p
      BY <1>1, <1>10, <2>3
    <3>2. i # p /\ j # p => was(i) = was(j)
      BY <1>1, <1>10, <2>3
    <3> QED
      BY <1>11, <3>1, <3>2
  <2> QED
    BY <2>1, <2>2, <2>3
<1>13. NamedList(x)
  BY <1>9, <1>12, MadeList
<1> QED
  BY <1>13 DEF x

-----------------------------------------------------------------------------
(***************************************************************************)
(* The driver set of the wing, as the edits leave it.                      *)
(***************************************************************************)
\* No more than two drivers, or no more than the saved design came with.
FewDrivers(w, start) ==
    \/ Cardinality(suppliedDrivers(w.drivers)) <= 2
    \/ suppliedDrivers(w.drivers) \subseteq suppliedDrivers(start.wing.drivers)

LEMMA DriverFacts ==
    ASSUME NEW w
    PROVE  /\ \A k : k \in suppliedDrivers(w) <=> k \in {"span", "area", "aspect", "root"} /\ holdsDriver(w, k)
           /\ suppliedDrivers(w) \subseteq {"span", "area", "aspect", "root"}
           /\ IsFiniteSet(suppliedDrivers(w)) /\ Cardinality(suppliedDrivers(w)) \in Nat
<1>1. ToSet(SizeKeys) = {"span", "area", "aspect", "root"}
  BY DEF ToSet, SizeKeys
<1>2. suppliedDrivers(w) \subseteq {"span", "area", "aspect", "root"}
  BY <1>1 DEF suppliedDrivers
<1>3. IsFiniteSet({"span", "area", "aspect", "root"})
  <2>1. IsFiniteSet({"span"}) /\ IsFiniteSet({"area"}) /\ IsFiniteSet({"aspect"}) /\ IsFiniteSet({"root"})
    BY FS_Singleton
  <2>2. IsFiniteSet({"span"} \cup {"area"}) /\ IsFiniteSet({"aspect"} \cup {"root"})
    BY <2>1, FS_Union
  <2>3. IsFiniteSet(({"span"} \cup {"area"}) \cup ({"aspect"} \cup {"root"}))
    BY <2>2, FS_Union
  <2>4. {"span", "area", "aspect", "root"} = ({"span"} \cup {"area"}) \cup ({"aspect"} \cup {"root"})
    OBVIOUS
  <2> QED
    BY <2>3, <2>4
<1>4. IsFiniteSet(suppliedDrivers(w)) /\ Cardinality(suppliedDrivers(w)) \in Nat
  BY <1>2, <1>3, FS_Subset, FS_CardinalityType
<1> QED
  BY <1>1, <1>2, <1>4 DEF suppliedDrivers

\* Fewer drivers are still few.
LEMMA FewerDrivers ==
    ASSUME NEW w, NEW x, NEW start, FewDrivers(w, start),
           suppliedDrivers(x.drivers) \subseteq suppliedDrivers(w.drivers)
    PROVE  FewDrivers(x, start)
<1>1. /\ IsFiniteSet(suppliedDrivers(w.drivers)) /\ Cardinality(suppliedDrivers(w.drivers)) \in Nat
      /\ Cardinality(suppliedDrivers(x.drivers)) \in Nat
  BY DriverFacts
<1>2. Cardinality(suppliedDrivers(x.drivers)) <= Cardinality(suppliedDrivers(w.drivers))
  BY <1>1, FS_Subset
<1> QED
  BY <1>1, <1>2 DEF FewDrivers

LEMMA TwoDrivers ==
    ASSUME NEW w, NEW start, NEW a, NEW b, suppliedDrivers(w.drivers) \subseteq {a, b}
    PROVE  FewDrivers(w, start)
<1>1. IsFiniteSet({a, b}) /\ Cardinality({a, b}) <= 2 /\ Cardinality({a, b}) \in Nat
  <2>1. IsFiniteSet({}) /\ Cardinality({}) = 0
    BY FS_EmptySet
  <2>2. /\ IsFiniteSet({} \cup {a}) /\ Cardinality({} \cup {a}) = IF a \in {} THEN 0 ELSE 0 + 1
    BY <2>1, FS_AddElement
  <2>3. IsFiniteSet({a}) /\ Cardinality({a}) = 1
    BY <2>2
  <2>4. IsFiniteSet({a} \cup {b}) /\ Cardinality({a} \cup {b}) = IF b \in {a} THEN 1 ELSE 1 + 1
    BY <2>3, FS_AddElement
  <2>5. {a} \cup {b} = {a, b}
    OBVIOUS
  <2> QED
    BY <2>4, <2>5
<1>2. /\ Cardinality(suppliedDrivers(w.drivers)) <= Cardinality({a, b})
      /\ Cardinality(suppliedDrivers(w.drivers)) \in Nat
  BY <1>1, FS_Subset, DriverFacts
<1> QED
  BY <1>1, <1>2 DEF FewDrivers

-----------------------------------------------------------------------------
(***************************************************************************)
(* Every command that is not refused leaves a formed design with few       *)
(* drivers, one group of commands after the other.                         *)
(***************************************************************************)
Sound(d, start) == Formed(d) /\ FewDrivers(d.wing, start)

\* An edit that is not refused is the edit.
LEMMA EditMade ==
    ASSUME NEW issues, NEW d, Edit(issues, d).issues = {}
    PROVE  issues = {} /\ Edit(issues, d).v = d
  BY DEF Edit, Ok, Fail

LEMMA RefusalsStand ==
    ASSUME NEW k
    PROVE  Fail({k}).issues # {}
  BY DEF Fail

LEMMA MissingOrNot ==
    ASSUME NEW b
    PROVE  Missing(b) = {} => b
  BY DEF Missing

\* A field that is neither a list nor the wing nor the mission.
LEMMA FieldEdit ==
    ASSUME NEW d, NEW start, Sound(d, start), NEW k, k \notin Lists \cup {"wing", "mission"}, NEW v
    PROVE  Sound([d EXCEPT ![k] = v], start)
<1> DEFINE e == [d EXCEPT ![k] = v]
<1>1. DOMAIN e = DOMAIN d /\ \A x \in DOMAIN d : x # k => e[x] = d[x]
  OBVIOUS
<1> HIDE DEF e
<1>2. e.wing = d.wing /\ e.mission = d.mission /\ \A x \in Lists : e[x] = d[x]
  BY <1>1 DEF Sound, Formed
<1> QED
  BY <1>1, <1>2 DEF Sound, Formed, e

LEMMA ListEdit ==
    ASSUME NEW d, NEW start, Sound(d, start), NEW k \in Lists, NEW l, NamedList(l)
    PROVE  Sound([d EXCEPT ![k] = l], start)
<1> DEFINE e == [d EXCEPT ![k] = l]
<1>1. /\ DOMAIN e = DOMAIN d /\ \A x \in DOMAIN d : x # k => e[x] = d[x]
      /\ k \in DOMAIN d => e[k] = l
  OBVIOUS
<1> HIDE DEF e
<1>2. k # "wing" /\ k # "mission"
  BY DEF Lists
<1>3. e.wing = d.wing /\ e.mission = d.mission /\ \A x \in Lists : x # k => e[x] = d[x]
  BY <1>1, <1>2 DEF Sound, Formed
<1>4. e[k] = l
  BY <1>1 DEF Sound, Formed
<1> QED
  BY <1>1, <1>3, <1>4 DEF Sound, Formed, e

LEMMA MissionEdit ==
    ASSUME NEW d, NEW start, Sound(d, start), NEW m, "segments" \in DOMAIN m, NamedList(m.segments)
    PROVE  Sound([d EXCEPT !.mission = m], start)
<1> DEFINE e == [d EXCEPT !.mission = m]
<1>1. /\ DOMAIN e = DOMAIN d /\ \A x \in DOMAIN d : x # "mission" => e[x] = d[x]
      /\ "mission" \in DOMAIN d => e.mission = m
  OBVIOUS
<1> HIDE DEF e
<1>2. e.wing = d.wing /\ e.mission = m /\ \A x \in Lists : e[x] = d[x]
  BY <1>1 DEF Sound, Formed, Lists
<1> QED
  BY <1>1, <1>2 DEF Sound, Formed, e

LEMMA WingEdit ==
    ASSUME NEW d, NEW start, Sound(d, start),
           NEW w, {"drivers", "dihedral", "dihedralMode"} \subseteq DOMAIN w,
           ToSet(SizeKeys) \subseteq DOMAIN w.drivers, FewDrivers(w, start)
    PROVE  Sound([d EXCEPT !.wing = w], start)
<1> DEFINE e == [d EXCEPT !.wing = w]
<1>1. /\ DOMAIN e = DOMAIN d /\ \A x \in DOMAIN d : x # "wing" => e[x] = d[x]
      /\ "wing" \in DOMAIN d => e.wing = w
  OBVIOUS
<1> HIDE DEF e
<1>2. e.wing = w /\ e.mission = d.mission /\ \A x \in Lists : e[x] = d[x]
  BY <1>1 DEF Sound, Formed, Lists
<1> QED
  BY <1>1, <1>2 DEF Sound, Formed, e

\* setSizeDriver touches one driver: None releases it, a value of one holds it.
LEMMA SizeDriverSet ==
    ASSUME NEW d, Formed(d), NEW key \in ToSet(SizeKeys), NEW v
    PROVE  LET e == setSizeDriver(d, key, v)
           IN  /\ e = [d EXCEPT !.wing = e.wing]
               /\ "drivers" \in DOMAIN e.wing /\ DOMAIN e.wing.drivers = DOMAIN d.wing.drivers
               /\ Formed(e)
               /\ \A k : k # key => (k \in suppliedDrivers(e.wing.drivers) <=> k \in suppliedDrivers(d.wing.drivers))
               /\ v = None => key \notin suppliedDrivers(e.wing.drivers)
               /\ v = One => key \in suppliedDrivers(e.wing.drivers)
<1> DEFINE e  == setSizeDriver(d, key, v)
           x  == IF v = None THEN Unset(key) ELSE v
           w  == [d.wing EXCEPT !.drivers = [d.wing.drivers EXCEPT ![key] = x]]
<1>1. e = [d EXCEPT !.wing = w] /\ "wing" \in DOMAIN d /\ "drivers" \in DOMAIN d.wing
  BY DEF setSizeDriver, Formed
<1>2. /\ {"drivers", "dihedral", "dihedralMode"} \subseteq DOMAIN w /\ w.drivers = [d.wing.drivers EXCEPT ![key] = x]
      /\ key \in DOMAIN d.wing.drivers
  BY <1>1 DEF Formed
<1>3. /\ DOMAIN w.drivers = DOMAIN d.wing.drivers /\ w.drivers[key] = x
      /\ \A k \in DOMAIN d.wing.drivers : k # key => w.drivers[k] = d.wing.drivers[k]
  BY <1>2
<1>4. e.wing = w
  BY <1>1
<1> HIDE DEF e, w
<1>5. Formed(e)
  <2>1. DOMAIN e = DOMAIN d /\ \A k \in DOMAIN d : k # "wing" => e[k] = d[k]
    BY <1>1
  <2>2. e.mission = d.mission /\ \A k \in Lists : e[k] = d[k]
    BY <2>1 DEF Formed, Lists
  <2> QED
    BY <1>2, <1>3, <1>4, <2>1, <2>2 DEF Formed
<1>6. ToSet(SizeKeys) = {"span", "area", "aspect", "root"}
  BY DEF ToSet, SizeKeys
<1>7. ASSUME NEW k, k # key
      PROVE  k \in suppliedDrivers(w.drivers) <=> k \in suppliedDrivers(d.wing.drivers)
  <2>1. k \in ToSet(SizeKeys) => w.drivers[k] = d.wing.drivers[k]
    BY <1>3, <1>7 DEF Formed
  <2>2. k \in ToSet(SizeKeys) => (holdsDriver(w.drivers, k) <=> holdsDriver(d.wing.drivers, k))
    BY <2>1 DEF holdsDriver
  <2> QED
    BY <2>2 DEF suppliedDrivers
<1>8. ASSUME v = None
      PROVE  key \notin suppliedDrivers(w.drivers)
  BY <1>3, <1>8 DEF suppliedDrivers, holdsDriver, Unset, Supplied
<1>9. ASSUME v = One
      PROVE  key \in suppliedDrivers(w.drivers)
  <2>1. One # None /\ One # Zero
    BY DEF One, None, Zero, Int1
  <2>2. w.drivers[key] = One
    BY <1>3, <1>9, <2>1
  <2> QED
    BY <2>1, <2>2 DEF suppliedDrivers, holdsDriver, Supplied
<1> QED
  BY <1>1, <1>2, <1>3, <1>4, <1>5, <1>7, <1>8, <1>9 DEF e

\* An edit of the drivers that leaves few of them.
LEMMA DriverEdit ==
    ASSUME NEW d, NEW start, NEW key \in ToSet(SizeKeys), NEW v, Formed(d),
           FewDrivers(setSizeDriver(d, key, v).wing, start)
    PROVE  Sound(setSizeDriver(d, key, v), start)
  BY SizeDriverSet DEF Sound

LEMMA SetDriverSound ==
    ASSUME NEW d, NEW start, Sound(d, start), NEW key, NEW v, SetDriver(d, key, v).issues = {}
    PROVE  Sound(SetDriver(d, key, v).v, start)
<1> DEFINE e == setSizeDriver(d, key, v)
           S == suppliedDrivers(d.wing.drivers)
<1>1. key \in ToSet(SizeKeys)
  BY RefusalsStand DEF SetDriver
<1>2. S \subseteq ToSet(SizeKeys) /\ IsFiniteSet(S) /\ Cardinality(S) \in Nat
  BY DriverFacts DEF suppliedDrivers
<1>3. SetDriver(d, key, v).v = e /\ (key \in S \/ ~(Cardinality(S) >= 2))
  <2>1. CASE key \in S
    BY <1>1, <2>1, EditMade DEF SetDriver, DriverKeys
  <2>2. CASE key \notin S /\ Cardinality(S) >= 2
    <3>1. SetDriver(d, key, v) = Then(ValidSwaps(d, key), LAMBDA swaps : Fail({"invalid"}))
      BY <1>1, <2>2 DEF SetDriver, DriverKeys
    <3>2. Then(ValidSwaps(d, key), LAMBDA swaps : Fail({"invalid"})).issues # {}
      BY DEF Then, Fail
    <3> QED
      BY <3>1, <3>2
  <2>3. CASE key \notin S /\ ~(Cardinality(S) >= 2)
    BY <1>1, <2>3, EditMade DEF SetDriver, DriverKeys
  <2> QED
    BY <2>1, <2>2, <2>3
<1>4. \A k : k \in suppliedDrivers(e.wing.drivers) => k = key \/ k \in S
  BY <1>1, SizeDriverSet DEF Sound
<1>5. FewDrivers(e.wing, start)
  <2>1. CASE key \in S
    BY <1>4, <2>1, FewerDrivers DEF Sound
  <2>2. CASE ~(Cardinality(S) >= 2)
    <3>1. IsFiniteSet(S \cup {key}) /\ Cardinality(S \cup {key}) <= 2 /\ Cardinality(S \cup {key}) \in Nat
      BY <1>2, <2>2, FS_AddElement
    <3>2. suppliedDrivers(e.wing.drivers) \subseteq S \cup {key}
      BY <1>4
    <3>3. Cardinality(suppliedDrivers(e.wing.drivers)) <= Cardinality(S \cup {key})
      BY <3>1, <3>2, FS_Subset
    <3>4. Cardinality(suppliedDrivers(e.wing.drivers)) \in Nat
      BY DriverFacts
    <3> QED
      BY <3>1, <3>3, <3>4 DEF FewDrivers
  <2> QED
    BY <1>3, <2>1, <2>2
<1> QED
  BY <1>1, <1>3, <1>5, DriverEdit DEF Sound

\* A wing that a path solves has two drivers.
LEMMA PathHasTwo ==
    ASSUME NEW w, solvePath(w).issues = {}
    PROVE  Cardinality(suppliedDrivers(w)) = 2
<1> DEFINE t == resolveTaper(w)
           m == resolveMode(w, IF t.issues = {} THEN t.v ELSE Zero)
<1>1. solvePath(w).issues = UNION {[taper |-> t, mode |-> m][k].issues : k \in {"taper", "mode"}}
  BY DEF solvePath, pathAt, Together
<1>2. m.issues = {}
  BY <1>1
<1> HIDE DEF t
<1> QED
  BY <1>2 DEF resolveMode, Fail

LEMMA PromoteSound ==
    ASSUME NEW d, NEW start, Sound(d, start), NEW promote, NEW release, NEW v,
           PromoteDriver(d, promote, release, v).issues = {}
    PROVE  Sound(PromoteDriver(d, promote, release, v).v, start)
<1> DEFINE r == setSizeDriver(d, release, None)
           e == setSizeDriver(r, promote, v)
           f == setSizeDriver(r, promote, One)
<1>1. ValidSwaps(d, promote).issues = {}
  BY DEF PromoteDriver, Then, Fail
<1>2. /\ promote \in ToSet(SizeKeys) /\ ValidSwaps(d, promote).v = Swaps(d, promote)
  BY <1>1, RefusalsStand DEF ValidSwaps, Offer, Ok
<1>3. release \in Swaps(d, promote) /\ PromoteDriver(d, promote, release, v).v = e
  BY <1>1, <1>2, RefusalsStand, EditMade DEF PromoteDriver, Then
<1>4. solvePath(f.wing.drivers).issues = {} /\ release \in DriverKeys(d)
  BY <1>3 DEF Swaps
<1>5. Cardinality(suppliedDrivers(f.wing.drivers)) = 2
  BY <1>4, PathHasTwo
<1>6. release \in ToSet(SizeKeys)
  BY <1>4 DEF DriverKeys, suppliedDrivers
<1>7. Formed(r)
  BY <1>6, SizeDriverSet DEF Sound
<1>8. suppliedDrivers(e.wing.drivers) \subseteq suppliedDrivers(f.wing.drivers)
  <2>1. \A k : k # promote => (k \in suppliedDrivers(e.wing.drivers) <=> k \in suppliedDrivers(r.wing.drivers))
    BY <1>2, <1>7, SizeDriverSet
  <2>2. /\ \A k : k # promote => (k \in suppliedDrivers(f.wing.drivers) <=> k \in suppliedDrivers(r.wing.drivers))
        /\ promote \in suppliedDrivers(f.wing.drivers)
    BY <1>2, <1>7, SizeDriverSet
  <2> QED
    BY <2>1, <2>2
<1>9. FewDrivers(f.wing, start)
  BY <1>5 DEF FewDrivers
<1>10. FewDrivers(e.wing, start)
  BY <1>8, <1>9, FewerDrivers
<1> QED
  BY <1>2, <1>3, <1>7, <1>10, DriverEdit

LEMMA StallLimitSound ==
    ASSUME NEW d, NEW start, Sound(d, start), NEW hold, NEW scope,
           SizeAtStallLimit(d, hold, scope).issues = {}
    PROVE  Sound(SizeAtStallLimit(d, hold, scope).v, start)
<1> DEFINE r    == releaseAllBut(d, hold)
           b    == AreaLowerBound(d, scope)
           e(v) == setSizeDriver(r, "area", v)
<1>1. \E v : SizeAtStallLimit(d, hold, scope).v = e(v)
  <2>1. /\ hold \in {"span", "aspect", "root"} /\ holdsDriver(d.wing.drivers, hold)
    BY RefusalsStand DEF SizeAtStallLimit
  <2>2. SizeAtStallLimit(d, hold, scope)
          = Then(b, LAMBDA bound : IF ~bound.known THEN Fail({"missing"})
                                   ELSE Ok(setSizeDriver(r, "area", areaDriverFor(d, bound.value))))
    BY <2>1 DEF SizeAtStallLimit
  <2>3. b.issues = {}
    BY <2>2 DEF Then, Fail
  <2>4. b.v.known
    BY <2>2, <2>3, RefusalsStand DEF Then
  <2> QED
    BY <2>2, <2>3, <2>4 DEF Then, Ok
<1>2. Formed(r) /\ suppliedDrivers(r.wing.drivers) \subseteq {hold}
  <2> DEFINE D  == d.wing.drivers
             rs == [k \in DOMAIN D |-> IF k \in DriverKeys(d) \ {hold} THEN Unset(k) ELSE D[k]]
             w  == [d.wing EXCEPT !.drivers = rs]
  <2>1. r = [d EXCEPT !.wing = w] /\ "wing" \in DOMAIN d /\ "drivers" \in DOMAIN d.wing
    BY DEF releaseAllBut, Sound, Formed
  <2>2. /\ r.wing = w /\ w.drivers = rs /\ DOMAIN rs = DOMAIN D
        /\ {"drivers", "dihedral", "dihedralMode"} \subseteq DOMAIN w
    BY <2>1 DEF Sound, Formed
  <2>3. ASSUME NEW k \in suppliedDrivers(rs), k # hold
        PROVE  FALSE
    <3>1. k \in ToSet(SizeKeys) /\ k \in DOMAIN D /\ holdsDriver(rs, k)
      BY <2>3 DEF suppliedDrivers, Sound, Formed
    <3>2. CASE k \in DriverKeys(d)
      BY <2>3, <3>1, <3>2 DEF holdsDriver, Unset, Supplied
    <3>3. CASE k \notin DriverKeys(d)
      BY <3>1, <3>3 DEF holdsDriver, DriverKeys, suppliedDrivers
    <3> QED
      BY <3>2, <3>3
  <2> HIDE DEF r, rs, w
  <2>4. Formed(r)
    <3>1. DOMAIN r = DOMAIN d /\ \A k \in DOMAIN d : k # "wing" => r[k] = d[k]
      BY <2>1
    <3>2. r.mission = d.mission /\ \A k \in Lists : r[k] = d[k]
      BY <3>1 DEF Sound, Formed, Lists
    <3> QED
      BY <2>2, <3>1, <3>2 DEF Sound, Formed
  <2> QED
    BY <2>2, <2>3, <2>4
<1>3. "area" \in ToSet(SizeKeys)
  BY DEF ToSet, SizeKeys
<1>4. ASSUME NEW v
      PROVE  suppliedDrivers(e(v).wing.drivers) \subseteq {hold, "area"}
  <2>1. \A k : k # "area" => (k \in suppliedDrivers(e(v).wing.drivers) <=> k \in suppliedDrivers(r.wing.drivers))
    BY <1>2, <1>3, SizeDriverSet
  <2> QED
    BY <1>2, <2>1
<1>5. PICK v : SizeAtStallLimit(d, hold, scope).v = e(v)
  BY <1>1
<1> HIDE DEF e
<1>6. FewDrivers(e(v).wing, start)
  BY <1>4, TwoDrivers
<1>7. Sound(e(v), start)
  BY <1>2, <1>3, <1>6, DriverEdit DEF e
<1> QED
  BY <1>5, <1>7

\* What else is written to the wing is not a driver.
LEMMA SameSizesSound ==
    ASSUME NEW d, NEW start, Sound(d, start), NEW D, DOMAIN D = DOMAIN d.wing.drivers,
           \A k \in {"span", "area", "aspect", "root"} : D[k] = d.wing.drivers[k]
    PROVE  Sound([d EXCEPT !.wing = [d.wing EXCEPT !.drivers = D]], start)
<1> DEFINE w == [d.wing EXCEPT !.drivers = D]
<1>1. {"drivers", "dihedral", "dihedralMode"} \subseteq DOMAIN w /\ w.drivers = D
  BY DEF Sound, Formed
<1> HIDE DEF w
<1>2. ToSet(SizeKeys) = {"span", "area", "aspect", "root"}
  BY DEF ToSet, SizeKeys
<1>3. \A k \in ToSet(SizeKeys) : holdsDriver(D, k) <=> holdsDriver(d.wing.drivers, k)
  BY <1>2 DEF holdsDriver
<1>4. FewDrivers(w, start)
  BY <1>1, <1>3, FewerDrivers DEF Sound, suppliedDrivers
<1>5. ToSet(SizeKeys) \subseteq DOMAIN w.drivers
  BY <1>1 DEF Sound, Formed
<1> QED
  BY <1>1, <1>4, <1>5, WingEdit DEF w

LEMMA DriverFieldSound ==
    ASSUME NEW d, NEW start, Sound(d, start), NEW k, k \notin {"span", "area", "aspect", "root"}, NEW v
    PROVE  Sound([d EXCEPT !.wing.drivers[k] = v], start)
<1> DEFINE D == [d.wing.drivers EXCEPT ![k] = v]
<1>1. /\ "wing" \in DOMAIN d /\ "drivers" \in DOMAIN d.wing
      /\ {"span", "area", "aspect", "root"} \subseteq DOMAIN d.wing.drivers
  BY DEF Sound, Formed, ToSet, SizeKeys
<1>2. [d EXCEPT !.wing.drivers[k] = v] = [d EXCEPT !.wing = [d.wing EXCEPT !.drivers = D]]
  BY <1>1
<1>3. DOMAIN D = DOMAIN d.wing.drivers /\ \A x \in {"span", "area", "aspect", "root"} : D[x] = d.wing.drivers[x]
  BY <1>1
<1> HIDE DEF D
<1> QED
  BY <1>2, <1>3, SameSizesSound

LEMMA WingFieldSound ==
    ASSUME NEW d, NEW start, Sound(d, start), NEW w, DOMAIN w = DOMAIN d.wing, w.drivers = d.wing.drivers
    PROVE  Sound([d EXCEPT !.wing = w], start)
<1>1. /\ {"drivers", "dihedral", "dihedralMode"} \subseteq DOMAIN w
      /\ ToSet(SizeKeys) \subseteq DOMAIN w.drivers /\ FewDrivers(w, start)
  BY DEF Sound, Formed, FewDrivers
<1> QED
  BY <1>1, WingEdit

LEMMA WingCommandSound ==
    ASSUME NEW d, NEW start, Sound(d, start), NEW c
    PROVE  /\ SetWingAngles(d, c).issues = {} => Sound(SetWingAngles(d, c).v, start)
           /\ \A v : SetBodyWidth(d, v).issues = {} => Sound(SetBodyWidth(d, v).v, start)
           /\ \A v : SetTaperRatio(d, v).issues = {} => Sound(SetTaperRatio(d, v).v, start)
           /\ \A shape, v : SetPlanformShape(d, shape, v).issues = {} => Sound(SetPlanformShape(d, shape, v).v, start)
<1>1. ASSUME SetWingAngles(d, c).issues = {}
      PROVE  Sound(SetWingAngles(d, c).v, start)
  <2> DEFINE w == [d.wing EXCEPT !.sweep = c.sweep, !.dihedral = c.dihedral, !.twist = c.twist,
                                 !.incidence = c.incidence, !.sweepRef = c.sweepRef, !.dihedralMode = c.mode]
             refusals == Missing("none" \notin {c.sweep, c.dihedral, c.twist, c.incidence})
                           \cup Invalid("wrong" \notin {c.sweep, c.dihedral, c.twist, c.incidence})
                           \cup Invalid(Leq(Zero, c.sweepRef) /\ Leq(c.sweepRef, One))
  <2>1. DOMAIN w = DOMAIN d.wing /\ w.drivers = d.wing.drivers
    BY DEF Sound, Formed
  <2>3. SetWingAngles(d, c) = Edit(refusals, [d EXCEPT !.wing = w])
    BY DEF SetWingAngles
  <2> HIDE DEF w, refusals
  <2>2. SetWingAngles(d, c).v = [d EXCEPT !.wing = w]
    BY <1>1, <2>3, EditMade
  <2> QED
    BY <2>1, <2>2, WingFieldSound
<1>2. ASSUME NEW v, SetBodyWidth(d, v).issues = {}
      PROVE  Sound(SetBodyWidth(d, v).v, start)
  <2> DEFINE w == [d.wing EXCEPT !.bodyWidth = v]
  <2>1. DOMAIN w = DOMAIN d.wing /\ w.drivers = d.wing.drivers
    BY DEF Sound, Formed
  <2>2. SetBodyWidth(d, v).v = [d EXCEPT !.wing = w]
    BY <1>2, EditMade DEF SetBodyWidth
  <2> HIDE DEF w
  <2> QED
    BY <2>1, <2>2, WingFieldSound
<1>3. ASSUME NEW v, SetTaperRatio(d, v).issues = {}
      PROVE  Sound(SetTaperRatio(d, v).v, start)
  BY <1>3, EditMade, DriverFieldSound DEF SetTaperRatio
<1>4. ASSUME NEW shape, NEW v, SetPlanformShape(d, shape, v).issues = {}
      PROVE  Sound(SetPlanformShape(d, shape, v).v, start)
  <2> DEFINE a == [d EXCEPT !.wing.drivers.shape = shape]
             b == [a EXCEPT !.wing.drivers.taper = v]
  <2>1. SetPlanformShape(d, shape, v).v = b
    BY <1>4, EditMade DEF SetPlanformShape
  <2>2. Sound(a, start)
    BY DriverFieldSound
  <2> HIDE DEF a
  <2> QED
    BY <2>1, <2>2, DriverFieldSound
<1> QED
  BY <1>1, <1>2, <1>3, <1>4

\* Removals, and changes of one item of a list.
LEMMA RemovalSound ==
    ASSUME NEW d, NEW start, Sound(d, start), NEW k \in Lists, NEW n, Removal(d, k, n).issues = {}
    PROVE  Sound(Removal(d, k, n).v, start)
<1> DEFINE e == [d EXCEPT ![k] = Without(d[k], n)]
<1>1. Removal(d, k, n) = Edit(Missing(Named(d[k], n)), e)
  BY DEF Removal, Sound, Formed
<1>2. Missing(Named(d[k], n)) = {} /\ Removal(d, k, n).v = e
  BY <1>1, EditMade
<1>3. Named(d[k], n)
  BY <1>2, MissingOrNot
<1>4. NamedList(Without(d[k], n))
  BY <1>3, WithoutList DEF Sound, Formed
<1> QED
  BY <1>2, <1>4, ListEdit

LEMMA PrioritySound ==
    ASSUME NEW d, NEW start, Sound(d, start), NEW k \in Lists, NEW n, NEW p, SetPriority(d, k, n, p).issues = {}
    PROVE  Sound(SetPriority(d, k, n, p).v, start)
<1>1. /\ Missing(p # "unknown") \cup Missing(Named(d[k], n)) = {}
      /\ SetPriority(d, k, n, p).v = [d EXCEPT ![k] = Update(d[k], n, "priority", p)]
  BY EditMade DEF SetPriority, Sound, Formed
<1>2. Named(d[k], n)
  BY <1>1, MissingOrNot
<1>3. NamedList(Update(d[k], n, "priority", p))
  BY <1>2, UpdateList DEF Sound, Formed
<1> QED
  BY <1>1, <1>3, ListEdit

LEMMA PlaceSound ==
    ASSUME NEW d, NEW start, Sound(d, start), NEW n, NEW pos, PlaceComponent(d, n, pos).issues = {}
    PROVE  Sound(PlaceComponent(d, n, pos).v, start)
<1> DEFINE i == IF checkPosition(pos) # {} THEN checkPosition(pos)
                ELSE Missing(\A a \in Axes : Supplied(pos[a])) \cup Missing(Named(d.components, n))
<1>1. i = {} /\ PlaceComponent(d, n, pos).v = [d EXCEPT !.components = Update(d.components, n, "pos", pos)]
  BY EditMade DEF PlaceComponent, Sound, Formed
<1>2. Named(d.components, n)
  <2>1. Missing(Named(d.components, n)) = {}
    BY <1>1
  <2> QED
    BY <2>1, MissingOrNot
<1>3. NamedList(Update(d.components, n, "pos", pos))
  BY <1>2, UpdateList DEF Sound, Formed, Lists
<1> QED
  BY <1>1, <1>3, ListEdit DEF Lists

LEMMA CLmaxSound ==
    ASSUME NEW d, NEW start, Sound(d, start), NEW n, NEW cl, NEW scope, NEW basis,
           SetCaseCLmax(d, n, cl, scope, basis).issues = {}
    PROVE  Sound(SetCaseCLmax(d, n, cl, scope, basis).v, start)
<1> DEFINE a == Update(d.cases, n, "clmax", cl)
           b == Update(a, n, "clScope", scope)
           c == Update(b, n, "clBasis", basis)
<1>1. Named(d.cases, n) /\ SetCaseCLmax(d, n, cl, scope, basis).v = [d EXCEPT !.cases = c]
  BY EditMade, MissingOrNot DEF SetCaseCLmax, Sound, Formed
<1>2. NamedList(a) /\ Named(a, n)
  BY <1>1, UpdateList DEF Sound, Formed, Lists
<1> HIDE DEF a
<1>3. NamedList(b) /\ Named(b, n)
  BY <1>2, UpdateList
<1> HIDE DEF b
<1>4. NamedList(c)
  BY <1>3, UpdateList
<1> HIDE DEF c
<1> QED
  BY <1>1, <1>4, ListEdit DEF Lists

\* The mission.
LEMMA SegmentsSound ==
    ASSUME NEW d, NEW start, Sound(d, start), NEW l, NamedList(l)
    PROVE  Sound([d EXCEPT !.mission.segments = l], start)
<1> DEFINE m == [d.mission EXCEPT !.segments = l]
<1>1. "segments" \in DOMAIN m /\ m.segments = l /\ [d EXCEPT !.mission.segments = l] = [d EXCEPT !.mission = m]
  BY DEF Sound, Formed
<1> HIDE DEF m
<1> QED
  BY <1>1, MissionEdit

LEMMA MissionFieldSound ==
    ASSUME NEW d, NEW start, Sound(d, start), NEW k, k # "segments", NEW v
    PROVE  Sound([d EXCEPT !.mission[k] = v], start)
<1> DEFINE m == [d.mission EXCEPT ![k] = v]
<1>1. "segments" \in DOMAIN m /\ m.segments = d.mission.segments
  BY DEF Sound, Formed
<1>2. [d EXCEPT !.mission[k] = v] = [d EXCEPT !.mission = m] /\ NamedList(d.mission.segments)
  BY DEF Sound, Formed
<1> HIDE DEF m
<1> QED
  BY <1>1, <1>2, MissionEdit

LEMMA MissionSound ==
    ASSUME NEW d, NEW start, Sound(d, start)
    PROVE  /\ \A m : SetMissionProfile(d, m).issues = {} => Sound(SetMissionProfile(d, m).v, start)
           /\ \A s : "name" \in DOMAIN s /\ SetMissionSegment(d, s).issues = {} => Sound(SetMissionSegment(d, s).v, start)
           /\ \A n : RemoveMissionSegment(d, n).issues = {} => Sound(RemoveMissionSegment(d, n).v, start)
           /\ \A n, index : MoveMissionSegment(d, n, index).issues = {} => Sound(MoveMissionSegment(d, n, index).v, start)
<1> DEFINE segs == d.mission.segments
<1>0. NamedList(segs) /\ "mission" \in DOMAIN d /\ "segments" \in DOMAIN d.mission
  BY DEF Sound, Formed
<1>1. ASSUME NEW m, SetMissionProfile(d, m).issues = {}
      PROVE  Sound(SetMissionProfile(d, m).v, start)
  <2> DEFINE a == [d EXCEPT !.mission.name = m.name]
             b == [a EXCEPT !.mission.basis = m.basis]
             e == [b EXCEPT !.mission.reserve = m.reserve]
  <2>1. SetMissionProfile(d, m).v = e
    BY <1>1, EditMade DEF SetMissionProfile
  <2>2. Sound(a, start)
    BY MissionFieldSound
  <2> HIDE DEF a
  <2>3. Sound(b, start)
    BY <2>2, MissionFieldSound
  <2> HIDE DEF b
  <2>4. Sound(e, start)
    BY <2>3, MissionFieldSound
  <2> QED
    BY <2>1, <2>4
<1>2. ASSUME NEW s, "name" \in DOMAIN s, SetMissionSegment(d, s).issues = {}
      PROVE  Sound(SetMissionSegment(d, s).v, start)
  <2>1. SetMissionSegment(d, s).v = [d EXCEPT !.mission.segments = Put(segs, s)]
    BY <1>0, <1>2, EditMade DEF SetMissionSegment
  <2>2. NamedList(Put(segs, s))
    BY <1>0, <1>2, PutList
  <2> QED
    BY <2>1, <2>2, SegmentsSound
<1>3. ASSUME NEW n, RemoveMissionSegment(d, n).issues = {}
      PROVE  Sound(RemoveMissionSegment(d, n).v, start)
  <2>1. Named(segs, n) /\ RemoveMissionSegment(d, n).v = [d EXCEPT !.mission.segments = Without(segs, n)]
    BY <1>0, <1>3, EditMade, MissingOrNot DEF RemoveMissionSegment
  <2>2. NamedList(Without(segs, n))
    BY <1>0, <2>1, WithoutList
  <2> QED
    BY <2>1, <2>2, SegmentsSound
<1>4. ASSUME NEW n, NEW index, MoveMissionSegment(d, n, index).issues = {}
      PROVE  Sound(MoveMissionSegment(d, n, index).v, start)
  <2> DEFINE rest == Without(segs, n)
             it   == Get(segs, n)
             l    == InsertAt(rest, index + 1, it)
  <2>1. Named(segs, n)
    BY <1>4, RefusalsStand DEF MoveMissionSegment
  <2>2. /\ Invalid(index \in 0 .. Len(segs) - 1) = {}
        /\ MoveMissionSegment(d, n, index).v = [d EXCEPT !.mission.segments = l]
    BY <1>0, <1>4, <2>1, EditMade DEF MoveMissionSegment
  <2>3. index \in 0 .. Len(segs) - 1
    BY <2>2 DEF Invalid
  <2>4. NamedList(rest) /\ Len(rest) = Len(segs) - 1 /\ ~Named(rest, n)
    BY <1>0, <2>1, WithoutList
  <2>5. it.name = n /\ "name" \in DOMAIN it
    BY <1>0, <2>1, PlaceIsThere, NamedListFacts DEF Get
  <2>6. index + 1 \in 1 .. Len(rest) + 1
    BY <1>0, <2>3, <2>4, NamedListFacts
  <2> HIDE DEF rest, it
  <2>7. NamedList(l)
    BY <2>4, <2>5, <2>6, InsertList
  <2> HIDE DEF l
  <2> QED
    BY <2>2, <2>7, SegmentsSound
<1> QED
  BY <1>1, <1>2, <1>3, <1>4

\* Items put on a list.
LEMMA PutSound ==
    ASSUME NEW d, NEW start, Sound(d, start), NEW k \in Lists, NEW it, "name" \in DOMAIN it
    PROVE  Sound([d EXCEPT ![k] = Put(d[k], it)], start)
<1>1. NamedList(Put(d[k], it))
  BY PutList DEF Sound, Formed
<1> QED
  BY <1>1, ListEdit

LEMMA PutCommandSound ==
    ASSUME NEW d, NEW start, Sound(d, start), NEW it, "name" \in DOMAIN it
    PROVE  /\ SetComponent(d, it).issues = {} => Sound(SetComponent(d, it).v, start)
           /\ SetCase(d, it).issues = {} => Sound(SetCase(d, it).v, start)
           /\ SetRequirement(d, it).issues = {} => Sound(SetRequirement(d, it).v, start)
           /\ SetCapability(d, it).issues = {} => Sound(SetCapability(d, it).v, start)
           /\ SetThrustTarget(d, it).issues = {} => Sound(SetThrustTarget(d, it).v, start)
           /\ SetAuxiliaryLoad(d, it).issues = {} => Sound(SetAuxiliaryLoad(d, it).v, start)
<1> DEFINE put(k) == [d EXCEPT ![k] = Put(d[k], it)]
<1>1. /\ SetComponent(d, it).issues = {} => SetComponent(d, it).v = put("components")
      /\ SetCapability(d, it).issues = {} => SetCapability(d, it).v = put("capabilities")
      /\ SetAuxiliaryLoad(d, it).issues = {} => SetAuxiliaryLoad(d, it).v = put("auxiliary")
  BY EditMade DEF SetComponent, SetCapability, SetAuxiliaryLoad
<1>2. /\ SetCase(d, it).issues = {} => SetCase(d, it).v = put("cases")
      /\ SetRequirement(d, it).issues = {} => SetRequirement(d, it).v = put("reqs")
      /\ SetThrustTarget(d, it).issues = {} => SetThrustTarget(d, it).v = put("targets")
  BY EditMade DEF SetCase, SetRequirement, SetThrustTarget
<1>3. \A k \in Lists : Sound(put(k), start)
  BY PutSound
<1> HIDE DEF put
<1> QED
  BY <1>1, <1>2, <1>3 DEF Lists

\* Fields of the design itself.
LEMMA FieldCommandSound ==
    ASSUME NEW d, NEW start, Sound(d, start), NEW v, NEW w
    PROVE  /\ SetMass(d, v, w).issues = {} => Sound(SetMass(d, v, w).v, start)
           /\ SetMassMode(d, v).issues = {} => Sound(SetMassMode(d, v).v, start)
           /\ SetConfiguration(d, v, w).issues = {} => Sound(SetConfiguration(d, v, w).v, start)
           /\ SetDragPolar(d, v).issues = {} => Sound(SetDragPolar(d, v).v, start)
           /\ SetPropulsionEfficiency(d, v).issues = {} => Sound(SetPropulsionEfficiency(d, v).v, start)
           /\ SetPropulsionLimits(d, v).issues = {} => Sound(SetPropulsionLimits(d, v).v, start)
           /\ SetBattery(d, v).issues = {} => Sound(SetBattery(d, v).v, start)
<1> DEFINE set(e, k, x) == [e EXCEPT ![k] = x]
<1>1. ASSUME NEW e, Sound(e, start), NEW k, k \notin Lists \cup {"wing", "mission"}, NEW x
      PROVE  Sound(set(e, k, x), start)
  BY <1>1, FieldEdit
<1>2. /\ SetMass(d, v, w).issues = {} => SetMass(d, v, w).v = set(set(d, "mass", v), "massBasis", w)
      /\ SetConfiguration(d, v, w).issues = {} =>
           SetConfiguration(d, v, w).v = set(set(d, "configuration", v), "tail", w)
  BY EditMade DEF SetMass, SetConfiguration
<1>3. /\ SetMassMode(d, v).issues = {} => SetMassMode(d, v).v = set(d, "massMode", v)
      /\ SetDragPolar(d, v).issues = {} => SetDragPolar(d, v).v = set(d, "polar", v)
      /\ SetPropulsionEfficiency(d, v).issues = {} => SetPropulsionEfficiency(d, v).v = set(d, "efficiency", v)
      /\ SetPropulsionLimits(d, v).issues = {} => SetPropulsionLimits(d, v).v = set(d, "limits", v)
      /\ SetBattery(d, v).issues = {} => SetBattery(d, v).v = set(d, "battery", v)
  BY EditMade DEF SetMassMode, SetDragPolar, SetPropulsionEfficiency, SetPropulsionLimits, SetBattery
<1> HIDE DEF set
<1>4. {"mass", "massBasis", "configuration", "tail", "massMode", "polar", "efficiency", "limits", "battery"}
        \cap (Lists \cup {"wing", "mission"}) = {}
  BY DEF Lists
<1>5. /\ \A x : Sound(set(d, "mass", x), start) /\ Sound(set(d, "configuration", x), start)
      /\ Sound(set(d, "massMode", v), start) /\ Sound(set(d, "polar", v), start)
      /\ Sound(set(d, "efficiency", v), start) /\ Sound(set(d, "limits", v), start)
      /\ Sound(set(d, "battery", v), start)
  BY <1>1, <1>4
<1>6. /\ Sound(set(set(d, "mass", v), "massBasis", w), start)
      /\ Sound(set(set(d, "configuration", v), "tail", w), start)
  BY <1>1, <1>4, <1>5
<1> QED
  BY <1>2, <1>3, <1>5, <1>6

\* A case and a capability go only when nothing refers to them any more.
LEMMA RemoveCommandSound ==
    ASSUME NEW d, NEW start, Sound(d, start), NEW n
    PROVE  /\ \A k \in Lists : Removal(d, k, n).issues = {} => Sound(Removal(d, k, n).v, start)
           /\ RemoveCase(d, n).issues = {} => Sound(RemoveCase(d, n).v, start)
           /\ RemoveCapability(d, n).issues = {} => Sound(RemoveCapability(d, n).v, start)
<1>1. \A k \in Lists : Removal(d, k, n).issues = {} => Sound(Removal(d, k, n).v, start)
  BY RemovalSound
<1>2. /\ RemoveCase(d, n).issues = {} => RemoveCase(d, n) = Removal(d, "cases", n)
      /\ RemoveCapability(d, n).issues = {} => RemoveCapability(d, n) = Removal(d, "capabilities", n)
  BY RefusalsStand DEF RemoveCase, RemoveCapability
<1> QED
  BY <1>1, <1>2 DEF Lists

\* Every command there is.
LEMMA ApplySound ==
    ASSUME NEW d, NEW start, Sound(d, start), NEW c, c.op \in Ops, c.op \in PutOps => "name" \in DOMAIN c.item,
           apply(d, c).issues = {}
    PROVE  Sound(apply(d, c).v, start)
<1>1. CASE c.op \in {"SetComponent", "SetCase", "SetRequirement", "SetCapability", "SetThrustTarget",
                   "SetAuxiliaryLoad"}
  BY <1>1, PutCommandSound DEF apply, PutOps
<1>2. CASE c.op \in {"SetMass", "SetMassMode", "SetConfiguration", "SetDragPolar",
                   "SetPropulsionEfficiency", "SetPropulsionLimits", "SetBattery"}
  BY <1>2, FieldCommandSound DEF apply
<1>3. CASE c.op \in {"SetTaperRatio", "SetPlanformShape", "SetWingAngles", "SetBodyWidth"}
  BY <1>3, WingCommandSound DEF apply
<1>4. CASE c.op \in {"SetMissionProfile", "RemoveMissionSegment", "MoveMissionSegment"}
  BY <1>4, MissionSound DEF apply
<1>5. CASE c.op = "SetMissionSegment"
  BY <1>5, MissionSound DEF apply, PutOps
<1>6. CASE c.op \in {"RemoveComponent", "RemoveRequirement", "RemoveThrustTarget", "RemoveAuxiliaryLoad"}
  BY <1>6, RemoveCommandSound DEF apply, Lists
<1>7. CASE c.op \in {"RemoveCase", "RemoveCapability"}
  BY <1>7, RemoveCommandSound DEF apply
<1>8. CASE c.op = "SetDriver"
  BY <1>8, SetDriverSound DEF apply
<1>9. CASE c.op = "PromoteDriver"
  BY <1>9, PromoteSound DEF apply
<1>10. CASE c.op = "SizeAtStallLimit"
  BY <1>10, StallLimitSound DEF apply
<1>11. CASE c.op \in {"SetCasePriority", "SetRequirementPriority"}
  BY <1>11, PrioritySound DEF apply, Lists
<1>12. CASE c.op = "PlaceComponent"
  BY <1>12, PlaceSound DEF apply
<1>13. CASE c.op = "SetCaseCLmax"
  BY <1>13, CLmaxSound DEF apply
<1> QED
  BY <1>1, <1>2, <1>3, <1>4, <1>5, <1>6, <1>7, <1>8, <1>9, <1>10, <1>11, <1>12, <1>13 DEF Ops, PutOps

-----------------------------------------------------------------------------
(***************************************************************************)
(* Every design of the history.                                            *)
(***************************************************************************)
HistoryInv ==
    /\ scenario \in Scenarios
    /\ history \in Seq({history[i] : i \in 1 .. Len(history)})
    /\ cursor \in 1 .. Len(history)
    /\ \A i \in 1 .. Len(history) : Sound(history[i], scenario.start)

\* A design added after the cursor.
LEMMA ReviseHistory ==
    ASSUME HistoryInv, NEW d, Sound(d, scenario.start), revise(d)
    PROVE  HistoryInv'
<1> DEFINE S == {history[i] : i \in 1 .. Len(history)} \cup {d}
           h == SubSeq(history, 1, cursor)
<1>1. /\ history' = Append(h, d) /\ cursor' = cursor + 1 /\ scenario' = scenario
  BY DEF revise, invalidateRequest
<1>2. history \in Seq(S) /\ d \in S /\ Len(history) \in Nat /\ cursor \in 1 .. Len(history)
  BY SeqMonotonic, LenProperties DEF HistoryInv
<1>3. h \in Seq(S) /\ Len(h) = cursor /\ \A i \in 1 .. cursor : h[i] = history[i]
  BY <1>2, SubSeqProperties
<1> HIDE DEF h, S
<1>4. /\ history' \in Seq(S) /\ Len(history') = cursor + 1 /\ history'[cursor + 1] = d
      /\ \A i \in 1 .. cursor : history'[i] = history[i]
  BY <1>1, <1>2, <1>3, AppendProperties
<1>5. history' \in Seq({history'[i] : i \in 1 .. Len(history')})
  <2> DEFINE T == {history'[i] : i \in 1 .. Len(history')}
  <2>1. history' \in [1 .. Len(history') -> T] /\ Len(history') \in Nat
    BY <1>4, LenProperties
  <2> HIDE DEF T
  <2>2. history' \in Seq(T)
    BY <2>1, SeqDef
  <2> QED
    BY <2>2 DEF T
<1>6. \A i \in 1 .. cursor + 1 : Sound(history'[i], scenario.start)
  <2>1. \A i \in 1 .. cursor + 1 : i \in 1 .. cursor \/ i = cursor + 1
    BY <1>2
  <2>2. \A i \in 1 .. cursor : i \in 1 .. Len(history)
    BY <1>2
  <2> QED
    BY <1>4, <2>1, <2>2 DEF HistoryInv
<1>7. scenario' \in Scenarios /\ cursor' \in 1 .. Len(history')
  BY <1>1, <1>2, <1>4 DEF HistoryInv
<1>8. \A i \in 1 .. Len(history') : Sound(history'[i], scenario'.start)
  BY <1>1, <1>4, <1>6
<1> QED
  BY <1>5, <1>7, <1>8 DEF HistoryInv

LEMMA InitHistory == Init => HistoryInv
<1> SUFFICES ASSUME Init
             PROVE  HistoryInv
  OBVIOUS
<1>1. scenario \in Scenarios /\ history = <<scenario.start>> /\ cursor = 1
  BY DEF Init
<1>2. Len(history) = 1 /\ history[1] = scenario.start /\ history \in Seq({history[1]})
  BY <1>1
<1>3. {history[i] : i \in 1 .. Len(history)} = {history[1]}
  BY <1>2
<1>4. Sound(scenario.start, scenario.start)
  BY <1>1, ScenariosAssumption DEF Sound, FewDrivers
<1>5. \A i \in 1 .. Len(history) : Sound(history[i], scenario.start)
  BY <1>1, <1>2, <1>4
<1>6. cursor \in 1 .. Len(history)
  BY <1>1, <1>2
<1>7. history \in Seq({history[i] : i \in 1 .. Len(history)})
  BY <1>2, <1>3
<1> QED
  BY <1>1, <1>5, <1>6, <1>7 DEF HistoryInv

LEMMA NextHistory == HistoryInv /\ [Next]_vars => HistoryInv'
<1> SUFFICES ASSUME HistoryInv, [Next]_vars
             PROVE  HistoryInv'
  OBVIOUS
<1>1. Sound(Design, scenario.start) /\ Len(history) \in Nat
  BY LenProperties DEF HistoryInv, Design
<1>2. ASSUME NEW c \in scenario.commands, Do(c)
      PROVE  HistoryInv'
  <2>1. apply(Design, c).issues = {} /\ revise(apply(Design, c).v)
    BY <1>2 DEF Do
  <2>2. c.op \in Ops /\ (c.op \in PutOps => "name" \in DOMAIN c.item)
    BY <1>2, ScenariosAssumption DEF HistoryInv
  <2>3. Sound(apply(Design, c).v, scenario.start)
    BY <1>1, <2>1, <2>2, ApplySound
  <2> QED
    BY <2>1, <2>3, ReviseHistory
<1>3. CASE Load
  <2>1. Sound(scenario.start, scenario.start)
    BY ScenariosAssumption DEF HistoryInv, Sound, FewDrivers
  <2> QED
    BY <1>3, <2>1, ReviseHistory DEF Load
<1>4. CASE Undo \/ Redo
  <2>1. history' = history /\ scenario' = scenario
    BY <1>4 DEF Undo, Redo, invalidateRequest
  <2>2. cursor' \in 1 .. Len(history)
    BY <1>1, <1>4 DEF Undo, Redo, HistoryInv
  <2> QED
    BY <2>1, <2>2 DEF HistoryInv
<1>5. CASE UNCHANGED <<scenario, history, cursor>>
  BY <1>5 DEF HistoryInv
<1> QED
  BY <1>2, <1>3, <1>4, <1>5 DEF Next, vars, Preview, Evaluate, Sweep

\* The tail of a sound airframe, whatever the design.
LEMMA TailAnswers ==
    ASSUME NEW d, ValidateGeometry(d) = {}
    PROVE  HorizontalTailArea(d).issues = {} <=> d.configuration = "conventional"
<1>1. CASE d.configuration = "conventional"
  <2>1. Missing(Supplied(d.tail.h)) = {}
    BY <1>1 DEF ValidateGeometry
  <2>2. Supplied(d.tail.h)
    BY <2>1, MissingOrNot
  <2> QED
    BY <1>1, <2>2 DEF HorizontalTailArea, Ok
<1>2. CASE d.configuration # "conventional"
  BY <1>2, RefusalsStand DEF HorizontalTailArea
<1> QED
  BY <1>1, <1>2

LEMMA HistoryIsWellFormed == HistoryInv => WellFormed
  BY TailAnswers DEF HistoryInv, WellFormed, Sound, Formed, FewDrivers, NamedList, Design

\* However a design was reached, no list of it names an item twice, the wing has
\* no more than two drivers unless it was saved with more, and a sound airframe
\* answers for its horizontal tail only when it has one: for every command.
THEOREM WellFormedAlways == Spec => []WellFormed
<1>1. Spec => []HistoryInv
  BY InitHistory, NextHistory, PTL DEF Spec
<1> QED
  BY <1>1, HistoryIsWellFormed, PTL

-----------------------------------------------------------------------------
(***************************************************************************)
(* Induction over the natural numbers, as a fact about sets.               *)
(***************************************************************************)
LEMMA LeastNumber ==
    ASSUME NEW T, T \subseteq Nat, T # {}
    PROVE  \E x \in T : \A y \in T : x <= y
<1> DEFINE R == {ss \in Nat \X Nat : ss[1] < ss[2]}
<1>1. IsWellFoundedOn(R, Nat)
  BY NatLessThanWellFounded DEF OpToRel
<1>2. \A x, y \in Nat : x < y => <<x, y>> \in R
  OBVIOUS
<1> HIDE DEF R
<1>3. PICK x \in T : \A y \in T : ~ (<<y, x>> \in R)
  BY <1>1, WFMin
<1>4. ASSUME NEW y \in T
      PROVE  x <= y
  <2>1. x \in Nat /\ y \in Nat /\ <<y, x>> \notin R
    BY <1>3
  <2>2. ~ (y < x)
    BY <1>2, <2>1
  <2> QED
    BY <2>1, <2>2
<1> QED
  BY <1>4

\* What holds of 0, and of a number after it holds of the one before, holds of all.
LEMMA InductionOnSet ==
    ASSUME NEW S, 0 \in S, \A n \in Nat : n \in S => n + 1 \in S
    PROVE  Nat \subseteq S
<1> SUFFICES ASSUME Nat \ S # {}
             PROVE  FALSE
  OBVIOUS
<1>1. PICK n \in Nat \ S : \A m \in Nat \ S : n <= m
  BY LeastNumber
<1>2. n # 0 /\ n - 1 \in Nat
  BY <1>1
<1>3. n - 1 \in S
  BY <1>1, <1>2
<1>4. n - 1 + 1 = n
  BY <1>1
<1> QED
  BY <1>1, <1>2, <1>3, <1>4

(***************************************************************************)
(* The checks of a design: which requirement, case and direction a check   *)
(* is of, and lists of checks that are all of different ones.              *)
(***************************************************************************)
CheckKey(c)        == <<c.name, c.case, c.direction>>
CheckList(cs)      == cs \in Seq(ToSet(cs))
DistinctChecks(cs) == \A p, q \in DOMAIN cs : CheckKey(cs[p]) = CheckKey(cs[q]) => p = q

LEMMA CheckListFacts ==
    ASSUME NEW cs, CheckList(cs)
    PROVE  /\ Len(cs) \in Nat /\ DOMAIN cs = 1 .. Len(cs)
           /\ \A T : ToSet(cs) \subseteq T => cs \in Seq(T)
           /\ \A p \in 1 .. Len(cs) : cs[p] \in ToSet(cs)
           /\ \A c \in ToSet(cs) : \E p \in 1 .. Len(cs) : c = cs[p]
<1>1. /\ Len(cs) \in Nat /\ DOMAIN cs = 1 .. Len(cs)
  BY LenProperties DEF CheckList
<1>2. \A T : ToSet(cs) \subseteq T => cs \in Seq(T)
  BY SeqMonotonic DEF CheckList
<1> QED
  BY <1>1, <1>2 DEF ToSet

LEMMA IsCheckList ==
    ASSUME NEW T, NEW cs \in Seq(T)
    PROVE  CheckList(cs) /\ ToSet(cs) \subseteq T
<1>1. Len(cs) \in Nat /\ DOMAIN cs = 1 .. Len(cs) /\ cs \in [1 .. Len(cs) -> T]
  BY LenProperties
<1>2. cs \in [1 .. Len(cs) -> ToSet(cs)] /\ ToSet(cs) \subseteq T
  BY <1>1 DEF ToSet
<1>3. cs \in Seq(ToSet(cs))
  BY <1>1, <1>2, SeqDef
<1> QED
  BY <1>2, <1>3 DEF CheckList

\* Two lists of which no check is of the same, one after the other.
LEMMA JoinChecks ==
    ASSUME NEW a, CheckList(a), DistinctChecks(a), NEW b, CheckList(b), DistinctChecks(b),
           \A x \in ToSet(a), y \in ToSet(b) : CheckKey(x) # CheckKey(y)
    PROVE  CheckList(a \o b) /\ DistinctChecks(a \o b) /\ ToSet(a \o b) \subseteq ToSet(a) \cup ToSet(b)
<1> DEFINE T == ToSet(a) \cup ToSet(b)
           x == a \o b
<1>1. /\ Len(a) \in Nat /\ DOMAIN a = 1 .. Len(a) /\ \A p \in 1 .. Len(a) : a[p] \in ToSet(a)
      /\ Len(b) \in Nat /\ DOMAIN b = 1 .. Len(b) /\ \A p \in 1 .. Len(b) : b[p] \in ToSet(b)
  BY CheckListFacts
<1>2. a \in Seq(T) /\ b \in Seq(T)
  BY CheckListFacts
<1>3. /\ x \in Seq(T) /\ Len(x) = Len(a) + Len(b)
      /\ \A i \in 1 .. Len(a) + Len(b) : x[i] = IF i <= Len(a) THEN a[i] ELSE b[i - Len(a)]
  BY <1>2, ConcatProperties
<1> HIDE DEF x
<1>4. CheckList(x) /\ ToSet(x) \subseteq T
  BY <1>3, IsCheckList
<1> HIDE DEF T
<1>5. DOMAIN x = 1 .. Len(a) + Len(b)
  BY <1>3, <1>4, CheckListFacts
<1>6. ASSUME NEW i \in 1 .. Len(a) + Len(b)
      PROVE  \/ i \in 1 .. Len(a) /\ x[i] = a[i]
             \/ i > Len(a) /\ i - Len(a) \in 1 .. Len(b) /\ x[i] = b[i - Len(a)]
  BY <1>1, <1>3
<1>7. ASSUME NEW i \in DOMAIN x, NEW j \in DOMAIN x, CheckKey(x[i]) = CheckKey(x[j])
      PROVE  i = j
  <2>1. CASE i \in 1 .. Len(a) /\ x[i] = a[i]
    <3>1. j \in 1 .. Len(a) /\ x[j] = a[j]
      BY <1>1, <1>5, <1>6, <1>7, <2>1
    <3> QED
      BY <1>1, <1>7, <2>1, <3>1 DEF DistinctChecks
  <2>2. CASE i > Len(a) /\ i - Len(a) \in 1 .. Len(b) /\ x[i] = b[i - Len(a)]
    <3>1. j > Len(a) /\ j - Len(a) \in 1 .. Len(b) /\ x[j] = b[j - Len(a)]
      BY <1>1, <1>5, <1>6, <1>7, <2>2
    <3>2. i - Len(a) = j - Len(a)
      BY <1>1, <1>7, <2>2, <3>1 DEF DistinctChecks
    <3> QED
      BY <1>1, <1>5, <3>2
  <2> QED
    BY <1>5, <1>6, <2>1, <2>2
<1> QED
  BY <1>4, <1>7 DEF DistinctChecks, T, x

\* FlattenSeq unrolled: there is the function it is taken from.
Flat(ss, n, f) == f = [i \in 1 .. n |-> IF i = 1 THEN ss[i] ELSE f[i - 1] \o ss[i]]

LEMMA FlatStep ==
    ASSUME NEW ss, NEW n \in Nat, NEW f, Flat(ss, n, f), NEW i \in 1 .. n
    PROVE  f[i] = IF i = 1 THEN ss[i] ELSE f[i - 1] \o ss[i]
<1> DEFINE h == [j \in 1 .. n |-> IF j = 1 THEN ss[j] ELSE f[j - 1] \o ss[j]]
<1>1. f = h
  BY DEF Flat
<1>2. h[i] = IF i = 1 THEN ss[i] ELSE f[i - 1] \o ss[i]
  OBVIOUS
<1> HIDE DEF h
<1>3. f[i] = h[i]
  BY <1>1
<1> QED
  BY <1>2, <1>3

LEMMA FlatExists ==
    ASSUME NEW ss, NEW n \in Nat
    PROVE  \E f : Flat(ss, n, f)
<1> DEFINE S == {m \in Nat : \E f : Flat(ss, m, f)}
<1>1. 0 \in S
  <2>1. Flat(ss, 0, [i \in 1 .. 0 |-> ss])
    BY DEF Flat
  <2> QED
    BY <2>1
<1>2. ASSUME NEW m \in Nat, m \in S
      PROVE  m + 1 \in S
  <2>1. PICK f : Flat(ss, m, f)
    BY <1>2
  <2> DEFINE last == IF m + 1 = 1 THEN ss[m + 1] ELSE f[m] \o ss[m + 1]
             g    == [i \in 1 .. m + 1 |-> IF i = m + 1 THEN last ELSE f[i]]
  <2>2. ASSUME NEW i \in 1 .. m
        PROVE  g[i] = f[i] /\ f[i] = IF i = 1 THEN ss[i] ELSE f[i - 1] \o ss[i]
    <3>1. i \in 1 .. m + 1 /\ i # m + 1
      OBVIOUS
    <3>2. g[i] = f[i]
      BY <3>1
    <3> QED
      BY <2>1, <3>2, FlatStep
  <2>3. ASSUME NEW i \in 1 .. m + 1
        PROVE  g[i] = IF i = 1 THEN ss[i] ELSE g[i - 1] \o ss[i]
    <3>1. CASE i = m + 1 /\ m = 0
      BY <3>1
    <3>2. CASE i = m + 1 /\ m # 0
      <4>1. m \in 1 .. m /\ i - 1 = m /\ i # 1
        BY <3>2
      <4>2. g[m] = f[m] /\ g[i] = last
        BY <2>2, <3>2, <4>1
      <4> QED
        BY <3>2, <4>1, <4>2
    <3>3. CASE i # m + 1
      <4>1. i \in 1 .. m /\ (i # 1 => i - 1 \in 1 .. m)
        BY <3>3
      <4> HIDE DEF g
      <4> QED
        BY <2>2, <4>1
    <3> QED
      BY <3>1, <3>2, <3>3
  <2>4. g = [i \in 1 .. m + 1 |-> g[i]]
    OBVIOUS
  <2> HIDE DEF g
  <2>5. Flat(ss, m + 1, g)
    BY <2>3, <2>4 DEF Flat
  <2> QED
    BY <2>5
<1> HIDE DEF S
<1>3. Nat \subseteq S
  BY <1>1, <1>2, InductionOnSet
<1> QED
  BY <1>3 DEF S

LEMMA FlattenIsFlat ==
    ASSUME NEW ss, NEW n \in Nat \ {0}, Len(ss) = n
    PROVE  \E f : Flat(ss, n, f) /\ FlattenSeq(ss) = f[n]
<1> DEFINE F == CHOOSE f : Flat(ss, n, f)
<1>1. Flat(ss, n, F)
  BY FlatExists
<1>2. FlattenSeq(ss) = F[n]
  BY DEF FlattenSeq, Flat
<1> QED
  BY <1>1, <1>2

\* Lists of which no two checks are of the same, one after the other.
LEMMA FlattenChecks ==
    ASSUME NEW ss, NEW n \in Nat, ss = [i \in 1 .. n |-> ss[i]],
           \A i \in 1 .. n : CheckList(ss[i]) /\ DistinctChecks(ss[i]),
           \A i, j \in 1 .. n : \A x \in ToSet(ss[i]), y \in ToSet(ss[j]) : CheckKey(x) = CheckKey(y) => i = j
    PROVE  /\ CheckList(FlattenSeq(ss)) /\ DistinctChecks(FlattenSeq(ss))
           /\ \A c \in ToSet(FlattenSeq(ss)) : \E i \in 1 .. n : c \in ToSet(ss[i])
<1>1. DOMAIN ss = 1 .. n /\ Len(ss) = n
  <2>1. DOMAIN ss = 1 .. n
    OBVIOUS
  <2>2. ss \in [1 .. n -> ToSet(ss)]
    BY <2>1 DEF ToSet
  <2>3. ss \in Seq(ToSet(ss))
    BY <2>2, SeqDef
  <2> QED
    BY <2>1, <2>3, LenProperties
<1>2. CASE n = 0
  <2>1. FlattenSeq(ss) = ss
    BY <1>1, <1>2 DEF FlattenSeq
  <2>2. ss \in [1 .. n -> {}] /\ ToSet(ss) = {}
    BY <1>1, <1>2 DEF ToSet
  <2>3. CheckList(ss)
    BY <1>2, <2>2, SeqDef DEF CheckList
  <2> QED
    BY <1>1, <1>2, <2>1, <2>2, <2>3 DEF DistinctChecks
<1>3. CASE n # 0
  <2>1. PICK f : Flat(ss, n, f) /\ FlattenSeq(ss) = f[n]
    BY <1>1, <1>3, FlattenIsFlat
  <2> DEFINE Good(m) == /\ CheckList(f[m]) /\ DistinctChecks(f[m])
                        /\ \A c \in ToSet(f[m]) : \E i \in 1 .. m : c \in ToSet(ss[i])
             S == {m \in Nat : m \in 1 .. n => Good(m)}
  <2>2. 0 \in S
    OBVIOUS
  <2>3. ASSUME NEW m \in Nat, m \in S
        PROVE  m + 1 \in S
    <3> SUFFICES ASSUME m + 1 \in 1 .. n
                 PROVE  Good(m + 1)
      OBVIOUS
    <3>1. f[m + 1] = IF m + 1 = 1 THEN ss[m + 1] ELSE f[m + 1 - 1] \o ss[m + 1]
      BY <2>1, FlatStep
    <3>2. CASE m = 0
      BY <3>1, <3>2
    <3>3. CASE m # 0
      <4>1. m \in 1 .. n /\ m + 1 - 1 = m /\ m + 1 # 1
        BY <3>3
      <4>2. Good(m)
        BY <2>3, <4>1
      <4>3. f[m + 1] = f[m] \o ss[m + 1]
        BY <3>1, <4>1
      <4>4. \A x \in ToSet(f[m]), y \in ToSet(ss[m + 1]) : CheckKey(x) # CheckKey(y)
        BY <4>1, <4>2
      <4>5. /\ CheckList(f[m] \o ss[m + 1]) /\ DistinctChecks(f[m] \o ss[m + 1])
            /\ ToSet(f[m] \o ss[m + 1]) \subseteq ToSet(f[m]) \cup ToSet(ss[m + 1])
        BY <4>2, <4>4, JoinChecks
      <4>6. ASSUME NEW c \in ToSet(f[m + 1])
            PROVE  \E i \in 1 .. m + 1 : c \in ToSet(ss[i])
        <5>1. c \in ToSet(f[m]) \/ c \in ToSet(ss[m + 1])
          BY <4>3, <4>5
        <5>2. CASE c \in ToSet(ss[m + 1])
          BY <5>2
        <5>3. CASE c \in ToSet(f[m])
          <6>1. PICK i \in 1 .. m : c \in ToSet(ss[i])
            BY <4>2, <5>3
          <6>2. i \in 1 .. m + 1
            OBVIOUS
          <6> QED
            BY <6>1, <6>2
        <5> QED
          BY <5>1, <5>2, <5>3
      <4> QED
        BY <4>3, <4>5, <4>6
    <3> QED
      BY <3>2, <3>3
  <2> HIDE DEF S
  <2>4. Nat \subseteq S
    BY <2>2, <2>3, InductionOnSet
  <2>5. Good(n)
    BY <1>3, <2>4 DEF S
  <2> QED
    BY <2>1, <2>5
<1> QED
  BY <1>2, <1>3

\* A requirement checks a case from below, from above or both: once each.
LEMMA BoundChecks ==
    ASSUME NEW r, NEW name, NEW value
    PROVE  /\ CheckList(checkBounds(r, name, value)) /\ DistinctChecks(checkBounds(r, name, value))
           /\ \A c \in ToSet(checkBounds(r, name, value)) : c.name = r.name /\ c.case = name
<1> DEFINE low  == buildCheck(r, name, value, effectiveMinimum(r), "lower")
           high == buildCheck(r, name, value, effectiveMaximum(r), "upper")
           T    == {low, high}
           a    == IF Supplied(r.min) THEN <<low>> ELSE <<>>
           b    == IF Supplied(r.max) THEN <<high>> ELSE <<>>
<1>1. /\ low.name = r.name /\ low.case = name /\ low.direction = "lower"
      /\ high.name = r.name /\ high.case = name /\ high.direction = "upper"
  BY DEF buildCheck
<1>2. checkBounds(r, name, value) = a \o b
  BY DEF checkBounds
<1> HIDE DEF low, high
<1>3. CheckList(a) /\ ToSet(a) \subseteq {low} /\ CheckList(b) /\ ToSet(b) \subseteq {high}
  <2>1. a \in Seq({low}) /\ b \in Seq({high})
    <3>1. \A T1 : <<>> \in Seq(T1)
      OBVIOUS
    <3>2. <<low>> \in Seq({low}) /\ <<high>> \in Seq({high})
      OBVIOUS
    <3> QED
      BY <3>1, <3>2
  <2> HIDE DEF a, b
  <2> QED
    BY <2>1, IsCheckList
<1>4. DistinctChecks(a) /\ DistinctChecks(b)
  BY DEF DistinctChecks
<1>5. CheckKey(low) # CheckKey(high)
  BY <1>1 DEF CheckKey
<1> HIDE DEF a, b
<1>6. \A x \in ToSet(a), y \in ToSet(b) : CheckKey(x) # CheckKey(y)
  BY <1>3, <1>5
<1>7. CheckList(a \o b) /\ DistinctChecks(a \o b) /\ ToSet(a \o b) \subseteq ToSet(a) \cup ToSet(b)
  BY <1>3, <1>4, <1>6, JoinChecks
<1> QED
  BY <1>1, <1>2, <1>3, <1>7

LEMMA NoChecks == CheckList(<<>>) /\ DistinctChecks(<<>>) /\ ToSet(<<>>) = {}
<1> DEFINE cs == <<>>
           T  == {}
<1>1. cs \in Seq(T)
  OBVIOUS
<1>2. DistinctChecks(cs)
  BY DEF DistinctChecks
<1> HIDE DEF cs, T
<1>3. CheckList(cs) /\ ToSet(cs) \subseteq T
  BY <1>1, IsCheckList
<1> QED
  BY <1>2, <1>3 DEF cs, T

\* The checks of a requirement, in one case of flight after the other.
LEMMA RequirementChecks ==
    ASSUME NEW d, NamedList(d.cases), NEW r, NEW wing, NEW mission
    PROVE  /\ CheckList(checksOf(d, r, wing, mission)) /\ DistinctChecks(checksOf(d, r, wing, mission))
           /\ \A c \in ToSet(checksOf(d, r, wing, mission)) : c.name = r.name
<1> DEFINE n == Len(d.cases)
           of(i) == checkBounds(r, d.cases[i].name, read(d, r.subject, d.cases[i], wing, mission))
           ss == [i \in 1 .. n |-> IF appliesTo(r, d.cases[i].name) THEN of(i) ELSE <<>>]
<1>1. CASE PerCase(r.subject)
  <2>1. n \in Nat /\ \A i, j \in 1 .. n : d.cases[i].name = d.cases[j].name => i = j
    BY LenProperties DEF NamedList, UniqueNames
  <2>2. checksOf(d, r, wing, mission) = FlattenSeq(ss)
    BY <1>1 DEF checksOf
  <2>3. ASSUME NEW i \in 1 .. n
        PROVE  /\ CheckList(ss[i]) /\ DistinctChecks(ss[i])
               /\ \A c \in ToSet(ss[i]) : c.name = r.name /\ c.case = d.cases[i].name
    <3>1. CASE appliesTo(r, d.cases[i].name)
      <4>1. ss[i] = of(i)
        BY <3>1
      <4> HIDE DEF ss
      <4> QED
        BY <4>1, BoundChecks
    <3>2. CASE ~appliesTo(r, d.cases[i].name)
      <4>1. ss[i] = <<>>
        BY <3>2
      <4> HIDE DEF ss
      <4> QED
        BY <4>1, NoChecks
    <3> QED
      BY <3>1, <3>2
  <2>4. ss = [i \in 1 .. n |-> ss[i]]
    OBVIOUS
  <2> HIDE DEF ss, n
  <2>5. \A i, j \in 1 .. n : \A x \in ToSet(ss[i]), y \in ToSet(ss[j]) : CheckKey(x) = CheckKey(y) => i = j
    BY <2>1, <2>3 DEF CheckKey
  <2>6. /\ CheckList(FlattenSeq(ss)) /\ DistinctChecks(FlattenSeq(ss))
        /\ \A c \in ToSet(FlattenSeq(ss)) : \E i \in 1 .. n : c \in ToSet(ss[i])
    BY <2>1, <2>3, <2>4, <2>5, FlattenChecks
  <2> QED
    BY <2>2, <2>3, <2>6
<1>2. CASE ~PerCase(r.subject)
  <2> DEFINE name  == ""
             value == read(d, r.subject, None, wing, mission)
             cs    == checkBounds(r, name, value)
  <2>1. checksOf(d, r, wing, mission) = cs
    BY <1>2 DEF checksOf
  <2> HIDE DEF name, value
  <2>2. CheckList(cs) /\ DistinctChecks(cs) /\ \A c \in ToSet(cs) : c.name = r.name
    BY BoundChecks
  <2> QED
    BY <2>1, <2>2
<1> QED
  BY <1>1, <1>2

\* No design has two checks of one requirement, case and direction.
LEMMA DesignChecks ==
    ASSUME NEW d, Formed(d)
    PROVE  CheckList(Assess(d)) /\ DistinctChecks(Assess(d))
<1> DEFINE n == Len(d.reqs)
           wing == SolveWing(d.wing)
           mission == MissionAnalysis(d, wing)
           ss == [i \in 1 .. n |-> checksOf(d, d.reqs[i], wing, mission)]
<1>1. NamedList(d.reqs) /\ NamedList(d.cases)
  BY DEF Formed, Lists
<1>2. n \in Nat /\ \A i, j \in 1 .. n : d.reqs[i].name = d.reqs[j].name => i = j
  BY <1>1, LenProperties DEF NamedList, UniqueNames
<1>3. Assess(d) = FlattenSeq(ss)
  BY DEF Assess, assessWing, checksWith
<1> HIDE DEF wing, mission
<1>4. ASSUME NEW i \in 1 .. n
      PROVE  CheckList(ss[i]) /\ DistinctChecks(ss[i]) /\ \A c \in ToSet(ss[i]) : c.name = d.reqs[i].name
  <2>1. ss[i] = checksOf(d, d.reqs[i], wing, mission)
    OBVIOUS
  <2> HIDE DEF ss
  <2> QED
    BY <1>1, <2>1, RequirementChecks
<1>5. ss = [i \in 1 .. n |-> ss[i]]
  OBVIOUS
<1> HIDE DEF ss, n
<1>6. \A i, j \in 1 .. n : \A x \in ToSet(ss[i]), y \in ToSet(ss[j]) : CheckKey(x) = CheckKey(y) => i = j
  BY <1>2, <1>4 DEF CheckKey
<1>7. CheckList(FlattenSeq(ss)) /\ DistinctChecks(FlattenSeq(ss))
  BY <1>2, <1>4, <1>5, <1>6, FlattenChecks
<1> QED
  BY <1>3, <1>7

-----------------------------------------------------------------------------
(***************************************************************************)
(* What a preview tells.                                                   *)
(***************************************************************************)
\* The table diffChecks looks the checks of a list up in.
StatusBy(cs) ==
  [k \in {CheckKey(cs[i]) : i \in DOMAIN cs} |->
     cs[CHOOSE i \in DOMAIN cs : CheckKey(cs[i]) = k /\ \A j \in DOMAIN cs : j > i => CheckKey(cs[j]) # k].status]

LEMMA StatusFound ==
    ASSUME NEW cs, CheckList(cs), DistinctChecks(cs), NEW i \in DOMAIN cs
    PROVE  CheckKey(cs[i]) \in DOMAIN StatusBy(cs) /\ StatusBy(cs)[CheckKey(cs[i])] = cs[i].status
<1> DEFINE k == CheckKey(cs[i])
           P(j) == CheckKey(cs[j]) = k /\ \A m \in DOMAIN cs : m > j => CheckKey(cs[m]) # k
           place == CHOOSE j \in DOMAIN cs : P(j)
<1>1. DOMAIN cs \subseteq Nat
  <2>1. Len(cs) \in Nat /\ DOMAIN cs = 1 .. Len(cs)
    BY CheckListFacts
  <2> QED
    BY <2>1
<1>2. P(i)
  <2>1. ASSUME NEW m \in DOMAIN cs, m > i, CheckKey(cs[m]) = k
        PROVE  FALSE
    <3>1. m = i
      BY <2>1 DEF DistinctChecks
    <3> QED
      BY <1>1, <2>1, <3>1
  <2> QED
    BY <2>1
<1>3. place \in DOMAIN cs /\ P(place)
  BY <1>2
<1>4. place = i
  BY <1>3 DEF DistinctChecks
<1>5. k \in {CheckKey(cs[j]) : j \in DOMAIN cs}
  OBVIOUS
<1>6. StatusBy(cs)[k] = cs[place].status
  BY <1>5 DEF StatusBy
<1>7. DOMAIN StatusBy(cs) = {CheckKey(cs[j]) : j \in DOMAIN cs}
  BY DEF StatusBy
<1> QED
  BY <1>4, <1>5, <1>6, <1>7

\* What the table tells of a list is what there is in it.
LEMMA VerdictsAre ==
    ASSUME NEW cs, CheckList(cs), DistinctChecks(cs)
    PROVE  /\ \A k \in DOMAIN StatusBy(cs) : k = <<k[1], k[2], k[3]>>
           /\ Verdicts(cs) = {<<k[1], k[2], k[3], StatusBy(cs)[k]>> : k \in DOMAIN StatusBy(cs)}
<1> DEFINE was == StatusBy(cs)
           v(k) == <<k[1], k[2], k[3], was[k]>>
<1>1. DOMAIN was = {CheckKey(cs[j]) : j \in DOMAIN cs}
  BY DEF StatusBy
<1>2. \A i \in DOMAIN cs : CheckKey(cs[i]) \in DOMAIN was /\ was[CheckKey(cs[i])] = cs[i].status
  BY StatusFound
<1> HIDE DEF was
<1>3. \A k \in DOMAIN was : k = <<k[1], k[2], k[3]>>
  BY <1>1 DEF CheckKey
<1>4. \A i \in DOMAIN cs : v(CheckKey(cs[i])) = <<cs[i].name, cs[i].case, cs[i].direction, cs[i].status>>
  BY <1>2 DEF CheckKey
<1>5. Verdicts(cs) = {v(CheckKey(cs[i])) : i \in DOMAIN cs}
  BY <1>4 DEF Verdicts
<1> HIDE DEF v
<1>6. {v(CheckKey(cs[i])) : i \in DOMAIN cs} = {v(k) : k \in DOMAIN was}
  BY <1>1
<1> QED
  BY <1>3, <1>5, <1>6 DEF v, was

LEMMA DiffTells ==
    ASSUME NEW before, CheckList(before), DistinctChecks(before),
           NEW after, CheckList(after), DistinctChecks(after)
    PROVE  Tells(diffChecks(before, after), before, after)
<1> DEFINE was == StatusBy(before)
           now == StatusBy(after)
           Changed(k) == ~ (k \in DOMAIN was /\ k \in DOMAIN now /\ was[k] = now[k])
           entry(k) == [key |-> k, from |-> IF k \in DOMAIN was THEN was[k] ELSE "unknown",
                        to |-> IF k \in DOMAIN now THEN now[k] ELSE "unknown",
                        appeared |-> k \notin DOMAIN was, vanished |-> k \notin DOMAIN now]
           Keys == {k \in DOMAIN was \cup DOMAIN now : Changed(k)}
           diff == {entry(k) : k \in Keys}
           v(k, s) == <<k[1], k[2], k[3], s>>
<1>1. diffChecks(before, after) = diff
  BY DEF diffChecks, StatusBy, CheckKey
<1>2. /\ \A k \in DOMAIN was : k = <<k[1], k[2], k[3]>>
      /\ Verdicts(before) = {v(k, was[k]) : k \in DOMAIN was}
  BY VerdictsAre
<1>3. /\ \A k \in DOMAIN now : k = <<k[1], k[2], k[3]>>
      /\ Verdicts(after) = {v(k, now[k]) : k \in DOMAIN now}
  BY VerdictsAre
<1> HIDE DEF was, now
<1>4. \A k : v(k, was[k])[1] = k[1] /\ v(k, was[k])[2] = k[2] /\ v(k, was[k])[3] = k[3]
  OBVIOUS
<1>5. \A k : entry(k).key = k /\ (entry(k).vanished <=> k \notin DOMAIN now)
             /\ (k \in DOMAIN now => entry(k).to = now[k])
  OBVIOUS
<1> HIDE DEF entry
<1>6. \A k \in DOMAIN was : (\A x \in diff : x.key # k) <=> ~Changed(k)
  BY <1>5
<1>7. {u \in Verdicts(before) : \A x \in diff : x.key # <<u[1], u[2], u[3]>>}
        = {v(k, was[k]) : k \in {j \in DOMAIN was : ~Changed(j)}}
  <2> DEFINE Kept(u) == \A x \in diff : x.key # <<u[1], u[2], u[3]>>
  <2>1. \A k \in DOMAIN was : Kept(v(k, was[k])) <=> ~Changed(k)
    BY <1>2, <1>4, <1>6
  <2> HIDE DEF Kept, v, Changed
  <2>2. {u \in Verdicts(before) : Kept(u)} = {v(k, was[k]) : k \in {j \in DOMAIN was : ~Changed(j)}}
    BY <1>2, <2>1
  <2> QED
    BY <2>2 DEF Kept
<1>8. {v(y.key, y.to) : y \in {z \in diff : ~z.vanished}} = {v(k, now[k]) : k \in {j \in DOMAIN now : Changed(j)}}
  <2> HIDE DEF v
  <2> QED
    BY <1>5
<1>9. {v(k, was[k]) : k \in {j \in DOMAIN was : ~Changed(j)}} = {v(k, now[k]) : k \in {j \in DOMAIN now : ~Changed(j)}}
  <2> HIDE DEF v
  <2> QED
    OBVIOUS
<1>10. Verdicts(after) = {v(k, now[k]) : k \in {j \in DOMAIN now : ~Changed(j)}}
                           \cup {v(k, now[k]) : k \in {j \in DOMAIN now : Changed(j)}}
  <2> HIDE DEF v, Changed
  <2> QED
    BY <1>3
<1>11. Verdicts(after) = {u \in Verdicts(before) : \A x \in diff : x.key # <<u[1], u[2], u[3]>>}
                            \cup {v(y.key, y.to) : y \in {z \in diff : ~z.vanished}}
  BY <1>7, <1>8, <1>9, <1>10
<1> QED
  BY <1>1, <1>11 DEF Tells

\* The list of changes a preview shows is the whole difference between the checks
\* before the edit and after it: for every design, and for every command.
THEOREM PreviewIsExactAlways == Spec => []PreviewIsExact
<1>1. HistoryInv => PreviewIsExact
  <2> SUFFICES ASSUME HistoryInv, NEW c \in scenario.commands, apply(Design, c).issues = {}
               PROVE  Tells(diffChecks(Assess(Design), Assess(apply(Design, c).v)),
                            Assess(Design), Assess(apply(Design, c).v))
    BY DEF PreviewIsExact
  <2>1. Sound(Design, scenario.start) /\ Len(history) \in Nat
    BY LenProperties DEF HistoryInv, Design
  <2>2. c.op \in Ops /\ (c.op \in PutOps => "name" \in DOMAIN c.item)
    BY ScenariosAssumption DEF HistoryInv
  <2>3. Sound(apply(Design, c).v, scenario.start)
    BY <2>1, <2>2, ApplySound
  <2>4. Formed(Design) /\ Formed(apply(Design, c).v)
    BY <2>1, <2>3 DEF Sound
  <2> QED
    BY <2>4, DesignChecks, DiffTells
<1>2. Spec => []HistoryInv
  BY InitHistory, NextHistory, PTL DEF Spec
<1> QED
  BY <1>1, <1>2, PTL
(***************************************************************************)
(* The greatest common divisor: the recursive function there is.           *)
(***************************************************************************)
\* Euclid's algorithm for divisors up to m.
Euclid(m, f) == \A b \in 0 .. m : \A a \in Nat : f[b][a] = IF b = 0 THEN a ELSE f[a % b][b]

LEMMA Division ==
    ASSUME NEW a \in Int, NEW b \in Int, b > 0
    PROVE  a = b * (a \div b) + (a % b)
  BY SMTT(20)

LEMMA Remainder ==
    ASSUME NEW a \in Nat, NEW b \in Nat \ {0}
    PROVE  a % b \in 0 .. b - 1 /\ a = b * (a \div b) + (a % b) /\ a \div b \in Nat
<1>1. a % b \in 0 .. b - 1
  OBVIOUS
<1>2. a = b * (a \div b) + (a % b)
  BY Division
<1>3. a \div b \in Nat
  OBVIOUS
<1> QED
  BY <1>1, <1>2, <1>3

LEMMA EuclidExists ==
    ASSUME NEW n \in Nat
    PROVE  \E f : Euclid(n, f)
<1> DEFINE S == {m \in Nat : \E f : Euclid(m, f)}
<1>1. 0 \in S
  <2> DEFINE f == [b \in 0 .. 0 |-> [a \in Nat |-> a]]
  <2>1. Euclid(0, f)
    BY DEF Euclid
  <2> QED
    BY <2>1
<1>2. ASSUME NEW m \in Nat, m \in S
      PROVE  m + 1 \in S
  <2>1. PICK f : Euclid(m, f)
    BY <1>2
  <2> DEFINE last == [a \in Nat |-> f[a % (m + 1)][m + 1]]
             g    == [b \in 0 .. m + 1 |-> IF b = m + 1 THEN last ELSE f[b]]
  <2>2. ASSUME NEW b \in 0 .. m
        PROVE  g[b] = f[b]
    <3>1. b \in 0 .. m + 1 /\ b # m + 1
      OBVIOUS
    <3> QED
      BY <3>1
  <2>3. \A a \in Nat : g[m + 1][a] = f[a % (m + 1)][m + 1]
    OBVIOUS
  <2> HIDE DEF g
  <2>4. ASSUME NEW a \in Nat, NEW b \in 0 .. m + 1
        PROVE  g[b][a] = IF b = 0 THEN a ELSE g[a % b][b]
    <3>1. CASE b = m + 1
      <4>1. a % b \in 0 .. m /\ b # 0
        BY <3>1, Remainder
      <4>2. g[a % b] = f[a % b]
        BY <2>2, <4>1
      <4> QED
        BY <2>3, <3>1, <4>1, <4>2
    <3>2. CASE b # m + 1
      <4>1. b \in 0 .. m
        BY <3>2
      <4>2. g[b] = f[b] /\ f[b][a] = IF b = 0 THEN a ELSE f[a % b][b]
        BY <2>1, <2>2, <4>1 DEF Euclid
      <4>3. ASSUME b # 0
            PROVE  g[a % b] = f[a % b]
        <5>1. a % b \in 0 .. m
          BY <4>1, <4>3, Remainder
        <5> QED
          BY <2>2, <5>1
      <4> QED
        BY <4>2, <4>3
    <3> QED
      BY <3>1, <3>2
  <2>5. Euclid(m + 1, g)
    BY <2>4 DEF Euclid
  <2> QED
    BY <2>5
<1> HIDE DEF S
<1>3. Nat \subseteq S
  BY <1>1, <1>2, InductionOnSet
<1> QED
  BY <1>3 DEF S

LEMMA EuclidAgrees ==
    ASSUME NEW m \in Nat, NEW f, Euclid(m, f), NEW k \in Nat, NEW g, Euclid(k, g), m <= k,
           NEW a \in Nat, NEW b \in 0 .. m
    PROVE  f[b][a] = g[b][a]
<1> DEFINE S == {j \in Nat : j <= m => \A y \in 0 .. j : \A x \in Nat : f[y][x] = g[y][x]}
<1>1. 0 \in S
  <2>1. ASSUME NEW y \in 0 .. 0, NEW x \in Nat
        PROVE  f[y][x] = g[y][x]
    <3>1. y = 0 /\ y \in 0 .. m /\ y \in 0 .. k
      OBVIOUS
    <3> QED
      BY <3>1 DEF Euclid
  <2> QED
    BY <2>1
<1>2. ASSUME NEW j \in Nat, j \in S
      PROVE  j + 1 \in S
  <2> SUFFICES ASSUME j + 1 <= m, NEW y \in 0 .. j + 1, NEW x \in Nat
               PROVE  f[y][x] = g[y][x]
    OBVIOUS
  <2>1. \A v \in 0 .. j : \A u \in Nat : f[v][u] = g[v][u]
    BY <1>2
  <2>2. CASE y \in 0 .. j
    BY <2>1, <2>2
  <2>3. CASE y = j + 1
    <3>1. y \in 0 .. m /\ y \in 0 .. k /\ y # 0 /\ y \in Nat /\ x % y \in 0 .. j
      BY <2>3, Remainder
    <3>2. f[y][x] = f[x % y][y] /\ g[y][x] = g[x % y][y]
      BY <3>1 DEF Euclid
    <3> QED
      BY <2>1, <3>1, <3>2
  <2> QED
    BY <2>2, <2>3
<1> HIDE DEF S
<1>3. Nat \subseteq S
  BY <1>1, <1>2, InductionOnSet
<1>4. m \in S
  BY <1>3
<1> QED
  BY <1>4 DEF S

LEMMA GcdStep ==
    ASSUME NEW a \in Nat, NEW b \in Nat
    PROVE  gcd[b][a] = IF b = 0 THEN a ELSE gcd[a % b][b]
<1> DEFINE F(m)  == CHOOSE f : Euclid(m, f)
           G     == [y \in Nat |-> [x \in Nat |-> F(y)[y][x]]]
           Step(f) == [y \in Nat |-> [x \in Nat |-> IF y = 0 THEN x ELSE f[x % y][y]]]
           h == Step(G)
<1>1. \A m \in Nat : Euclid(m, F(m))
  BY EuclidExists
<1>2. \A x, y \in Nat : G[y][x] = F(y)[y][x]
  OBVIOUS
<1>3. \A x, y \in Nat : h[y][x] = IF y = 0 THEN x ELSE G[x % y][y]
  OBVIOUS
<1>4. \A y \in Nat : G[y] = [x \in Nat |-> G[y][x]] /\ h[y] = [x \in Nat |-> h[y][x]]
  OBVIOUS
<1>5. G = [y \in Nat |-> G[y]] /\ h = [y \in Nat |-> h[y]]
  OBVIOUS
<1> HIDE DEF F, G, h
<1>6. ASSUME NEW x \in Nat, NEW y \in Nat
      PROVE  G[y][x] = h[y][x]
  <2>1. y \in 0 .. y
    OBVIOUS
  <2>2. G[y][x] = IF y = 0 THEN x ELSE F(y)[x % y][y]
    BY <1>1, <1>2, <2>1 DEF Euclid
  <2>3. ASSUME y # 0
        PROVE  F(y)[x % y][y] = G[x % y][y]
    <3>1. x % y \in Nat /\ x % y <= y /\ x % y \in 0 .. x % y
      BY <2>3, Remainder
    <3>2. F(x % y)[x % y][y] = F(y)[x % y][y]
      BY <1>1, <3>1, EuclidAgrees
    <3> QED
      BY <1>2, <3>1, <3>2
  <2> QED
    BY <1>3, <2>2, <2>3
<1>7. ASSUME NEW y \in Nat
      PROVE  G[y] = h[y]
  BY <1>4, <1>6
<1>8. G = h
  BY <1>5, <1>7
<1>9. gcd = CHOOSE f : f = Step(f)
  BY DEF gcd
<1> HIDE DEF Step
<1>10. gcd = Step(gcd)
  BY <1>8, <1>9 DEF h
<1>11. Step(gcd)[b][a] = IF b = 0 THEN a ELSE gcd[a % b][b]
  BY DEF Step
<1> QED
  BY <1>10, <1>11

\* It is positive, and it divides both.
LEMMA GcdDivides ==
    ASSUME NEW n \in Nat, NEW d \in Nat \ {0}
    PROVE  /\ gcd[d][n] \in Nat \ {0}
           /\ \E p \in Nat : n = gcd[d][n] * p
           /\ \E q \in Nat \ {0} : d = gcd[d][n] * q
<1> DEFINE Divides(g, x) == \E q \in Nat : x = g * q
           Good(a, b) == gcd[b][a] \in Nat \ {0} /\ Divides(gcd[b][a], a) /\ Divides(gcd[b][a], b)
           S == {j \in Nat : \A y \in 0 .. j : \A x \in Nat : x # 0 \/ y # 0 => Good(x, y)}
<1>1. 0 \in S
  <2>1. ASSUME NEW x \in Nat, x # 0
        PROVE  Good(x, 0)
    <3>1. gcd[0][x] = x
      BY GcdStep
    <3>2. x = x * 1 /\ 0 = x * 0
      OBVIOUS
    <3> QED
      BY <2>1, <3>1, <3>2
  <2> HIDE DEF Good
  <2> QED
    BY <2>1
<1>2. ASSUME NEW j \in Nat, j \in S
      PROVE  j + 1 \in S
  <2>1. ASSUME NEW x \in Nat
        PROVE  Good(x, j + 1)
    <3> DEFINE y == j + 1
               r == x % y
               g == gcd[r][y]
    <3>1. y \in Nat \ {0} /\ r \in 0 .. j /\ x = y * (x \div y) + r /\ x \div y \in Nat
      <4>1. y \in Nat \ {0} /\ 0 .. y - 1 = 0 .. j
        OBVIOUS
      <4> HIDE DEF y
      <4> QED
        BY <4>1, Remainder
    <3>2. gcd[y][x] = g
      BY <3>1, GcdStep
    <3>3. Good(y, r)
      BY <1>2, <3>1
    <3> HIDE DEF y, r
    <3>4. PICK p \in Nat, q \in Nat : y = g * p /\ r = g * q
      BY <3>3
    <3>5. g \in Nat \ {0}
      BY <3>3
    <3> HIDE DEF g
    <3> DEFINE u == x \div y
    <3> HIDE DEF u
    <3>6. p * u \in Nat /\ p * u + q \in Nat /\ u \in Nat
      BY <3>1 DEF u
    <3>7. x = g * (p * u + q)
      <4>1. x = (g * p) * u + g * q
        BY <3>1, <3>4 DEF u
      <4>2. (g * p) * u + g * q = g * (p * u + q)
        BY <3>5, <3>6
      <4> QED
        BY <4>1, <4>2
    <3>8. Divides(g, x)
      BY <3>6, <3>7
    <3>9. Divides(g, y)
      BY <3>4
    <3> QED
      BY <3>2, <3>5, <3>8, <3>9 DEF y
  <2> HIDE DEF Good
  <2>2. \A y \in 0 .. j + 1 : y \in 0 .. j \/ y = j + 1
    OBVIOUS
  <2> QED
    BY <1>2, <2>1, <2>2
<1> HIDE DEF S
<1>3. Nat \subseteq S
  BY <1>1, <1>2, InductionOnSet
<1>4. Good(n, d)
  <2>1. d \in S /\ d \in 0 .. d
    BY <1>3
  <2> HIDE DEF Good
  <2> QED
    BY <2>1 DEF S
<1>5. PICK q \in Nat : d = gcd[d][n] * q
  BY <1>4
<1>6. q # 0
  BY <1>4, <1>5
<1> QED
  BY <1>4, <1>5, <1>6

(***************************************************************************)
(* Rational numbers as the model keeps them: what Q makes of a quotient,   *)
(* and what the operators do to the quotients that numbers stand for.      *)
(***************************************************************************)
Positive == Nat \ {0}
\* The number x is n/d.
Worth(x, n, d) == x \in Number /\ x[1] * d = n * x[2]

LEMMA Cancel ==
    ASSUME NEW u \in Int, NEW v \in Int, NEW k \in Positive
    PROVE  (u * k = v * k => u = v) /\ (u * k <= v * k <=> u <= v)
  BY DEF Positive

LEMMA PositiveProduct ==
    ASSUME NEW m \in Positive, NEW n \in Positive
    PROVE  m * n \in Positive
  BY DEF Positive

LEMMA PositiveFactor ==
    ASSUME NEW n \in Int, NEW k \in Positive
    PROVE  (n * k > 0 <=> n > 0) /\ (k * n > 0 <=> n > 0)
  BY DEF Positive

LEMMA ExactQuotient ==
    ASSUME NEW g \in Positive, NEW q \in Int, NEW n \in Int, n = g * q
    PROVE  n \div g = q
  BY SMTT(60) DEF Positive

LEMMA LowestTerms ==
    ASSUME NEW n \in Int, NEW d \in Positive
    PROVE  \E p \in Int, q \in Positive, g \in Positive : Q(n, d) = <<p, q>> /\ n = g * p /\ d = g * q
<1>1. CASE n = 0
  <2>1. Q(n, d) = <<0, 1>> /\ n = d * 0 /\ d = d * 1 /\ 1 \in Positive
    BY <1>1 DEF Q, Positive
  <2> QED
    BY <2>1
<1>2. CASE n # 0
  <2> DEFINE a == Abs(n)
             g == gcd[d][a]
  <2>1. a \in Nat /\ (n < 0 => n = -a) /\ (~ (n < 0) => n = a)
    BY DEF Abs
  <2>2. /\ g \in Positive /\ \E p \in Nat : a = g * p /\ \E q \in Positive : d = g * q
    BY <2>1, GcdDivides DEF Positive
  <2>3. PICK p \in Nat, q \in Positive : a = g * p /\ d = g * q
    BY <2>2
  <2>4. Q(n, d) = <<n \div g, d \div g>>
    BY <1>2 DEF Q, Lowest, Positive
  <2> HIDE DEF a, g
  <2>5. d \div g = q
    BY <2>2, <2>3, ExactQuotient DEF Positive
  <2>6. CASE n < 0
    <3>1. n = g * (-p) /\ -p \in Int
      BY <2>1, <2>2, <2>3, <2>6 DEF Positive
    <3>2. n \div g = -p
      BY <2>2, <3>1, ExactQuotient
    <3> QED
      BY <2>2, <2>3, <2>4, <2>5, <3>1, <3>2
  <2>7. CASE ~ (n < 0)
    <3>1. n = g * p /\ p \in Int
      BY <2>1, <2>3, <2>7
    <3>2. n \div g = p
      BY <2>2, <3>1, ExactQuotient
    <3> QED
      BY <2>2, <2>3, <2>4, <2>5, <3>1, <3>2
  <2> QED
    BY <2>6, <2>7
<1> QED
  BY <1>1, <1>2

LEMMA QuotientWorth ==
    ASSUME NEW n \in Int, NEW d \in Positive
    PROVE  Worth(Q(n, d), n, d) /\ (Q(n, d)[1] > 0 <=> n > 0)
<1>1. PICK p \in Int, q \in Positive, g \in Positive : Q(n, d) = <<p, q>> /\ n = g * p /\ d = g * q
  BY LowestTerms
<1>2. p * (g * q) = (g * p) * q
  BY DEF Positive
<1>3. n > 0 <=> p > 0
  BY <1>1, PositiveFactor
<1>4. <<p, q>> \in Number
  BY DEF Number, Positive
<1> QED
  BY <1>1, <1>2, <1>3, <1>4 DEF Worth

LEMMA NumberParts ==
    ASSUME NEW x \in Number
    PROVE  /\ x[1] \in Int /\ x[2] \in Positive /\ x[2] \in Int /\ x # <<>> /\ x # <<0, 0>>
           /\ Worth(x, x[1], x[2])
  BY DEF Number, Positive, Worth

LEMMA LeqWorth ==
    ASSUME NEW x, NEW n \in Int, NEW d \in Positive, Worth(x, n, d),
           NEW y, NEW m \in Int, NEW e \in Positive, Worth(y, m, e)
    PROVE  Leq(x, y) <=> n * e <= m * d
<1> DEFINE a == x[1]
           b == x[2]
           u == y[1]
           v == y[2]
<1>1. /\ a \in Int /\ b \in Positive /\ u \in Int /\ v \in Positive
      /\ a * d = n * b /\ u * e = m * v
  BY NumberParts DEF Worth
<1>2. Leq(x, y) <=> a * v <= u * b
  BY DEF Leq
<1> HIDE DEF a, b, u, v
<1>3. d * e \in Positive /\ b * v \in Positive
  BY <1>1, PositiveProduct
<1>4. (a * v) * (d * e) = (n * e) * (b * v)
  <2>1. (a * v) * (d * e) = (a * d) * (v * e)
    BY <1>1 DEF Positive
  <2>2. (n * b) * (v * e) = (n * e) * (b * v)
    BY <1>1 DEF Positive
  <2> QED
    BY <1>1, <2>1, <2>2
<1>5. (u * b) * (d * e) = (m * d) * (b * v)
  <2>1. (u * b) * (d * e) = (u * e) * (b * d)
    BY <1>1 DEF Positive
  <2>2. (m * v) * (b * d) = (m * d) * (b * v)
    BY <1>1 DEF Positive
  <2> QED
    BY <1>1, <2>1, <2>2
<1>6. a * v \in Int /\ u * b \in Int /\ n * e \in Int /\ m * d \in Int
  BY <1>1 DEF Positive
<1>7. a * v <= u * b <=> (a * v) * (d * e) <= (u * b) * (d * e)
  BY <1>3, <1>6, Cancel
<1>8. n * e <= m * d <=> (n * e) * (b * v) <= (m * d) * (b * v)
  BY <1>3, <1>6, Cancel
<1> QED
  BY <1>2, <1>4, <1>5, <1>7, <1>8

\* A quotient worth of a worth is worth what it says.
LEMMA Through ==
    ASSUME NEW z, NEW p \in Int, NEW q \in Positive, Worth(z, p, q),
           NEW n \in Int, NEW d \in Positive, p * d = n * q
    PROVE  Worth(z, n, d)
<1> DEFINE a == z[1]
           b == z[2]
<1>1. a \in Int /\ b \in Positive /\ a * q = p * b
  BY NumberParts DEF Worth
<1>2. SUFFICES a * d = n * b
  BY DEF Worth
<1> HIDE DEF a, b
<1>3. (a * d) * q = (n * b) * q
  <2>1. (a * d) * q = (a * q) * d
    BY <1>1 DEF Positive
  <2>2. (p * b) * d = (p * d) * b
    BY <1>1 DEF Positive
  <2>3. (n * q) * b = (n * b) * q
    BY <1>1 DEF Positive
  <2> QED
    BY <1>1, <2>1, <2>2, <2>3
<1>4. a * d \in Int /\ n * b \in Int
  BY <1>1 DEF Positive
<1> QED
  BY <1>3, <1>4, Cancel

LEMMA MulWorth ==
    ASSUME NEW x, NEW n \in Int, NEW d \in Positive, Worth(x, n, d),
           NEW y, NEW m \in Int, NEW e \in Positive, Worth(y, m, e)
    PROVE  Worth(Mul(x, y), n * m, d * e)
<1> DEFINE a == x[1]
           b == x[2]
           u == y[1]
           v == y[2]
<1>1. /\ a \in Int /\ b \in Positive /\ u \in Int /\ v \in Positive
      /\ a * d = n * b /\ u * e = m * v
  BY NumberParts DEF Worth
<1>2. Mul(x, y) = Q(a * u, b * v)
  BY DEF Mul
<1> HIDE DEF a, b, u, v
<1>3. a * u \in Int /\ n * m \in Int /\ b * v \in Positive /\ d * e \in Positive
  BY <1>1, PositiveProduct
<1>4. Worth(Q(a * u, b * v), a * u, b * v)
  BY <1>3, QuotientWorth
<1>5. (a * u) * (d * e) = (n * m) * (b * v)
  <2>1. (a * u) * (d * e) = (a * d) * (u * e)
    BY <1>1 DEF Positive
  <2>2. (n * b) * (m * v) = (n * m) * (b * v)
    BY <1>1 DEF Positive
  <2> QED
    BY <1>1, <2>1, <2>2
<1> QED
  BY <1>2, <1>3, <1>4, <1>5, Through

LEMMA DivWorth ==
    ASSUME NEW x, NEW n \in Int, NEW d \in Positive, Worth(x, n, d),
           NEW y, NEW m \in Positive, NEW e \in Positive, Worth(y, m, e)
    PROVE  Worth(Div(x, y), n * e, d * m)
<1> DEFINE a == x[1]
           b == x[2]
           u == y[1]
           v == y[2]
<1>1. /\ a \in Int /\ b \in Positive /\ u \in Int /\ v \in Positive
      /\ a * d = n * b /\ u * e = m * v
  BY NumberParts DEF Worth
<1>2. Div(x, y) = Q(a * v, b * u)
  BY DEF Div
<1> HIDE DEF a, b, u, v
<1>3. u \in Positive
  <2>1. u * e > 0
    BY <1>1, PositiveProduct DEF Positive
  <2>2. u > 0
    BY <1>1, <2>1, PositiveFactor
  <2> QED
    BY <1>1, <2>2 DEF Positive
<1>4. a * v \in Int /\ n * e \in Int /\ b * u \in Positive /\ d * m \in Positive
  BY <1>1, <1>3, PositiveProduct DEF Positive
<1>5. Worth(Q(a * v, b * u), a * v, b * u)
  BY <1>4, QuotientWorth
<1>6. (a * v) * (d * m) = (n * e) * (b * u)
  <2>1. (a * v) * (d * m) = (a * d) * (m * v)
    BY <1>1 DEF Positive
  <2>2. (n * b) * (u * e) = (n * e) * (b * u)
    BY <1>1 DEF Positive
  <2> QED
    BY <1>1, <2>1, <2>2
<1> QED
  BY <1>2, <1>4, <1>5, <1>6, Through


\* A number above zero: what a quantity or a ratio must be to be read.
Magnitude == {x \in Number : x[1] > 0}

LEMMA MagnitudeWorth ==
    ASSUME NEW x \in Magnitude
    PROVE  x \in Number /\ x[1] \in Positive /\ x[2] \in Positive /\ Worth(x, x[1], x[2])
  BY NumberParts DEF Magnitude, Positive

LEMMA IsMagnitude ==
    ASSUME NEW x, NEW n \in Positive, NEW d \in Positive, Worth(x, n, d)
    PROVE  x \in Magnitude
<1> DEFINE a == x[1]
           b == x[2]
<1>1. x \in Number /\ a \in Int /\ b \in Positive /\ a * d = n * b
  BY NumberParts DEF Worth
<1> HIDE DEF a, b
<1>2. a * d > 0
  BY <1>1, PositiveProduct DEF Positive
<1>3. a > 0
  BY <1>1, <1>2, PositiveFactor
<1> QED
  BY <1>1, <1>3 DEF Magnitude, a

LEMMA ConstantNumbers ==
    /\ Zero \in Number /\ One \in Magnitude /\ Int1(2) \in Magnitude
    /\ \A n \in Positive, d \in Positive : Q(n, d) \in Magnitude
<1>1. Zero \in Number /\ One \in Magnitude /\ Int1(2) \in Magnitude
  BY DEF Zero, One, Int1, Number, Magnitude, Positive
<1>2. ASSUME NEW n \in Positive, NEW d \in Positive
      PROVE  Q(n, d) \in Magnitude
  BY QuotientWorth, IsMagnitude DEF Positive
<1> QED
  BY <1>1, <1>2

LEMMA NumberOperations ==
    ASSUME NEW x \in Number, NEW y \in Number
    PROVE  /\ Add(x, y) \in Number /\ Sub(x, y) \in Number /\ Mul(x, y) \in Number
           /\ Half(x) \in Number /\ Sq(x) \in Number
<1> DEFINE a == x[1]
           b == x[2]
           u == y[1]
           v == y[2]
<1>1. a \in Int /\ b \in Positive /\ u \in Int /\ v \in Positive /\ 2 \in Positive
  BY NumberParts DEF Positive
<1>2. /\ Add(x, y) = Q(a * v + u * b, b * v) /\ Sub(x, y) = Q(a * v - u * b, b * v)
      /\ Mul(x, y) = Q(a * u, b * v) /\ Half(x) = Q(a, 2 * b) /\ Sq(x) = Q(a * a, b * b)
  BY DEF Add, Sub, Mul, Half, Sq
<1> HIDE DEF a, b, u, v
<1>3. b * v \in Positive /\ 2 * b \in Positive /\ b * b \in Positive
  BY <1>1, PositiveProduct
<1>4. a * v \in Int /\ u * b \in Int /\ a * u \in Int /\ a * a \in Int
  BY <1>1 DEF Positive
<1>5. a * v + u * b \in Int /\ a * v - u * b \in Int
  BY <1>4
<1>6. \A n \in Int, d \in Positive : Q(n, d) \in Number
  BY QuotientWorth DEF Worth
<1> QED
  BY <1>1, <1>2, <1>3, <1>4, <1>5, <1>6

LEMMA MagnitudeOperations ==
    ASSUME NEW x \in Magnitude, NEW y \in Magnitude
    PROVE  /\ Mul(x, y) \in Magnitude /\ Add(x, y) \in Magnitude
           /\ Half(x) \in Magnitude /\ Sq(x) \in Magnitude
<1> DEFINE a == x[1]
           b == x[2]
           u == y[1]
           v == y[2]
<1>1. a \in Positive /\ b \in Positive /\ u \in Positive /\ v \in Positive /\ 2 \in Positive
  BY MagnitudeWorth DEF Positive
<1>2. /\ Add(x, y) = Q(a * v + u * b, b * v)
      /\ Mul(x, y) = Q(a * u, b * v) /\ Half(x) = Q(a, 2 * b) /\ Sq(x) = Q(a * a, b * b)
  BY DEF Add, Mul, Half, Sq
<1> HIDE DEF a, b, u, v
<1>3. /\ b * v \in Positive /\ 2 * b \in Positive /\ b * b \in Positive
      /\ a * v \in Positive /\ u * b \in Positive /\ a * u \in Positive /\ a * a \in Positive
  BY <1>1, PositiveProduct
<1>4. a * v + u * b \in Positive
  BY <1>3 DEF Positive
<1> QED
  BY <1>1, <1>2, <1>3, <1>4, ConstantNumbers

LEMMA QuotientNumber ==
    ASSUME NEW x \in Number, NEW y \in Magnitude
    PROVE  /\ Div(x, y) \in Number
           /\ x \in Magnitude => Div(x, y) \in Magnitude
<1> DEFINE a == x[1]
           b == x[2]
           u == y[1]
           v == y[2]
<1>1. a \in Int /\ b \in Positive /\ u \in Positive /\ v \in Positive
  BY NumberParts, MagnitudeWorth
<1>2. Div(x, y) = Q(a * v, b * u)
  BY DEF Div
<1>3. x \in Magnitude => a \in Positive
  BY MagnitudeWorth
<1> HIDE DEF a, b, u, v
<1>4. a * v \in Int /\ b * u \in Positive /\ (a \in Positive => a * v \in Positive)
  BY <1>1, PositiveProduct DEF Positive
<1>5. \A n \in Int, d \in Positive : Q(n, d) \in Number
  BY QuotientWorth DEF Worth
<1> QED
  BY <1>2, <1>3, <1>4, <1>5, ConstantNumbers

\* What the reading operators ask of a quantity and of a ratio.
LEMMA ReadQuantity ==
    ASSUME NEW q \in Quantity, quantity(q) = {}
    PROVE  q \in Magnitude
<1>1. q # None /\ ~ (q[1] <= 0)
  BY DEF quantity, Supplied
<1>2. q # Wrong
  BY <1>1 DEF Wrong
<1>3. q \in Number
  BY <1>1, <1>2 DEF Quantity
<1>4. q[1] \in Int
  BY <1>3, NumberParts
<1> QED
  BY <1>1, <1>3, <1>4 DEF Magnitude

LEMMA ReadScalar ==
    ASSUME NEW v \in Number, scalar(v) = {}
    PROVE  v \in Magnitude
<1>1. ~ (v[1] <= 0) /\ v[1] \in Int
  BY NumberParts DEF scalar
<1> QED
  BY <1>1 DEF Magnitude

LEMMA Finished ==
    ASSUME NEW issues, NEW v, finish(issues, v).issues = {}
    PROVE  issues = {} /\ finish(issues, v).v = v /\ ~ (v[1] <= 0)
  BY DEF finish, Fail, Ok

LEMMA FinishedNumber ==
    ASSUME NEW issues, NEW v \in Number, finish(issues, v).issues = {}
    PROVE  finish(issues, v).v \in Magnitude
<1>1. finish(issues, v).v = v /\ ~ (v[1] <= 0) /\ v[1] \in Int
  BY Finished, NumberParts
<1> QED
  BY <1>1 DEF Magnitude

\* The integer root there is, and the root of a number.
LEMMA RootExists ==
    ASSUME NEW n \in Nat
    PROVE  /\ Root(n) \in 0 .. n
           /\ n \in Positive => Root(n) \in Positive
<1> DEFINE P(r) == r * r <= n /\ n < (r + 1) * (r + 1)
           T    == {r \in Nat : n < (r + 1) * (r + 1)}
<1>1. n \in T
  <2>1. (n + 1) * (n + 1) = n * n + 2 * n + 1
    OBVIOUS
  <2>2. n * n >= 0
    OBVIOUS
  <2> QED
    BY <2>1, <2>2
<1>2. PICK r \in T : \A s \in T : r <= s
  <2>1. T \subseteq Nat /\ T # {}
    BY <1>1
  <2> HIDE DEF T
  <2> QED
    BY <2>1, LeastNumber
<1>3. r \in 0 .. n
  BY <1>1, <1>2
<1>4. r * r <= n
  <2>1. CASE r = 0
    BY <2>1
  <2>2. CASE r # 0
    <3>1. r - 1 \in Nat /\ r - 1 \notin T
      BY <1>2, <1>3, <2>2
    <3>2. ~ (n < (r - 1 + 1) * (r - 1 + 1))
      BY <3>1
    <3>3. r - 1 + 1 = r /\ r * r \in Int
      BY <1>3
    <3> QED
      BY <3>2, <3>3
  <2> QED
    BY <2>1, <2>2
<1>5. P(r)
  BY <1>2, <1>4
<1> HIDE DEF P
<1>6. Root(n) \in 0 .. n /\ P(Root(n))
  BY <1>3, <1>5 DEF Root, P
<1>7. ASSUME Root(n) = 0
      PROVE  ~ (n > 0)
  BY <1>6, <1>7 DEF P
<1> QED
  BY <1>6, <1>7 DEF Positive

LEMMA RootNumber ==
    ASSUME NEW x \in Magnitude
    PROVE  SqrtQ(x) \in Magnitude
<1>1. /\ x[1] \in Positive /\ x[2] \in Positive /\ x[1] \in Nat /\ x[2] \in Nat
  BY MagnitudeWorth DEF Positive
<1>2. Root(x[1]) \in Positive /\ Root(x[2]) \in Positive
  BY <1>1, RootExists
<1> QED
  BY <1>2, ConstantNumbers DEF SqrtQ

\* A sum over a list of numbers.
LEMMA SumNumber ==
    ASSUME NEW n \in Nat, NEW s, Len(s) = n, \A i \in 1 .. n : s[i] \in Number
    PROVE  SumQ(s) \in Number
<1> DEFINE Sums(m, f) == f = [i \in 0 .. m |-> IF i = 0 THEN Zero ELSE Add(f[i - 1], s[i])]
           S == {m \in Nat : \E f : Sums(m, f)}
           F == CHOOSE f : Sums(n, f)
           G == {m \in Nat : m <= n => F[m] \in Number}
<1>1. 0 \in S
  <2> DEFINE f == [i \in 0 .. 0 |-> Zero]
  <2>1. f = [i \in 0 .. 0 |-> IF i = 0 THEN Zero ELSE Add(f[i - 1], s[i])]
    OBVIOUS
  <2> QED
    BY <2>1
<1>2. ASSUME NEW m \in Nat, m \in S
      PROVE  m + 1 \in S
  <2>1. PICK f : Sums(m, f)
    BY <1>2
  <2>2. \A i \in 0 .. m : f[i] = IF i = 0 THEN Zero ELSE Add(f[i - 1], s[i])
    <3> DEFINE h == [i \in 0 .. m |-> IF i = 0 THEN Zero ELSE Add(f[i - 1], s[i])]
    <3>1. f = h
      BY <2>1
    <3>2. \A i \in 0 .. m : h[i] = IF i = 0 THEN Zero ELSE Add(f[i - 1], s[i])
      OBVIOUS
    <3> HIDE DEF h
    <3> QED
      BY <3>1, <3>2
  <2> DEFINE g == [i \in 0 .. m + 1 |-> IF i = m + 1 THEN Add(f[m], s[m + 1]) ELSE f[i]]
  <2>3. g = [i \in 0 .. m + 1 |-> g[i]]
    OBVIOUS
  <2>4. \A i \in 0 .. m : g[i] = f[i]
    OBVIOUS
  <2>5. g[m + 1] = Add(f[m], s[m + 1])
    OBVIOUS
  <2> HIDE DEF g
  <2>6. ASSUME NEW i \in 0 .. m + 1
        PROVE  g[i] = IF i = 0 THEN Zero ELSE Add(g[i - 1], s[i])
    <3>1. CASE i = m + 1
      <4>1. i - 1 = m /\ m \in 0 .. m /\ i # 0
        BY <3>1
      <4> QED
        BY <2>4, <2>5, <3>1, <4>1
    <3>2. CASE i # m + 1
      <4>1. i \in 0 .. m /\ (i # 0 => i - 1 \in 0 .. m)
        BY <3>2
      <4> QED
        BY <2>2, <2>4, <4>1
    <3> QED
      BY <3>1, <3>2
  <2>7. Sums(m + 1, g)
    BY <2>3, <2>6
  <2> QED
    BY <2>7
<1> HIDE DEF S
<1>3. Nat \subseteq S
  BY <1>1, <1>2, InductionOnSet
<1>4. Sums(n, F)
  BY <1>3 DEF S
<1>5. SumQ(s) = F[n]
  BY DEF SumQ
<1>6. \A i \in 0 .. n : F[i] = IF i = 0 THEN Zero ELSE Add(F[i - 1], s[i])
  <2> DEFINE h == [i \in 0 .. n |-> IF i = 0 THEN Zero ELSE Add(F[i - 1], s[i])]
  <2>1. F = h
    BY <1>4
  <2> HIDE DEF F
  <2>2. \A i \in 0 .. n : h[i] = IF i = 0 THEN Zero ELSE Add(F[i - 1], s[i])
    OBVIOUS
  <2> HIDE DEF h
  <2> QED
    BY <2>1, <2>2
<1> HIDE DEF F, Sums
<1>7. 0 \in G
  BY <1>6, ConstantNumbers
<1>8. ASSUME NEW m \in Nat, m \in G
      PROVE  m + 1 \in G
  <2> SUFFICES ASSUME m + 1 <= n
               PROVE  F[m + 1] \in Number
    OBVIOUS
  <2>1. m + 1 \in 0 .. n /\ m + 1 # 0 /\ m + 1 - 1 = m /\ m + 1 \in 1 .. n /\ m <= n
    OBVIOUS
  <2>2. F[m + 1] = Add(F[m], s[m + 1])
    BY <1>6, <2>1
  <2>3. F[m] \in Number /\ s[m + 1] \in Number
    BY <1>8, <2>1
  <2> QED
    BY <2>2, <2>3, NumberOperations
<1> HIDE DEF G
<1>9. Nat \subseteq G
  BY <1>7, <1>8, InductionOnSet
<1>10. n \in G
  BY <1>9
<1> QED
  BY <1>5, <1>10 DEF G

-----------------------------------------------------------------------------
(***************************************************************************)
(* A quotient depends on what it is worth only, and numbers are ordered.   *)
(***************************************************************************)
LEMMA PositiveInt == Positive \subseteq Int
  BY DEF Positive

LEMMA RemainderIs ==
    ASSUME NEW n \in Nat, NEW d \in Positive, NEW q \in Nat, NEW r \in 0 .. d - 1, n = d * q + r
    PROVE  n % d = r
<1> DEFINE p == n \div d
           s == n % d
<1>1. s \in 0 .. d - 1 /\ n = d * p + s /\ p \in Nat
  BY Remainder DEF Positive
<1> HIDE DEF p, s
<1>2. ASSUME NEW x \in Nat, NEW y \in Nat, NEW u \in 0 .. d - 1, NEW v \in 0 .. d - 1,
             d * x + u = d * y + v
      PROVE  ~(x < y)
  <2> SUFFICES ASSUME x < y
               PROVE  FALSE
    OBVIOUS
  <2>1. PICK k \in Nat : y = x + 1 + k
    <3>1. y - x - 1 \in Nat /\ y = x + 1 + (y - x - 1)
      OBVIOUS
    <3> QED
      BY <3>1
  <2>2. d * y = d * x + d + d * k /\ d * k >= 0
    BY <2>1 DEF Positive
  <2> DEFINE a == d * x
             b == d * y
             c == d * k
  <2>3. a \in Int /\ b \in Int /\ c \in Int /\ b = a + d + c /\ c >= 0 /\ a + u = b + v /\ d \in Int
    BY <1>2, <2>2 DEF Positive
  <2> HIDE DEF a, b, c
  <2> QED
    BY <2>3
<1>3. p = q
  <2>1. ~(p < q) /\ ~(q < p)
    BY <1>1, <1>2
  <2> QED
    BY <1>1, <2>1
<1>4. d * p \in Int
  BY <1>1 DEF Positive
<1>5. s = r
  BY <1>1, <1>3, <1>4
<1> QED
  BY <1>5 DEF s

LEMMA ScaledRemainder ==
    ASSUME NEW a \in Nat, NEW b \in Positive, NEW k \in Positive
    PROVE  (k * a) % (k * b) = k * (a % b)
<1> DEFINE q == a \div b
           r == a % b
<1>1. r \in 0 .. b - 1 /\ a = b * q + r /\ q \in Nat
  BY Remainder DEF Positive
<1> HIDE DEF q, r
<1>2. k * a = (k * b) * q + k * r
  BY <1>1 DEF Positive
<1>3. k * b \in Positive /\ k * a \in Nat
  BY PositiveProduct DEF Positive
<1>4. k * r \in 0 .. k * b - 1
  <2>1. k * r + k <= k * b
    <3>1. r \in Int /\ (r + 1) * k <= b * k <=> r + 1 <= b
      BY <1>1, Cancel DEF Positive
    <3>2. (r + 1) * k = k * r + k /\ b * k = k * b
      BY <1>1 DEF Positive
    <3>3. (r + 1) * k <= b * k
      BY <1>1, <3>1 DEF Positive
    <3> DEFINE x == k * r
               y == k * b
    <3>4. x + k <= y
      BY <3>2, <3>3
    <3> QED
      BY <3>4
  <2>2. k * r \in Nat
    BY <1>1 DEF Positive
  <2> QED
    BY <1>3, <2>1, <2>2 DEF Positive
<1> DEFINE n == k * a
           d == k * b
           s == k * r
<1>5. n \in Nat /\ d \in Positive /\ s \in 0 .. d - 1 /\ n = d * q + s
  BY <1>2, <1>3, <1>4
<1> HIDE DEF n, d, s
<1>6. n % d = s
  BY <1>1, <1>5, RemainderIs
<1> QED
  BY <1>6 DEF n, d, s, r

LEMMA GcdScale ==
    ASSUME NEW k \in Positive, NEW b \in Nat, NEW a \in Nat
    PROVE  gcd[k * b][k * a] = k * gcd[b][a]
<1> DEFINE S == {m \in Nat : \A y \in 0 .. m : \A x \in Nat : gcd[k * y][k * x] = k * gcd[y][x]}
<1>1. 0 \in S
  <2>1. ASSUME NEW y \in 0 .. 0, NEW x \in Nat
        PROVE  gcd[k * y][k * x] = k * gcd[y][x]
    <3>1. y = 0 /\ k * y = 0 /\ k * x \in Nat
      BY DEF Positive
    <3>2. gcd[0][k * x] = k * x /\ gcd[0][x] = x
      BY <3>1, GcdStep
    <3> QED
      BY <3>1, <3>2
  <2> QED
    BY <2>1
<1>2. ASSUME NEW m \in Nat, m \in S
      PROVE  m + 1 \in S
  <2>1. ASSUME NEW y \in 0 .. m + 1, NEW x \in Nat
        PROVE  gcd[k * y][k * x] = k * gcd[y][x]
    <3>1. CASE y \in 0 .. m
      BY <1>2, <3>1
    <3>2. CASE y = m + 1
      <4>1. y \in Positive /\ y # 0 /\ y \in Nat /\ x % y \in 0 .. m /\ x % y \in Nat
        BY <3>2, Remainder DEF Positive
      <4>2. k * y \in Nat /\ k * y # 0 /\ k * x \in Nat
        BY <4>1, PositiveProduct DEF Positive
      <4>3. gcd[k * y][k * x] = gcd[(k * x) % (k * y)][k * y]
        BY <4>2, GcdStep
      <4>4. (k * x) % (k * y) = k * (x % y)
        BY <4>1, ScaledRemainder
      <4>5. gcd[k * (x % y)][k * y] = k * gcd[x % y][y]
        BY <1>2, <4>1
      <4>6. gcd[y][x] = gcd[x % y][y]
        BY <4>1, GcdStep
      <4> QED
        BY <4>3, <4>4, <4>5, <4>6
    <3> QED
      BY <3>1, <3>2
  <2> QED
    BY <2>1
<1> HIDE DEF S
<1>3. Nat \subseteq S
  BY <1>1, <1>2, InductionOnSet
<1>4. b \in S /\ b \in 0 .. b
  BY <1>3
<1> QED
  BY <1>4 DEF S

LEMMA QuotientScale ==
    ASSUME NEW n \in Int, NEW d \in Positive, NEW k \in Positive
    PROVE  Q(k * n, k * d) = Q(n, d)
<1>1. CASE n = 0
  <2>1. k * n = 0
    BY <1>1 DEF Positive
  <2> QED
    BY <1>1, <2>1 DEF Q
<1>2. CASE n # 0
  <2> DEFINE a == Abs(n)
             g == gcd[d][a]
             m == k * n
             e == k * d
             h == k * g
  <2>1. a \in Nat /\ (n < 0 => n = -a) /\ (~ (n < 0) => n = a)
    BY DEF Abs
  <2>2. /\ g \in Positive /\ \E p \in Nat : a = g * p /\ \E q \in Positive : d = g * q
    BY <2>1, GcdDivides DEF Positive
  <2>3. PICK p \in Nat, q \in Positive : a = g * p /\ d = g * q
    BY <2>2
  <2>4. m \in Int /\ e \in Positive /\ Abs(m) = k * a /\ m # 0
    <3>1. m \in Int /\ (m < 0 <=> n < 0) /\ m # 0
      BY <1>2 DEF Positive
    <3>2. n < 0 => -m = k * a
      BY <2>1 DEF Positive
    <3>3. ~ (n < 0) => m = k * a
      BY <2>1
    <3> HIDE DEF m
    <3> QED
      BY <3>1, <3>2, <3>3, PositiveProduct DEF Abs
  <2>5. gcd[e][k * a] = h
    BY <2>1, GcdScale DEF Positive
  <2>6. Q(n, d) = <<n \div g, d \div g>>
    BY <1>2 DEF Q, Lowest, Positive
  <2>7. Q(m, e) = <<m \div h, e \div h>>
    <3> HIDE DEF m, e, h, a, g
    <3>1. ~ (e < 0)
      BY <2>4 DEF Positive
    <3> QED
      BY <2>4, <2>5, <3>1 DEF Q, Lowest
  <2>8. h \in Positive
    BY <2>2, PositiveProduct
  <2>9. \E z \in Int : n = g * z /\ m = h * z
    <3>1. CASE n < 0
      <4> DEFINE z == -p
      <4>1. z \in Int /\ n = g * z
        BY <2>1, <2>2, <2>3, <3>1 DEF Positive
      <4> HIDE DEF z, g, a
      <4>2. k * (g * z) = (k * g) * z
        BY <2>2, <4>1 DEF Positive
      <4> QED
        BY <4>1, <4>2
    <3>2. CASE ~ (n < 0)
      <4>1. p \in Int /\ n = g * p
        BY <2>1, <2>3, <3>2
      <4> HIDE DEF g, a
      <4>2. k * (g * p) = (k * g) * p
        BY <2>2, <4>1 DEF Positive
      <4> QED
        BY <4>1, <4>2
    <3> QED
      BY <3>1, <3>2
  <2>10. e = h * q
    <3> HIDE DEF g, a
    <3>1. k * (g * q) = (k * g) * q
      BY <2>2, <2>3 DEF Positive
    <3> QED
      BY <2>3, <3>1
  <2>11. PICK z \in Int : n = g * z /\ m = h * z
    BY <2>9
  <2> HIDE DEF a, g, m, e, h
  <2>12. n \div g = z /\ m \div h = z
    BY <2>2, <2>4, <2>8, <2>11, ExactQuotient
  <2>13. d \div g = q /\ e \div h = q
    BY <2>2, <2>3, <2>4, <2>8, <2>10, ExactQuotient, PositiveInt
  <2> QED
    BY <2>6, <2>7, <2>12, <2>13 DEF m, e
<1> QED
  BY <1>1, <1>2

LEMMA SameQuotient ==
    ASSUME NEW n \in Int, NEW d \in Positive, NEW m \in Int, NEW e \in Positive, n * e = m * d
    PROVE  Q(n, d) = Q(m, e)
<1>1. Q(e * n, e * d) = Q(n, d) /\ Q(d * m, d * e) = Q(m, e)
  BY QuotientScale
<1>2. e * n = d * m /\ e * d = d * e
  BY DEF Positive
<1> QED
  BY <1>1, <1>2

\* Numbers in lowest terms are the same when they are worth the same.
Reduced(x) == x \in Number /\ x = Q(x[1], x[2])

LEMMA QuotientReduced ==
    ASSUME NEW n \in Int, NEW d \in Positive
    PROVE  Reduced(Q(n, d))
<1> DEFINE x == Q(n, d)
           a == x[1]
           b == x[2]
<1>1. x \in Number /\ a * d = n * b
  BY QuotientWorth DEF Worth
<1>2. a \in Int /\ b \in Positive
  BY <1>1, NumberParts
<1> HIDE DEF a, b
<1>3. Q(a, b) = x
  BY <1>1, <1>2, SameQuotient
<1> QED
  BY <1>1, <1>3 DEF Reduced, a, b

LEMMA SameWorth ==
    ASSUME NEW x, Reduced(x), NEW y, Reduced(y), NEW n \in Int, NEW d \in Positive, Worth(x, n, d), Worth(y, n, d)
    PROVE  x = y
<1> DEFINE a == x[1]
           b == x[2]
           u == y[1]
           v == y[2]
<1>1. /\ a \in Int /\ b \in Positive /\ u \in Int /\ v \in Positive
      /\ a * d = n * b /\ u * d = n * v /\ x = Q(a, b) /\ y = Q(u, v)
  BY NumberParts DEF Worth, Reduced
<1> HIDE DEF a, b, u, v
<1>2. Q(a, b) = Q(n, d) /\ Q(u, v) = Q(n, d)
  BY <1>1, SameQuotient
<1> QED
  BY <1>1, <1>2

LEMMA OperationsReduced ==
    ASSUME NEW x \in Number, NEW y \in Number
    PROVE  Reduced(Mul(x, y)) /\ (y \in Magnitude => Reduced(Div(x, y)))
<1>1. /\ x[1] \in Int /\ x[2] \in Positive /\ y[1] \in Int /\ y[2] \in Positive
      /\ (y \in Magnitude => y[1] \in Positive)
  BY NumberParts, MagnitudeWorth
<1>2. x[1] * y[1] \in Int /\ x[2] * y[2] \in Positive
  BY <1>1, PositiveProduct
<1>3. ASSUME y \in Magnitude
      PROVE  x[1] * y[2] \in Int /\ x[2] * y[1] \in Positive
  <2> DEFINE a == x[1]
             b == x[2]
             u == y[1]
             v == y[2]
  <2>1. a \in Int /\ b \in Positive /\ u \in Positive /\ v \in Positive
    BY <1>1, <1>3
  <2> HIDE DEF a, b, u, v
  <2>2. a * v \in Int /\ b * u \in Positive
    BY <2>1, PositiveProduct, PositiveInt
  <2> QED
    BY <2>2 DEF a, b, u, v
<1> QED
  BY <1>2, <1>3, QuotientReduced DEF Mul, Div

\* What is divided and multiplied by the same is what it was.
LEMMA ThereAndBack ==
    ASSUME NEW a \in Magnitude, Reduced(a), NEW c \in Magnitude
    PROVE  Mul(Div(a, c), c) = a /\ Mul(a, One) = a
<1> DEFINE p == a[1]
           q == a[2]
           u == c[1]
           v == c[2]
           x == Div(a, c)
           y == Mul(x, c)
<1>1. /\ p \in Positive /\ q \in Positive /\ u \in Positive /\ v \in Positive
      /\ Worth(a, p, q) /\ Worth(c, u, v) /\ a \in Number /\ c \in Number
  BY MagnitudeWorth
<1>2. x = Div(a, c) /\ y = Mul(x, c)
  OBVIOUS
<1> HIDE DEF p, q, u, v, x, y
<1>3. p \in Int /\ u \in Int /\ p * v \in Int /\ q * u \in Positive
  BY <1>1, PositiveInt, PositiveProduct
<1>4. Worth(x, p * v, q * u)
  BY <1>1, <1>2, <1>3, DivWorth
<1>5. Worth(y, (p * v) * u, (q * u) * v)
  BY <1>1, <1>2, <1>3, <1>4, MulWorth
<1>6. (p * v) * u \in Int /\ (q * u) * v \in Positive
  BY <1>1, <1>3, PositiveProduct
<1>7. Worth(y, p, q)
  <2>1. ((p * v) * u) * q = p * ((q * u) * v)
    BY <1>1, <1>3, PositiveInt
  <2> QED
    BY <1>1, <1>3, <1>5, <1>6, <2>1, Through
<1>8. Reduced(y)
  <2>1. x \in Number
    BY <1>4 DEF Worth
  <2> QED
    BY <1>1, <1>2, <2>1, OperationsReduced
<1>9. y = a
  BY <1>1, <1>3, <1>7, <1>8, SameWorth
<1>10. Mul(a, One) = a
  <2>1. Mul(a, One) = Q(a[1] * 1, a[2] * 1)
    BY DEF Mul, One, Int1
  <2>2. p * 1 = p /\ q * 1 = q
    BY <1>1, PositiveInt
  <2> QED
    BY <2>1, <2>2 DEF Reduced, p, q
<1> QED
  BY <1>2, <1>9, <1>10

LEMMA InOrder ==
    ASSUME NEW x \in Number, NEW y \in Number
    PROVE  (~Less(x, y) <=> Leq(y, x)) /\ (Less(x, y) => Leq(x, y)) /\ Leq(x, x)
<1>1. x[1] \in Int /\ x[2] \in Int /\ y[1] \in Int /\ y[2] \in Int
  BY NumberParts
<1>2. x[1] * y[2] \in Int /\ y[1] * x[2] \in Int /\ x[1] * x[2] \in Int
  BY <1>1
<1> QED
  BY <1>2 DEF Less, Leq

LEMMA Transitive ==
    ASSUME NEW x \in Number, NEW y \in Number, NEW z \in Number, Leq(x, y), Leq(y, z)
    PROVE  Leq(x, z)
<1> DEFINE a == x[1]
           b == x[2]
           c == y[1]
           d == y[2]
           e == z[1]
           f == z[2]
<1>1. /\ a \in Int /\ b \in Positive /\ c \in Int /\ d \in Positive /\ e \in Int /\ f \in Positive
      /\ a * d <= c * b /\ c * f <= e * d /\ (Leq(x, z) <=> a * f <= e * b)
  BY NumberParts DEF Leq
<1> HIDE DEF a, b, c, d, e, f
<1>2. a * d \in Int /\ c * b \in Int /\ c * f \in Int /\ e * d \in Int /\ a * f \in Int /\ e * b \in Int
  BY <1>1, PositiveInt
<1>3. (a * d) * f <= (c * b) * f /\ (c * f) * b <= (e * d) * b
  BY <1>1, <1>2, Cancel
<1>4. (a * d) * f = (a * f) * d /\ (c * b) * f = (c * f) * b /\ (e * d) * b = (e * b) * d
  BY <1>1, PositiveInt
<1>5. (a * f) * d <= (e * b) * d
  <2>1. (a * f) * d \in Int /\ (c * f) * b \in Int /\ (e * b) * d \in Int
    BY <1>1, <1>2, PositiveInt
  <2> QED
    BY <1>3, <1>4, <2>1
<1> QED
  BY <1>1, <1>2, <1>5, Cancel

-----------------------------------------------------------------------------
(***************************************************************************)
(* What a wing is solved to.                                               *)
(***************************************************************************)
LEMMA OkFacts ==
    ASSUME NEW v
    PROVE  Ok(v).issues = {} /\ Ok(v).v = v
  BY DEF Ok

LEMMA TogetherPair ==
    ASSUME NEW a, NEW b
    PROVE  /\ Together(<<a, b>>).v[1] = a.v /\ Together(<<a, b>>).v[2] = b.v
           /\ Together(<<a, b>>).issues = {} => a.issues = {} /\ b.issues = {}
<1> DEFINE rs == <<a, b>>
<1>1. DOMAIN rs = {1, 2} /\ rs[1] = a /\ rs[2] = b
  OBVIOUS
<1> HIDE DEF rs
<1>2. Together(rs).v = [k \in {1, 2} |-> rs[k].v] /\ Together(rs).issues = UNION {rs[k].issues : k \in {1, 2}}
  BY <1>1 DEF Together
<1> QED
  BY <1>1, <1>2 DEF rs

LEMMA PairOfKeys ==
    ASSUME NEW S, S \subseteq {"span", "area", "aspect", "root"}, IsFiniteSet(S), Cardinality(S) = 2
    PROVE  S \in {{"span", "area"}, {"span", "aspect"}, {"area", "aspect"}, {"span", "root"},
                  {"area", "root"}, {"aspect", "root"}}
<1>1. S # {}
  BY FS_EmptySet
<1>2. PICK a : a \in S
  BY <1>1
<1>3. IsFiniteSet(S \ {a}) /\ Cardinality(S \ {a}) = 1
  BY <1>2, FS_RemoveElement
<1>4. PICK b : S \ {a} = {b}
  BY <1>3, FS_Singleton
<1>5. S = {a, b} /\ a # b /\ a \in {"span", "area", "aspect", "root"} /\ b \in {"span", "area", "aspect", "root"}
  BY <1>2, <1>4
<1> QED
  BY <1>5

LEMMA TaperSolved ==
    ASSUME NEW d, MeasuredDrivers(d), resolveTaper(d).issues = {}
    PROVE  resolveTaper(d).v \in Number
<1>1. /\ d.shape \in {"rectangle", "trapezoid", "unknown"} /\ d.taper \in Number /\ One \in Number
  BY ConstantNumbers DEF MeasuredDrivers, Magnitude
<1> QED
  BY <1>1 DEF resolveTaper, Ok, Fail

\* The pair the drivers are solved by, and the taper.
LEMMA PathSolved ==
    ASSUME NEW d, MeasuredDrivers(d), solvePath(d).issues = {}
    PROVE  /\ solvePath(d).v.taper \in Number
           /\ solvePath(d).v.mode \in {{"span", "area"}, {"span", "aspect"}, {"area", "aspect"}, {"span", "root"},
                                       {"area", "root"}, {"aspect", "root"}}
<1> DEFINE t  == resolveTaper(d)
           m  == resolveMode(d, IF t.issues = {} THEN t.v ELSE Zero)
           rs == [taper |-> t, mode |-> m]
<1>1. solvePath(d) = Together(rs)
  BY DEF solvePath, pathAt
<1>2. DOMAIN rs = {"taper", "mode"} /\ rs.taper = t /\ rs.mode = m
  OBVIOUS
<1> HIDE DEF rs, t, m
<1>3. t.issues = {} /\ m.issues = {} /\ solvePath(d).v.taper = t.v /\ solvePath(d).v.mode = m.v
  BY <1>1, <1>2 DEF Together
<1>4. t.v \in Number
  BY <1>3, TaperSolved DEF t
<1>5. Cardinality(suppliedDrivers(d)) = 2 /\ m.v = suppliedDrivers(d)
  BY <1>3 DEF m, resolveMode, Fail, Ok
<1>6. suppliedDrivers(d) \subseteq {"span", "area", "aspect", "root"} /\ IsFiniteSet(suppliedDrivers(d))
  BY DriverFacts
<1> QED
  BY <1>3, <1>4, <1>5, <1>6, PairOfKeys

\* The size equations give magnitudes of magnitudes.
LEMMA SizeEquations ==
    ASSUME NEW x \in Quantity, NEW y \in Quantity, NEW a \in Number, NEW l \in Number
    PROVE  /\ spanFromAreaAndAspect(x, a).issues = {} => spanFromAreaAndAspect(x, a).v \in Magnitude
           /\ areaFromSpanAndAspect(x, a).issues = {} => areaFromSpanAndAspect(x, a).v \in Magnitude
           /\ areaFromSpanAndRootChord(x, y, l).issues = {} => areaFromSpanAndRootChord(x, y, l).v \in Magnitude
           /\ spanFromAreaAndRootChord(x, y, l).issues = {} => spanFromAreaAndRootChord(x, y, l).v \in Magnitude
           /\ spanFromAspectAndRootChord(a, y, l).issues = {} => spanFromAspectAndRootChord(a, y, l).v \in Magnitude
<1>1. ASSUME spanFromAreaAndAspect(x, a).issues = {}
      PROVE  spanFromAreaAndAspect(x, a).v \in Magnitude
  <2>1. /\ quantity(x) = {} /\ scalar(a) = {} /\ spanFromAreaAndAspect(x, a).v = SqrtQ(Mul(a, x))
    BY <1>1, Finished DEF spanFromAreaAndAspect
  <2>2. x \in Magnitude /\ a \in Magnitude
    BY <2>1, ReadQuantity, ReadScalar
  <2> QED
    BY <2>1, <2>2, MagnitudeOperations, RootNumber
<1>2. ASSUME areaFromSpanAndAspect(x, a).issues = {}
      PROVE  areaFromSpanAndAspect(x, a).v \in Magnitude
  <2>1. /\ quantity(x) = {} /\ scalar(a) = {} /\ areaFromSpanAndAspect(x, a).v = Div(Sq(x), a)
    BY <1>2, Finished DEF areaFromSpanAndAspect
  <2>2. x \in Magnitude /\ a \in Magnitude
    BY <2>1, ReadQuantity, ReadScalar
  <2>3. Sq(x) \in Magnitude /\ Sq(x) \in Number
    BY <2>2, MagnitudeOperations DEF Magnitude
  <2> QED
    BY <2>1, <2>2, <2>3, QuotientNumber
<1>3. ASSUME areaFromSpanAndRootChord(x, y, l).issues = {}
      PROVE  areaFromSpanAndRootChord(x, y, l).v \in Magnitude
  <2>1. /\ quantity(x) = {} /\ quantity(y) = {} /\ scalar(l) = {}
        /\ areaFromSpanAndRootChord(x, y, l).v = Half(Mul(Mul(x, y), Add(One, l)))
    BY <1>3, Finished DEF areaFromSpanAndRootChord
  <2>2. x \in Magnitude /\ y \in Magnitude /\ l \in Magnitude /\ One \in Magnitude
    BY <2>1, ReadQuantity, ReadScalar, ConstantNumbers
  <2>3. Mul(x, y) \in Magnitude /\ Add(One, l) \in Magnitude
    BY <2>2, MagnitudeOperations
  <2>4. Mul(Mul(x, y), Add(One, l)) \in Magnitude
    BY <2>3, MagnitudeOperations
  <2> QED
    BY <2>1, <2>4, MagnitudeOperations
<1>4. ASSUME spanFromAreaAndRootChord(x, y, l).issues = {}
      PROVE  spanFromAreaAndRootChord(x, y, l).v \in Magnitude
  <2>1. /\ quantity(x) = {} /\ quantity(y) = {} /\ scalar(l) = {}
        /\ spanFromAreaAndRootChord(x, y, l).v = Div(Mul(Int1(2), x), Mul(y, Add(One, l)))
    BY <1>4, Finished DEF spanFromAreaAndRootChord
  <2>2. x \in Magnitude /\ y \in Magnitude /\ l \in Magnitude /\ One \in Magnitude /\ Int1(2) \in Magnitude
    BY <2>1, ReadQuantity, ReadScalar, ConstantNumbers
  <2>3. Add(One, l) \in Magnitude /\ Mul(Int1(2), x) \in Magnitude
    BY <2>2, MagnitudeOperations
  <2>4. Mul(y, Add(One, l)) \in Magnitude /\ Mul(Int1(2), x) \in Number
    BY <2>2, <2>3, MagnitudeOperations DEF Magnitude
  <2> QED
    BY <2>1, <2>3, <2>4, QuotientNumber
<1>5. ASSUME spanFromAspectAndRootChord(a, y, l).issues = {}
      PROVE  spanFromAspectAndRootChord(a, y, l).v \in Magnitude
  <2>1. /\ scalar(a) = {} /\ quantity(y) = {} /\ scalar(l) = {}
        /\ spanFromAspectAndRootChord(a, y, l).v = Half(Mul(Mul(a, y), Add(One, l)))
    BY <1>5, Finished DEF spanFromAspectAndRootChord
  <2>2. a \in Magnitude /\ y \in Magnitude /\ l \in Magnitude /\ One \in Magnitude
    BY <2>1, ReadQuantity, ReadScalar, ConstantNumbers
  <2>3. Mul(a, y) \in Magnitude /\ Add(One, l) \in Magnitude
    BY <2>2, MagnitudeOperations
  <2>4. Mul(Mul(a, y), Add(One, l)) \in Magnitude
    BY <2>3, MagnitudeOperations
  <2> QED
    BY <2>1, <2>4, MagnitudeOperations
<1> QED
  BY <1>1, <1>2, <1>3, <1>4, <1>5

LEMMA MagnitudeIsQuantity == Magnitude \subseteq Quantity
  BY DEF Magnitude, Quantity

\* Whichever pair drives it, the span and the area a path comes to are quantities.
LEMMA SizeSolved ==
    ASSUME NEW d, MeasuredDrivers(d), NEW l \in Number, NEW a, NEW b,
           NEW mode \in {{"span", "area"}, {"span", "aspect"}, {"area", "aspect"}, {"span", "root"},
                         {"area", "root"}, {"aspect", "root"}},
           solveSize(d, mode, l) = <<a, b>>, a.issues = {}, b.issues = {}
    PROVE  a.v \in Quantity /\ b.v \in Quantity
<1>1. d.span \in Quantity /\ d.area \in Quantity /\ d.root \in Quantity /\ d.aspect \in Number
  BY DEF MeasuredDrivers
<1>2. CASE mode = {"span", "area"}
  <2>1. a = Ok(d.span) /\ b = Ok(d.area)
    BY <1>2 DEF solveSize
  <2> QED
    BY <1>1, <2>1, OkFacts
<1>3. CASE mode = {"span", "aspect"}
  <2>1. a = Ok(d.span) /\ b = areaFromSpanAndAspect(d.span, d.aspect)
    BY <1>3 DEF solveSize
  <2> QED
    BY <1>1, <2>1, OkFacts, SizeEquations, MagnitudeIsQuantity
<1>4. CASE mode = {"area", "aspect"}
  <2>1. a = spanFromAreaAndAspect(d.area, d.aspect) /\ b = Ok(d.area)
    BY <1>4 DEF solveSize
  <2> QED
    BY <1>1, <2>1, OkFacts, SizeEquations, MagnitudeIsQuantity
<1>5. CASE mode = {"span", "root"}
  <2>1. a = Ok(d.span) /\ b = areaFromSpanAndRootChord(d.span, d.root, l)
    BY <1>5 DEF solveSize
  <2> QED
    BY <1>1, <2>1, OkFacts, SizeEquations, MagnitudeIsQuantity
<1>6. CASE mode = {"area", "root"}
  <2>1. a = spanFromAreaAndRootChord(d.area, d.root, l) /\ b = Ok(d.area)
    BY <1>6 DEF solveSize
  <2> QED
    BY <1>1, <2>1, OkFacts, SizeEquations, MagnitudeIsQuantity
<1>7. CASE mode = {"aspect", "root"}
  <2>1. a = spanFromAspectAndRootChord(d.aspect, d.root, l) /\ b = areaFromSpanAndAspect(a.v, d.aspect)
    BY <1>7 DEF solveSize
  <2>2. a.v \in Quantity
    BY <1>1, <2>1, SizeEquations, MagnitudeIsQuantity
  <2> QED
    BY <1>1, <2>1, <2>2, SizeEquations, MagnitudeIsQuantity
<1> QED
  BY <1>2, <1>3, <1>4, <1>5, <1>6, <1>7

\* Nothing is derived from a span or an area that is not above zero.
LEMMA CompletedFrom ==
    ASSUME NEW d, NEW span, NEW area, NEW l, completeFrom(d, span, area, l).issues = {}
    PROVE  /\ quantity(span) = {} /\ quantity(area) = {}
           /\ completeFrom(d, span, area, l).v.span = span /\ completeFrom(d, span, area, l).v.area = area
<1> DEFINE own == Together([aspect |-> IF d.aspect # Zero THEN Ok(d.aspect) ELSE aspectRatio(span, area),
                            root   |-> IF Supplied(d.root) THEN Ok(d.root) ELSE rootChord(area, span, l)])
           cs == [tip |-> tipChord(own.v.root, l), mean |-> meanChord(area, span),
                  mac |-> meanAerodynamicChord(own.v.root, l), ymac |-> macStation(span, l)]
           c == Together(cs)
           p == [span |-> span, area |-> area, aspect |-> own.v.aspect, root |-> own.v.root, taper |-> l,
                 tip |-> c.v.tip, mean |-> c.v.mean, mac |-> c.v.mac, ymac |-> c.v.ymac]
<1>1. completeFrom(d, span, area, l)
        = IF own.issues # {} THEN Fail(own.issues) ELSE IF c.issues # {} THEN Fail(c.issues) ELSE Ok(p)
  BY DEF completeFrom, Then
<1>2. p.span = span /\ p.area = area
  OBVIOUS
<1>3. "mean" \in DOMAIN cs /\ cs.mean = meanChord(area, span)
  OBVIOUS
<1> HIDE DEF own, cs, p
<1>4. c.issues = UNION {cs[k].issues : k \in DOMAIN cs}
  BY DEF Together
<1> HIDE DEF c
<1>5. c.issues = {} /\ completeFrom(d, span, area, l) = Ok(p)
  BY <1>1 DEF Fail
<1>6. meanChord(area, span).issues = {}
  BY <1>3, <1>4, <1>5
<1>7. quantity(area) = {} /\ quantity(span) = {}
  BY <1>6, Finished DEF meanChord
<1> QED
  BY <1>2, <1>5, <1>7, OkFacts

LEMMA PlanformSolved ==
    ASSUME NEW d, MeasuredDrivers(d), SolvePlanform(d).issues = {}
    PROVE  SolvePlanform(d).v.span \in Magnitude /\ SolvePlanform(d).v.area \in Magnitude
<1> DEFINE path == solvePath(d)
           sizes == solveSize(d, path.v.mode, path.v.taper)
           size == Together(sizes)
           out  == completeFrom(d, size.v[1], size.v[2], path.v.taper)
<1>1. SolvePlanform(d) = IF path.issues # {} THEN Fail(path.issues)
                         ELSE IF size.issues # {} THEN Fail(size.issues) ELSE out
  BY DEF SolvePlanform, Then
<1> HIDE DEF path, size, out
<1>2. path.issues = {} /\ size.issues = {} /\ SolvePlanform(d) = out
  BY <1>1 DEF Fail
<1>3. /\ path.v.taper \in Number
      /\ path.v.mode \in {{"span", "area"}, {"span", "aspect"}, {"area", "aspect"}, {"span", "root"},
                          {"area", "root"}, {"aspect", "root"}}
  BY <1>2, PathSolved DEF path
<1>4. \E a, b : sizes = <<a, b>>
  <2> DEFINE mode == path.v.mode
  <2> HIDE DEF mode
  <2>1. mode \in {{"span", "area"}, {"span", "aspect"}, {"area", "aspect"}, {"span", "root"},
                  {"area", "root"}, {"aspect", "root"}}
    BY <1>3 DEF mode
  <2>2. \E a, b : solveSize(d, mode, path.v.taper) = <<a, b>>
    BY <2>1 DEF solveSize
  <2> QED
    BY <2>2 DEF mode
<1>5. PICK a, b : sizes = <<a, b>>
  BY <1>4
<1>6. size.v[1] = a.v /\ size.v[2] = b.v /\ a.issues = {} /\ b.issues = {}
  BY <1>2, <1>5, TogetherPair DEF size
<1>7. a.v \in Quantity /\ b.v \in Quantity
  BY <1>3, <1>5, <1>6, SizeSolved
<1>8. quantity(a.v) = {} /\ quantity(b.v) = {} /\ SolvePlanform(d).v.span = a.v /\ SolvePlanform(d).v.area = b.v
  BY <1>2, <1>6, CompletedFrom DEF out
<1> QED
  BY <1>7, <1>8, ReadQuantity

LEMMA CosineNumber ==
    ASSUME NEW w
    PROVE  cosDihedral(w) \in Magnitude
  BY ConstantNumbers DEF cosDihedral, Positive

LEMMA PlanesResolved ==
    ASSUME NEW w, NEW p, p.span \in Magnitude, p.area \in Magnitude, resolvePlanes(w, p).issues = {}
    PROVE  resolvePlanes(w, p).v[1].span \in Magnitude /\ resolvePlanes(w, p).v[1].area \in Magnitude
<1> DEFINE given == [span |-> p.span, area |-> p.area, ymac |-> p.ymac, half |-> Half(p.span)]
           c     == cosDihedral(w)
           proj  == planeOf(p, Mul(p.span, c), Mul(p.area, c))
           panel == planeOf(p, Div(p.span, c), Div(p.area, c))
<1>1. resolvePlanes(w, p) = IF w.dihedralMode = "unknown" /\ w.dihedral # "flat" THEN Fail({"missing"})
                            ELSE IF w.dihedralMode = "panel" THEN Ok(<<proj, given>>) ELSE Ok(<<given, panel>>)
  BY DEF resolvePlanes
<1>2. given.span = p.span /\ given.area = p.area
  OBVIOUS
<1>3. proj.span = Mul(p.span, c) /\ proj.area = Mul(p.area, c)
  BY DEF planeOf
<1> HIDE DEF given, proj, panel, c
<1>4. resolvePlanes(w, p) \in {Ok(<<proj, given>>), Ok(<<given, panel>>)}
  BY <1>1, RefusalsStand
<1>5. Mul(p.span, c) \in Magnitude /\ Mul(p.area, c) \in Magnitude
  BY CosineNumber, MagnitudeOperations DEF c
<1>6. resolvePlanes(w, p).v[1] \in {proj, given}
  BY <1>4, OkFacts
<1> QED
  BY <1>2, <1>3, <1>5, <1>6

\* A wing without issues has a span and an area, and the aspect ratio of them.
LEMMA WingSolved ==
    ASSUME NEW w, MeasuredDrivers(w.drivers), SolveWing(w).issues = {}
    PROVE  LET proj == SolveWing(w).v.projected
           IN  /\ proj.span \in Magnitude /\ proj.area \in Magnitude
               /\ SolveWing(w).v.aspect = Div(Sq(proj.span), proj.area)
<1> DEFINE plan    == SolvePlanform(w.drivers)
           first   == Together(<<plan, Fail(validateChoices(w))>>)
           planes  == resolvePlanes(w, first.v[1])
           exposed == exposedOf(w, first.v[1], planes.v[1])
           sweep   == sweepAt(w, Zero, Div(Sq(planes.v[1].span), planes.v[1].area), first.v[1].taper)
           out     == wingOf(w, first.v[1], planes.v[1], planes.v[2], sweep, exposed.v)
<1>1. SolveWing(w) = IF first.issues # {} THEN Fail(first.issues)
                     ELSE IF planes.issues # {} THEN Fail(planes.issues)
                     ELSE IF exposed.issues # {} THEN Fail(exposed.issues) ELSE Ok(out)
  BY DEF SolveWing, Then
<1>2. out.projected = planes.v[1] /\ out.aspect = Div(Sq(planes.v[1].span), planes.v[1].area)
  BY DEF wingOf
<1>3. first.v[1] = plan.v /\ (first.issues = {} => plan.issues = {})
  BY TogetherPair
<1> HIDE DEF out, exposed, planes, first, plan
<1>4. first.issues = {} /\ planes.issues = {} /\ SolveWing(w) = Ok(out)
  BY <1>1 DEF Fail
<1>5. first.v[1].span \in Magnitude /\ first.v[1].area \in Magnitude
  BY <1>3, <1>4, PlanformSolved DEF plan
<1>6. planes.v[1].span \in Magnitude /\ planes.v[1].area \in Magnitude
  BY <1>4, <1>5, PlanesResolved DEF planes
<1> QED
  BY <1>2, <1>4, <1>6, OkFacts

-----------------------------------------------------------------------------
(***************************************************************************)
(* The mass a design is judged at, and the area its stall ceilings ask for.*)
(***************************************************************************)
LEMMA FunctionList ==
    ASSUME NEW l, NEW n \in Nat, l = [i \in 1 .. n |-> l[i]]
    PROVE  Len(l) = n /\ DOMAIN l = 1 .. n /\ l \in Seq(ToSet(l)) /\ \A i \in 1 .. n : l[i] \in ToSet(l)
<1>1. DOMAIN l = 1 .. n
  OBVIOUS
<1>2. l \in [1 .. n -> ToSet(l)]
  BY <1>1 DEF ToSet
<1>3. l \in Seq(ToSet(l))
  BY <1>2, SeqDef
<1> QED
  BY <1>1, <1>2, <1>3, LenProperties

\* An item that is counted has a mass above zero.
LEMMA CountedItem ==
    ASSUME NEW it, MeasuredItem(it), massContribution(it).known
    PROVE  contributes(it) /\ it.mass \in Magnitude
<1> DEFINE rs == [a \in Axes |-> componentMoment(it.mass, it.pos[a])]
           m  == Together(rs)
<1>1. massContribution(it) = contributionOf(it, m)
  BY DEF massContribution
<1>2. m.issues = UNION {rs[k].issues : k \in Axes}
  BY DEF Together
<1>3. 1 \in Axes /\ rs[1] = componentMoment(it.mass, it.pos[1])
  BY DEF Axes
<1> HIDE DEF rs, m
<1>4. contributes(it) /\ m.issues = {}
  <2> DEFINE c == contributionOf(it, m)
  <2>1. c.known = (contributes(it) /\ m.issues = {})
    BY DEF contributionOf
  <2> QED
    BY <1>1, <2>1
<1>5. rs[1].issues = {}
  BY <1>2, <1>3, <1>4
<1>6. quantity(it.mass) = {}
  BY <1>3, <1>5 DEF componentMoment, finishSigned, Fail
<1> QED
  BY <1>4, <1>6, ReadQuantity DEF MeasuredItem

\* The total of a whole inventory.
LEMMA WholeInventory ==
    ASSUME NEW items, NamedList(items), \A it \in ToSet(items) : MeasuredItem(it),
           MassProperties(items).status = "computed", MassProperties(items).complete
    PROVE  MassProperties(items).total \in Magnitude
<1> DEFINE n     == Len(items)
           parts == [i \in 1 .. n |-> massContribution(items[i])]
           total == finish({}, totalMass(items))
           known == {i \in DOMAIN parts : parts[i].known}
           whole == Len(items) > 0 /\ known = DOMAIN parts
           cg    == [a \in Axes |-> centerOfGravity(momentAlong(items, a), total.v).v]
           none(st) == [status |-> st, total |-> None, cg |-> <<>>, parts |-> parts, complete |-> whole]
           out   == [none("computed") EXCEPT !.total = total.v, !.cg = cg]
           s     == [i \in 1 .. n |-> IF contributes(items[i]) THEN [it \in ToSet(items) |-> it.mass][items[i]] ELSE Zero]
<1>1. MassProperties(items) = IF known = {} THEN none("missing")
                              ELSE IF total.issues # {} THEN none(statusForError(total.issues)) ELSE out
  BY DEF MassProperties, balanceOf
<1>2. /\ \A st : none(st).status = st /\ (none(st).complete <=> whole)
      /\ out.total = total.v /\ (out.complete <=> whole)
  OBVIOUS
<1>3. DOMAIN parts = 1 .. n /\ \A i \in 1 .. n : parts[i] = massContribution(items[i])
  OBVIOUS
<1>4. totalMass(items) = SumQ(s)
  BY DEF totalMass, sumOf
<1>5. s = [i \in 1 .. n |-> s[i]]
  OBVIOUS
<1>6. n \in Nat /\ \A i \in 1 .. n : items[i] \in ToSet(items)
  BY NamedListFacts
<1>7. \A i \in 1 .. n : contributes(items[i]) => s[i] = items[i].mass
  BY <1>6
<1> HIDE DEF out, none, parts, s, total
<1>8. "missing" # "computed" /\ \A k : statusForError(k) # "computed"
  BY DEF statusForError
<1>9. MassProperties(items) = out /\ total.issues = {} /\ whole
  BY <1>1, <1>2, <1>8
<1>10. \A i \in 1 .. n : contributes(items[i]) /\ items[i].mass \in Magnitude
  <2>1. \A i \in 1 .. n : massContribution(items[i]).known
    BY <1>3, <1>9
  <2> QED
    BY <1>6, <2>1, CountedItem
<1> HIDE DEF known
<1>11. \A i \in 1 .. n : s[i] \in Number
  BY <1>7, <1>10 DEF Magnitude
<1>12. Len(s) = n
  BY <1>5, <1>6, FunctionList
<1>13. totalMass(items) \in Number
  BY <1>4, <1>6, <1>11, <1>12, SumNumber
<1>14. total.v \in Magnitude
  BY <1>9, <1>13, FinishedNumber DEF total
<1> QED
  BY <1>2, <1>9, <1>14

LEMMA ReadingFacts ==
    ASSUME NEW st, NEW v
    PROVE  Reading(st, v).status = st /\ Reading(st, v).v = v
  BY DEF Reading

LEMMA MassRead ==
    ASSUME NEW d, Formed(d), Measured(d)
    PROVE  massReading(d).v \in Quantity
<1> DEFINE mp == MassProperties(d.components)
<1>1. None \in Quantity /\ d.mass \in Quantity
  BY DEF Measured, Quantity
<1>2. mp.status = "computed" /\ mp.complete => mp.total \in Quantity
  BY WholeInventory, MagnitudeIsQuantity DEF Measured, Formed, Lists
<1>3. massReading(d).v \in {None, d.mass} \/ (mp.status = "computed" /\ mp.complete /\ massReading(d).v = mp.total)
  <2> HIDE DEF mp
  <2>1. inventoryReading(mp).v = None \/ (mp.status = "computed" /\ mp.complete /\ inventoryReading(mp).v = mp.total)
    BY ReadingFacts DEF inventoryReading
  <2> QED
    BY <2>1, ReadingFacts DEF massReading, mp
<1> QED
  BY <1>1, <1>2, <1>3

\* What the margin makes of a bound.
LEMMA EffectiveBounds ==
    ASSUME NEW r, MeasuredReq(r)
    PROVE  /\ effectiveMaximum(r) \in Quantity /\ effectiveMinimum(r) \in Quantity
           /\ r.max \in Number => effectiveMaximum(r) \in Number
           /\ r.min \in Number => effectiveMinimum(r) \in Number
           /\ Supplied(r.max) => effectiveMaximum(r) \in Number
           /\ Supplied(r.min) => effectiveMinimum(r) \in Number
<1>1. One \in Number /\ r.margin \in Number /\ Zero \in Number /\ Number \subseteq Quantity /\ None \in Quantity
  BY ConstantNumbers DEF Magnitude, MeasuredReq, Quantity
<1>2. Sub(One, r.margin) \in Number /\ Add(One, r.margin) \in Number
  BY <1>1, NumberOperations
<1>3. ASSUME NEW q \in Quantity, NEW x \in Number
      PROVE  (q = None \/ Mul(q, x) \in Number)
  <2>1. CASE q \in Number
    BY <1>3, <2>1, NumberOperations
  <2>2. CASE q = Wrong
    <3>1. q[1] = 0 /\ x[1] \in Int
      BY <1>3, <2>2, NumberParts DEF Wrong
    <3>2. q[1] * x[1] = 0
      BY <3>1
    <3>3. Mul(q, x) = <<0, 1>>
      BY <3>2 DEF Mul, Q
    <3> QED
      BY <3>3, <1>1 DEF Zero, Int1
  <2> QED
    BY <2>1, <2>2 DEF Quantity
<1>4. \A q \in Number : q # None
  BY NumberParts DEF None
<1> QED
  BY <1>1, <1>2, <1>3, <1>4 DEF effectiveMaximum, effectiveMinimum, Supplied, MeasuredReq

\* What a flight case must be to be read.
LEMMA CaseRead ==
    ASSUME NEW fc, MeasuredCase(fc)
    PROVE  /\ density(fc) = {} => fc.densityBasis /\ fc.density \in Magnitude
           /\ loadFactor(fc) = {} => fc.load \in Magnitude
           /\ clmax(fc) = {} => fc.clScope = "aircraft" /\ fc.clBasis /\ fc.clmax \in Magnitude
<1>1. density(fc) = {} => fc.densityBasis /\ fc.density \in Magnitude
  BY ReadQuantity DEF density, MeasuredCase
<1>2. loadFactor(fc) = {} => fc.load \in Magnitude
  BY ReadScalar DEF loadFactor, MeasuredCase
<1>3. ASSUME clmax(fc) = {}
      PROVE  fc.clScope = "aircraft" /\ fc.clBasis /\ fc.clmax \in Magnitude
  <2>1. fc.clScope \in {"aircraft", "section", "unknown"}
    BY DEF MeasuredCase, Scopes
  <2>2. fc.clScope = "aircraft"
    BY <1>3, <2>1 DEF clmax
  <2>3. (IF fc.clBasis THEN {} ELSE {"missing"}) \cup scalar(fc.clmax) = {}
    BY <1>3, <2>2 DEF clmax
  <2> QED
    BY <2>2, <2>3, ReadScalar DEF MeasuredCase
<1> QED
  BY <1>1, <1>2, <1>3

LEMMA MinimumArea ==
    ASSUME NEW fc, MeasuredCase(fc), NEW m \in Quantity, NEW vs \in Quantity, MinimumWingArea(fc, m, vs).issues = {}
    PROVE  MinimumWingArea(fc, m, vs).v \in Magnitude /\ Reduced(MinimumWingArea(fc, m, vs).v)
<1> DEFINE num == Mul(fc.load, m)
           den == Mul(fc.density, Mul(Sq(vs), fc.clmax))
<1>1. /\ quantity(m) \cup quantity(vs) \cup density(fc) \cup loadFactor(fc) \cup clmax(fc) = {}
      /\ MinimumWingArea(fc, m, vs).v = Div(num, den)
  BY Finished DEF MinimumWingArea
<1>2. /\ m \in Magnitude /\ vs \in Magnitude /\ fc.density \in Magnitude /\ fc.load \in Magnitude
      /\ fc.clmax \in Magnitude
  BY <1>1, ReadQuantity, CaseRead
<1>3. num \in Magnitude /\ Sq(vs) \in Magnitude
  BY <1>2, MagnitudeOperations
<1>4. Mul(Sq(vs), fc.clmax) \in Magnitude
  BY <1>2, <1>3, MagnitudeOperations
<1>5. den \in Magnitude
  BY <1>2, <1>4, MagnitudeOperations
<1> HIDE DEF num, den
<1>6. num \in Number /\ den \in Number
  BY <1>3, <1>5 DEF Magnitude
<1> QED
  BY <1>1, <1>3, <1>5, <1>6, QuotientNumber, OperationsReduced

\* The elements of lists put one after the other.
LEMMA FlattenMembers ==
    ASSUME NEW T, NEW ss, NEW n \in Nat, ss = [i \in 1 .. n |-> ss[i]], \A i \in 1 .. n : ss[i] \in Seq(T)
    PROVE  /\ FlattenSeq(ss) \in Seq(T)
           /\ \A i \in 1 .. n : ToSet(ss[i]) \subseteq ToSet(FlattenSeq(ss))
<1>1. DOMAIN ss = 1 .. n /\ Len(ss) = n
  BY FunctionList
<1>2. CASE n = 0
  <2>1. FlattenSeq(ss) = ss
    BY <1>1, <1>2 DEF FlattenSeq
  <2>2. ss \in [1 .. n -> T]
    BY <1>2
  <2>3. ss \in Seq(T)
    BY <2>2, SeqDef
  <2>4. 1 .. n = {}
    BY <1>2
  <2> QED
    BY <2>1, <2>3, <2>4
<1>3. CASE n # 0
  <2>1. PICK f : Flat(ss, n, f) /\ FlattenSeq(ss) = f[n]
    BY <1>1, <1>3, FlattenIsFlat
  <2> DEFINE Good(m) == f[m] \in Seq(T) /\ \A i \in 1 .. m : ToSet(ss[i]) \subseteq ToSet(f[m])
             S == {m \in Nat : m \in 1 .. n => Good(m)}
  <2>2. 0 \in S
    OBVIOUS
  <2>3. ASSUME NEW m \in Nat, m \in S
        PROVE  m + 1 \in S
    <3> SUFFICES ASSUME m + 1 \in 1 .. n
                 PROVE  Good(m + 1)
      OBVIOUS
    <3>1. f[m + 1] = IF m + 1 = 1 THEN ss[m + 1] ELSE f[m + 1 - 1] \o ss[m + 1]
      BY <2>1, FlatStep
    <3>2. CASE m = 0
      <4>1. f[1] = ss[1] /\ ss[1] \in Seq(T) /\ \A i \in 1 .. 1 : i = 1
        BY <3>1, <3>2
      <4> QED
        BY <3>2, <4>1
    <3>3. CASE m # 0
      <4>1. m \in 1 .. n /\ m + 1 - 1 = m /\ m + 1 # 1
        BY <3>3
      <4>2. Good(m) /\ ss[m + 1] \in Seq(T)
        BY <2>3, <4>1
      <4> DEFINE a == f[m]
                 b == ss[m + 1]
                 x == a \o b
      <4>3. f[m + 1] = x
        BY <3>1, <4>1
      <4>4. a \in Seq(T) /\ b \in Seq(T)
        BY <4>2
      <4>5. /\ x \in Seq(T) /\ Len(x) = Len(a) + Len(b)
            /\ \A i \in 1 .. Len(a) + Len(b) : x[i] = IF i <= Len(a) THEN a[i] ELSE b[i - Len(a)]
        BY <4>4, ConcatProperties
      <4>6. /\ Len(a) \in Nat /\ DOMAIN a = 1 .. Len(a) /\ Len(b) \in Nat /\ DOMAIN b = 1 .. Len(b)
            /\ DOMAIN x = 1 .. Len(x)
        BY <4>4, <4>5, LenProperties
      <4> HIDE DEF a, b, x
      <4>7. ToSet(a) \subseteq ToSet(x)
        <5>1. ASSUME NEW i \in 1 .. Len(a)
              PROVE  i \in 1 .. Len(x) /\ x[i] = a[i]
          BY <4>5, <4>6
        <5> QED
          BY <4>6, <5>1 DEF ToSet
      <4>8. ToSet(b) \subseteq ToSet(x)
        <5>1. ASSUME NEW i \in 1 .. Len(b)
              PROVE  Len(a) + i \in 1 .. Len(x) /\ x[Len(a) + i] = b[i]
          <6>1. /\ Len(a) + i \in 1 .. Len(a) + Len(b) /\ ~ (Len(a) + i <= Len(a))
                /\ Len(a) + i - Len(a) = i
            BY <4>6
          <6>2. x[Len(a) + i] = b[Len(a) + i - Len(a)]
            BY <4>5, <6>1
          <6> QED
            BY <4>5, <6>1, <6>2
        <5> QED
          BY <4>6, <5>1 DEF ToSet
      <4>9. ASSUME NEW i \in 1 .. m + 1
            PROVE  ToSet(ss[i]) \subseteq ToSet(f[m + 1])
        <5>1. CASE i = m + 1
          BY <4>3, <4>8, <5>1 DEF b
        <5>2. CASE i # m + 1
          <6>1. i \in 1 .. m
            BY <5>2
          <6> QED
            BY <4>2, <4>3, <4>7, <6>1 DEF a
        <5> QED
          BY <5>1, <5>2
      <4> QED
        BY <4>3, <4>5, <4>9
    <3> QED
      BY <3>2, <3>3
  <2> HIDE DEF S
  <2>4. Nat \subseteq S
    BY <2>2, <2>3, InductionOnSet
  <2>5. Good(n)
    <3>1. n \in 1 .. n /\ n \in S
      BY <1>3, <2>4
    <3> QED
      BY <3>1 DEF S
  <2> QED
    BY <2>1, <2>5
<1> QED
  BY <1>2, <1>3

\* One step of the running tightest value, and the run of them over a list.
Tighter(part, x, direction) ==
  IF part.known /\ (~Supplied(x) \/ (IF direction = "lower" THEN Less(x, part.value) ELSE Less(part.value, x)))
  THEN part.value ELSE x

LEMMA TightestRuns ==
    ASSUME NEW parts, NEW n \in Nat, Len(parts) = n, NEW direction
    PROVE  \E F : /\ tightest(parts, direction) = F[n] /\ F[0] = None
                  /\ \A i \in 1 .. n : F[i] = Tighter(parts[i], F[i - 1], direction)
<1> DEFINE step(i, x) == Tighter(parts[i], x, direction)
           Bests(m, f) == f = [i \in 0 .. m |-> IF i = 0 THEN None ELSE step(i, f[i - 1])]
           S == {m \in Nat : \E f : Bests(m, f)}
           F == CHOOSE f : Bests(n, f)
<1>5. tightest(parts, direction) = F[n]
  BY DEF tightest, Tighter
<1> HIDE DEF step
<1>1. 0 \in S
  <2> DEFINE f == [i \in 0 .. 0 |-> None]
  <2>1. f = [i \in 0 .. 0 |-> IF i = 0 THEN None ELSE step(i, f[i - 1])]
    OBVIOUS
  <2> QED
    BY <2>1
<1>2. ASSUME NEW m \in Nat, m \in S
      PROVE  m + 1 \in S
  <2>1. PICK f : Bests(m, f)
    BY <1>2
  <2>2. \A i \in 0 .. m : f[i] = IF i = 0 THEN None ELSE step(i, f[i - 1])
    <3> DEFINE h == [i \in 0 .. m |-> IF i = 0 THEN None ELSE step(i, f[i - 1])]
    <3>1. f = h
      BY <2>1
    <3>2. \A i \in 0 .. m : h[i] = IF i = 0 THEN None ELSE step(i, f[i - 1])
      OBVIOUS
    <3> HIDE DEF h
    <3> QED
      BY <3>1, <3>2
  <2> DEFINE g == [i \in 0 .. m + 1 |-> IF i = m + 1 THEN step(m + 1, f[m]) ELSE f[i]]
  <2>3. g = [i \in 0 .. m + 1 |-> g[i]]
    OBVIOUS
  <2>4. \A i \in 0 .. m : g[i] = f[i]
    OBVIOUS
  <2>5. g[m + 1] = step(m + 1, f[m])
    OBVIOUS
  <2> HIDE DEF g
  <2>6. ASSUME NEW i \in 0 .. m + 1
        PROVE  g[i] = IF i = 0 THEN None ELSE step(i, g[i - 1])
    <3>1. CASE i = m + 1
      <4>1. i - 1 = m /\ m \in 0 .. m /\ i # 0
        BY <3>1
      <4> QED
        BY <2>4, <2>5, <3>1, <4>1
    <3>2. CASE i # m + 1
      <4>1. i \in 0 .. m /\ (i # 0 => i - 1 \in 0 .. m)
        BY <3>2
      <4> QED
        BY <2>2, <2>4, <4>1
    <3> QED
      BY <3>1, <3>2
  <2>7. Bests(m + 1, g)
    BY <2>3, <2>6
  <2> QED
    BY <2>7
<1> HIDE DEF S
<1>3. Nat \subseteq S
  BY <1>1, <1>2, InductionOnSet
<1>4. Bests(n, F)
  BY <1>3 DEF S
<1>6. \A i \in 0 .. n : F[i] = IF i = 0 THEN None ELSE step(i, F[i - 1])
  <2> DEFINE h == [i \in 0 .. n |-> IF i = 0 THEN None ELSE step(i, F[i - 1])]
  <2>1. F = h
    BY <1>4
  <2> HIDE DEF F
  <2>2. \A i \in 0 .. n : h[i] = IF i = 0 THEN None ELSE step(i, F[i - 1])
    OBVIOUS
  <2> HIDE DEF h
  <2> QED
    BY <2>1, <2>2
<1> HIDE DEF F
<1>7. F[0] = None
  BY <1>6
<1>8. ASSUME NEW i \in 1 .. n
      PROVE  F[i] = step(i, F[i - 1])
  <2>1. i \in 0 .. n /\ i # 0
    OBVIOUS
  <2> QED
    BY <1>6, <2>1
<1> QED
  BY <1>5, <1>7, <1>8 DEF step

\* The tightest of the values there are is one of them, or none is known.
LEMMA TightestIs ==
    ASSUME NEW parts, NEW n \in Nat, Len(parts) = n, NEW direction
    PROVE  \/ tightest(parts, direction) = None
           \/ \E i \in 1 .. n : parts[i].known /\ tightest(parts, direction) = parts[i].value
<1> DEFINE OneOf(x) == x = None \/ \E i \in 1 .. n : parts[i].known /\ x = parts[i].value
<1>1. PICK F : /\ tightest(parts, direction) = F[n] /\ F[0] = None
               /\ \A i \in 1 .. n : F[i] = Tighter(parts[i], F[i - 1], direction)
  BY TightestRuns
<1> DEFINE G == {m \in Nat : m <= n => OneOf(F[m])}
<1>2. 0 \in G
  BY <1>1
<1>3. ASSUME NEW m \in Nat, m \in G
      PROVE  m + 1 \in G
  <2> SUFFICES ASSUME m + 1 <= n
               PROVE  OneOf(F[m + 1])
    OBVIOUS
  <2>1. m + 1 - 1 = m /\ m + 1 \in 1 .. n /\ m <= n
    OBVIOUS
  <2>2. F[m + 1] = Tighter(parts[m + 1], F[m], direction) /\ OneOf(F[m])
    BY <1>1, <1>3, <2>1
  <2> QED
    BY <2>1, <2>2 DEF Tighter
<1> HIDE DEF G
<1>4. Nat \subseteq G
  BY <1>2, <1>3, InductionOnSet
<1>5. n \in G
  BY <1>4
<1> QED
  BY <1>1, <1>5 DEF G

\* Each stall ceiling is one requirement's, on one case.
LEMMA CeilingMembers ==
    ASSUME NEW d, Formed(d), NEW scope
    PROVE  LET T == {[case |-> fc, max |-> effectiveMaximum(r)] : fc \in ToSet(d.cases), r \in ToSet(d.reqs)}
           IN  stallCeilings(d, scope) \in Seq(T)
<1> DEFINE T == {[case |-> fc, max |-> effectiveMaximum(r)] : fc \in ToSet(d.cases), r \in ToSet(d.reqs)}
           binds(r, fc) == /\ scopeCovers(scope, fc) /\ PerCase(r.subject) /\ appliesTo(r, fc.name)
                           /\ Supplied(r.max) /\ (scope = "all" => r.priority = "required")
           ceilings(r, fc) == IF binds(r, fc) THEN <<[case |-> fc, max |-> effectiveMaximum(r)]>> ELSE <<>>
           n == Len(d.cases)
           m == Len(d.reqs)
           of(i) == [j \in 1 .. m |-> ceilings(d.reqs[j], d.cases[i])]
           ss == [i \in 1 .. n |-> FlattenSeq(of(i))]
<1>1. stallCeilings(d, scope) = FlattenSeq(ss)
  BY DEF stallCeilings
<1>2. /\ n \in Nat /\ m \in Nat /\ \A i \in 1 .. n : d.cases[i] \in ToSet(d.cases)
      /\ \A j \in 1 .. m : d.reqs[j] \in ToSet(d.reqs)
  BY NamedListFacts DEF Formed, Lists
<1>3. ASSUME NEW i \in 1 .. n, NEW j \in 1 .. m
      PROVE  ceilings(d.reqs[j], d.cases[i]) \in Seq(T)
  <2> DEFINE c == [case |-> d.cases[i], max |-> effectiveMaximum(d.reqs[j])]
  <2>1. c \in T
    BY <1>2
  <2> DEFINE q == ceilings(d.reqs[j], d.cases[i])
  <2>2. q = <<c>> \/ q = <<>>
    OBVIOUS
  <2> HIDE DEF c, T, q
  <2>3. <<c>> \in Seq(T) /\ <<>> \in Seq(T)
    BY <2>1
  <2>4. q \in Seq(T)
    BY <2>2, <2>3
  <2> QED
    BY <2>4 DEF q
<1> HIDE DEF T, ceilings, n, m
<1>4. ASSUME NEW i \in 1 .. n
      PROVE  FlattenSeq(of(i)) \in Seq(T)
  <2> DEFINE qq == of(i)
  <2>1. qq = [j \in 1 .. m |-> qq[j]] /\ \A j \in 1 .. m : qq[j] \in Seq(T)
    BY <1>3
  <2> HIDE DEF qq
  <2>2. FlattenSeq(qq) \in Seq(T)
    BY <1>2, <2>1, FlattenMembers
  <2> QED
    BY <2>2 DEF qq
<1>5. ss = [i \in 1 .. n |-> ss[i]] /\ \A i \in 1 .. n : ss[i] \in Seq(T)
  BY <1>4
<1> HIDE DEF ss
<1>6. FlattenSeq(ss) \in Seq(T)
  BY <1>2, <1>5, FlattenMembers
<1> QED
  BY <1>1, <1>6 DEF T

\* A known lower bound on the area is an area.
LEMMA AreaBound ==
    ASSUME NEW d, Formed(d), Measured(d), NEW scope,
           AreaLowerBound(d, scope).issues = {}, AreaLowerBound(d, scope).v.known
    PROVE  AreaLowerBound(d, scope).v.value \in Magnitude /\ Reduced(AreaLowerBound(d, scope).v.value)
<1> DEFINE cs == stallCeilings(d, scope)
           T  == {[case |-> fc, max |-> effectiveMaximum(r)] : fc \in ToSet(d.cases), r \in ToSet(d.reqs)}
           ps == areaParts(d, cs)
           mv == massReading(d).v
           b  == intersect(ps, "lower")
<1>1. cs \in Seq(T)
  BY CeilingMembers
<1>2. ps = [i \in 1 .. Len(cs) |-> contribute(cs[i].case.name, MinimumWingArea(cs[i].case, mv, cs[i].max))]
  BY DEF areaParts
<1>3. AreaLowerBound(d, scope).v = b
  <2> HIDE DEF b
  <2>1. AreaLowerBound(d, scope) = Provided(scopeValidate(d, scope), Ok(b))
    BY DEF AreaLowerBound, b
  <2> QED
    BY <2>1, OkFacts DEF Provided, Fail
<1>4. b.value = tightest(ps, "lower") /\ b.known = Supplied(tightest(ps, "lower"))
  <2> HIDE DEF ps
  <2> QED
    BY DEF intersect
<1>5. mv \in Quantity
  BY MassRead
<1>6. \A c \in T : MeasuredCase(c.case) /\ c.max \in Quantity
  BY EffectiveBounds DEF Measured
<1>7. Len(cs) \in Nat /\ \A i \in 1 .. Len(cs) : cs[i] \in T
  <2> HIDE DEF T, cs
  <2> QED
    BY <1>1
<1> HIDE DEF T, cs, mv, b, ps
<1>8. ASSUME NEW i \in 1 .. Len(cs), ps[i].known
      PROVE  ps[i].value \in Magnitude /\ Reduced(ps[i].value)
  <2> DEFINE ma == MinimumWingArea(cs[i].case, mv, cs[i].max)
  <2>1. ps[i] = contribute(cs[i].case.name, ma)
    BY <1>2
  <2> HIDE DEF ma
  <2>2. ps[i].known = (ma.issues = {}) /\ ps[i].value = ma.v
    BY <2>1 DEF contribute
  <2>3. MeasuredCase(cs[i].case) /\ cs[i].max \in Quantity
    BY <1>6, <1>7
  <2> QED
    BY <1>5, <1>8, <2>2, <2>3, MinimumArea DEF ma
<1>9. Len(ps) = Len(cs)
  <2> DEFINE nn == Len(cs)
  <2>1. ps = [i \in 1 .. nn |-> ps[i]] /\ nn \in Nat
    BY <1>2, <1>7
  <2> HIDE DEF nn
  <2>2. Len(ps) = nn
    BY <2>1, FunctionList
  <2> QED
    BY <2>2 DEF nn
<1>10. tightest(ps, "lower") = None \/ \E i \in 1 .. Len(cs) : ps[i].known /\ tightest(ps, "lower") = ps[i].value
  BY <1>7, <1>9, TightestIs
<1>11. tightest(ps, "lower") # None
  BY <1>3, <1>4 DEF Supplied
<1> QED
  BY <1>3, <1>4, <1>8, <1>10, <1>11

\* Whichever plane the drivers are in, the area written into them is a number.
LEMMA AreaDriverNumber ==
    ASSUME NEW d, NEW a \in Magnitude
    PROVE  areaDriverFor(d, a) \in Number /\ areaDriverFor(d, a) # None
<1>1. Div(a, cosDihedral(d.wing)) \in Number /\ a \in Number
  BY CosineNumber, QuotientNumber, MagnitudeWorth
<1>2. areaDriverFor(d, a) \in Number
  BY <1>1 DEF areaDriverFor
<1> QED
  BY <1>2, NumberParts DEF None

-----------------------------------------------------------------------------
(***************************************************************************)
(* No command puts a figure into a design that is not one of its type.     *)
(***************************************************************************)
MeasuredKeys == {"mass", "components", "cases", "reqs", "wing", "polar", "efficiency", "auxiliary", "mission"}

LEMMA FieldMeasured ==
    ASSUME NEW d, Formed(d), Measured(d), NEW k, NEW v
    PROVE  /\ k \notin MeasuredKeys => Measured([d EXCEPT ![k] = v])
           /\ k = "mass" /\ v \in Quantity => Measured([d EXCEPT ![k] = v])
           /\ k = "components" /\ (\A it \in ToSet(v) : MeasuredItem(it)) => Measured([d EXCEPT ![k] = v])
           /\ k = "cases" /\ (\A it \in ToSet(v) : MeasuredCase(it)) => Measured([d EXCEPT ![k] = v])
           /\ k = "reqs" /\ (\A it \in ToSet(v) : MeasuredReq(it)) => Measured([d EXCEPT ![k] = v])
           /\ k = "wing" /\ MeasuredDrivers(v.drivers) => Measured([d EXCEPT ![k] = v])
           /\ k = "polar" /\ MeasuredPolar(v) => Measured([d EXCEPT ![k] = v])
           /\ k = "efficiency" /\ v.total \in Number => Measured([d EXCEPT ![k] = v])
           /\ k = "auxiliary" /\ (\A it \in ToSet(v) : MeasuredLoad(it)) => Measured([d EXCEPT ![k] = v])
           /\ k = "mission" /\ (\A it \in ToSet(v.segments) : MeasuredSegment(it)) => Measured([d EXCEPT ![k] = v])
<1> DEFINE e == [d EXCEPT ![k] = v]
           keep(x) == IF k = x THEN v ELSE d[x]
<1>1. MeasuredKeys \subseteq DOMAIN d
  BY DEF Formed, Measured, MeasuredPower, Lists, MeasuredKeys
<1>2. DOMAIN e = DOMAIN d /\ \A x \in DOMAIN d : e[x] = keep(x)
  OBVIOUS
<1> HIDE DEF e
<1>3. \A x \in MeasuredKeys : x \in DOMAIN e /\ e[x] = keep(x)
  BY <1>1, <1>2
<1>4. /\ "mass" \in DOMAIN e /\ e.mass = keep("mass") /\ e.components = keep("components")
      /\ e.cases = keep("cases") /\ e.reqs = keep("reqs") /\ e.wing = keep("wing")
      /\ {"polar", "efficiency"} \subseteq DOMAIN e
      /\ e.polar = keep("polar") /\ e.efficiency = keep("efficiency")
      /\ e.auxiliary = keep("auxiliary") /\ e.mission = keep("mission")
  BY <1>3 DEF MeasuredKeys
<1>5. /\ k \notin {"polar", "efficiency", "auxiliary", "mission"} => MeasuredPower(e)
      /\ k = "polar" /\ MeasuredPolar(v) => MeasuredPower(e)
      /\ k = "efficiency" /\ v.total \in Number => MeasuredPower(e)
      /\ k = "auxiliary" /\ (\A it \in ToSet(v) : MeasuredLoad(it)) => MeasuredPower(e)
      /\ k = "mission" /\ (\A it \in ToSet(v.segments) : MeasuredSegment(it)) => MeasuredPower(e)
  BY <1>4 DEF Measured, MeasuredPower
<1>6. /\ k \notin MeasuredKeys => Measured(e)
      /\ k = "mass" /\ v \in Quantity => Measured(e)
      /\ k = "components" /\ (\A it \in ToSet(v) : MeasuredItem(it)) => Measured(e)
      /\ k = "cases" /\ (\A it \in ToSet(v) : MeasuredCase(it)) => Measured(e)
      /\ k = "reqs" /\ (\A it \in ToSet(v) : MeasuredReq(it)) => Measured(e)
      /\ k = "wing" /\ MeasuredDrivers(v.drivers) => Measured(e)
  BY <1>4, <1>5 DEF Measured, MeasuredKeys
<1>7. k \in {"polar", "efficiency", "auxiliary", "mission"} /\ MeasuredPower(e) => Measured(e)
  BY <1>4 DEF Measured
<1> QED
  BY <1>5, <1>6, <1>7 DEF e

\* What is on a list after an edit of it was there, or was put there.
LEMMA PutMembers ==
    ASSUME NEW l, NamedList(l), NEW it
    PROVE  ToSet(Put(l, it)) \subseteq ToSet(l) \cup {it}
<1>0. Len(l) \in Nat /\ DOMAIN l = 1 .. Len(l) /\ l \in Seq(ToSet(l))
  BY NamedListFacts
<1>1. CASE Named(l, it.name)
  <2> DEFINE p == Place(l, it.name)
             x == [l EXCEPT ![p] = it]
  <2>1. Put(l, it) = x
    BY <1>1 DEF Put
  <2>2. DOMAIN x = DOMAIN l /\ \A i \in DOMAIN l : x[i] = it \/ x[i] = l[i]
    OBVIOUS
  <2> HIDE DEF x
  <2> QED
    BY <2>1, <2>2 DEF ToSet
<1>2. CASE ~Named(l, it.name)
  <2> DEFINE x == Append(l, it)
             T == ToSet(l) \cup {it}
  <2>1. l \in Seq(T) /\ it \in T
    BY <1>0, SeqMonotonic
  <2> HIDE DEF T
  <2>2. x \in Seq(T)
    BY <2>1, AppendProperties
  <2> HIDE DEF x
  <2>3. ToSet(x) \subseteq T
    BY <2>2, LenProperties DEF ToSet
  <2> QED
    BY <1>2, <2>3 DEF Put, x, T
<1> QED
  BY <1>1, <1>2

LEMMA WithoutMembers ==
    ASSUME NEW l, NamedList(l), NEW n, Named(l, n)
    PROVE  ToSet(Without(l, n)) \subseteq ToSet(l)
<1> DEFINE p == Place(l, n)
           T == ToSet(l)
           a == SubSeq(l, 1, p - 1)
           b == SubSeq(l, p + 1, Len(l))
<1>1. p \in 1 .. Len(l)
  BY PlaceIsThere
<1>2. Len(l) \in Nat /\ l \in Seq(T)
  BY NamedListFacts
<1> HIDE DEF p, T
<1>3. a \in Seq(T) /\ b \in Seq(T)
  BY <1>1, <1>2, SubSeqProperties
<1>4. Without(l, n) = a \o b
  BY DEF Without, RemoveAt, p
<1> HIDE DEF a, b
<1>5. a \o b \in Seq(T)
  BY <1>3, ConcatProperties
<1> DEFINE x == a \o b
<1> HIDE DEF x
<1>6. ToSet(x) \subseteq T
  BY <1>5, LenProperties DEF ToSet, x
<1> QED
  BY <1>4, <1>6 DEF x, T

LEMMA InsertMembers ==
    ASSUME NEW l, NamedList(l), NEW p \in 1 .. Len(l) + 1, NEW it
    PROVE  ToSet(InsertAt(l, p, it)) \subseteq ToSet(l) \cup {it}
<1> DEFINE T == ToSet(l) \cup {it}
           a == SubSeq(l, 1, p - 1)
           b == SubSeq(l, p, Len(l))
<1>1. Len(l) \in Nat /\ l \in Seq(ToSet(l))
  BY NamedListFacts
<1>2. l \in Seq(T) /\ <<it>> \in Seq(T)
  BY <1>1, SeqMonotonic
<1> HIDE DEF T
<1>3. a \in Seq(T) /\ b \in Seq(T)
  BY <1>1, <1>2, SubSeqProperties
<1>4. InsertAt(l, p, it) = (a \o <<it>>) \o b
  BY DEF InsertAt
<1> HIDE DEF a, b
<1> DEFINE x == (a \o <<it>>) \o b
<1>5. a \o <<it>> \in Seq(T)
  BY <1>2, <1>3, ConcatProperties
<1>6. x \in Seq(T)
  BY <1>3, <1>5, ConcatProperties
<1> HIDE DEF x
<1>7. ToSet(x) \subseteq T
  BY <1>6, LenProperties DEF ToSet
<1> QED
  BY <1>4, <1>7 DEF x, T

LEMMA UpdateMembers ==
    ASSUME NEW l, NamedList(l), NEW n, Named(l, n), NEW k, NEW v
    PROVE  \A x \in ToSet(Update(l, n, k, v)) : x \in ToSet(l) \/ \E y \in ToSet(l) : x = [y EXCEPT ![k] = v]
<1> DEFINE p  == Place(l, n)
           it == [l[p] EXCEPT ![k] = v]
           x  == [l EXCEPT ![p] = it]
<1>1. Update(l, n, k, v) = x
  BY DEF Update
<1>2. p \in 1 .. Len(l) /\ DOMAIN l = 1 .. Len(l)
  BY PlaceIsThere, NamedListFacts
<1> HIDE DEF p, it
<1>3. DOMAIN x = DOMAIN l /\ \A i \in DOMAIN l : x[i] = l[i] \/ x[i] = it
  OBVIOUS
<1> HIDE DEF x
<1>4. \A y \in ToSet(x) : y \in ToSet(l) \/ y = it
  BY <1>3 DEF ToSet
<1>5. l[p] \in ToSet(l)
  BY <1>2 DEF ToSet
<1> QED
  BY <1>1, <1>4, <1>5 DEF it

\* A field of an item that is not a figure, or a figure of its type.
LEMMA ItemFieldMeasured ==
    ASSUME NEW y, NEW k, NEW v
    PROVE  /\ MeasuredItem(y) /\ k \in {"priority", "pos"} => MeasuredItem([y EXCEPT ![k] = v])
           /\ MeasuredReq(y) /\ k = "priority" => MeasuredReq([y EXCEPT ![k] = v])
           /\ MeasuredCase(y) /\ k = "priority" => MeasuredCase([y EXCEPT ![k] = v])
           /\ MeasuredCase(y) /\ k = "clmax" /\ v \in Number => MeasuredCase([y EXCEPT ![k] = v])
           /\ MeasuredCase(y) /\ k = "clScope" /\ v \in Scopes => MeasuredCase([y EXCEPT ![k] = v])
           /\ MeasuredCase(y) /\ k = "clBasis" => MeasuredCase([y EXCEPT ![k] = v])
<1> DEFINE e == [y EXCEPT ![k] = v]
<1>1. DOMAIN e = DOMAIN y /\ \A x \in DOMAIN y : e[x] = IF x = k THEN v ELSE y[x]
  OBVIOUS
<1> HIDE DEF e
<1>2. MeasuredItem(y) /\ k \in {"priority", "pos"} => MeasuredItem(e)
  BY <1>1 DEF MeasuredItem
<1>3. MeasuredReq(y) /\ k = "priority" => MeasuredReq(e)
  BY <1>1 DEF MeasuredReq
<1>4. ASSUME MeasuredCase(y)
      PROVE  /\ {"density", "load", "clmax", "clScope", "clBasis"} \subseteq DOMAIN e
             /\ e.density = IF k = "density" THEN v ELSE y.density
             /\ e.load = IF k = "load" THEN v ELSE y.load
             /\ e.clmax = IF k = "clmax" THEN v ELSE y.clmax
             /\ e.clScope = IF k = "clScope" THEN v ELSE y.clScope
  BY <1>1, <1>4 DEF MeasuredCase
<1>5. /\ MeasuredCase(y) /\ k = "priority" => MeasuredCase(e)
      /\ MeasuredCase(y) /\ k = "clmax" /\ v \in Number => MeasuredCase(e)
      /\ MeasuredCase(y) /\ k = "clScope" /\ v \in Scopes => MeasuredCase(e)
      /\ MeasuredCase(y) /\ k = "clBasis" => MeasuredCase(e)
  BY <1>4 DEF MeasuredCase
<1> QED
  BY <1>2, <1>3, <1>5 DEF e

\* The drivers of the wing.
LEMMA DriverFieldMeasured ==
    ASSUME NEW D, MeasuredDrivers(D), NEW k, NEW v
    PROVE  /\ k \notin {"span", "area", "aspect", "root", "taper", "shape"} => MeasuredDrivers([D EXCEPT ![k] = v])
           /\ k \in {"span", "area", "root"} /\ v \in Quantity => MeasuredDrivers([D EXCEPT ![k] = v])
           /\ k \in {"aspect", "taper"} /\ v \in Number => MeasuredDrivers([D EXCEPT ![k] = v])
           /\ k = "shape" /\ v \in {"rectangle", "trapezoid", "unknown"} => MeasuredDrivers([D EXCEPT ![k] = v])
<1> DEFINE e == [D EXCEPT ![k] = v]
<1>1. DOMAIN e = DOMAIN D /\ \A x \in DOMAIN D : e[x] = IF x = k THEN v ELSE D[x]
  OBVIOUS
<1> HIDE DEF e
<1>2. \A x \in {"span", "area", "aspect", "root", "taper", "shape"} : x \in DOMAIN e /\ e[x] = IF x = k THEN v ELSE D[x]
  BY <1>1 DEF MeasuredDrivers
<1>3. /\ {"span", "area", "aspect", "root", "taper", "shape"} \subseteq DOMAIN e
      /\ e.span = (IF k = "span" THEN v ELSE D.span) /\ e.area = (IF k = "area" THEN v ELSE D.area)
      /\ e.aspect = (IF k = "aspect" THEN v ELSE D.aspect) /\ e.root = (IF k = "root" THEN v ELSE D.root)
      /\ e.taper = (IF k = "taper" THEN v ELSE D.taper) /\ e.shape = (IF k = "shape" THEN v ELSE D.shape)
  BY <1>2
<1>4. /\ k \notin {"span", "area", "aspect", "root", "taper", "shape"} => MeasuredDrivers(e)
      /\ k \in {"span", "area", "root"} /\ v \in Quantity => MeasuredDrivers(e)
      /\ k \in {"aspect", "taper"} /\ v \in Number => MeasuredDrivers(e)
      /\ k = "shape" /\ v \in {"rectangle", "trapezoid", "unknown"} => MeasuredDrivers(e)
  BY <1>3 DEF MeasuredDrivers
<1> QED
  BY <1>4 DEF e

LEMMA WingMeasured ==
    ASSUME NEW d, Formed(d), Measured(d), NEW D, MeasuredDrivers(D)
    PROVE  Measured([d EXCEPT !.wing.drivers = D])
<1> DEFINE w == [d.wing EXCEPT !.drivers = D]
<1>1. [d EXCEPT !.wing.drivers = D] = [d EXCEPT !.wing = w] /\ w.drivers = D
  BY DEF Formed
<1> HIDE DEF w
<1> QED
  BY <1>1, FieldMeasured

LEMMA WingFieldMeasured ==
    ASSUME NEW d, Formed(d), Measured(d), NEW k, NEW v, MeasuredDrivers([d.wing.drivers EXCEPT ![k] = v])
    PROVE  Measured([d EXCEPT !.wing.drivers[k] = v])
<1> DEFINE D == [d.wing.drivers EXCEPT ![k] = v]
<1>1. [d EXCEPT !.wing.drivers[k] = v] = [d EXCEPT !.wing.drivers = D]
  BY DEF Formed
<1> HIDE DEF D
<1> QED
  BY <1>1, WingMeasured DEF D

LEMMA NoneIsQuantity == None \in Quantity /\ Zero \in Number /\ Zero \in Quantity /\ Number \subseteq Quantity
  BY ConstantNumbers DEF Quantity

LEMMA SizeDriverMeasured ==
    ASSUME NEW d, Formed(d), Measured(d), NEW key \in ToSet(SizeKeys), NEW v, v = None \/ v \in Number
    PROVE  Measured(setSizeDriver(d, key, v))
<1> DEFINE x == IF v = None THEN Unset(key) ELSE v
<1>1. key \in {"span", "area", "aspect", "root"}
  BY DEF ToSet, SizeKeys
<1>2. (key = "aspect" => x \in Number) /\ (key # "aspect" => x \in Quantity)
  BY NoneIsQuantity DEF Unset
<1>3. setSizeDriver(d, key, v) = [d EXCEPT !.wing.drivers[key] = x]
  BY DEF setSizeDriver
<1>4. MeasuredDrivers(d.wing.drivers)
  BY DEF Measured
<1> HIDE DEF x
<1>5. MeasuredDrivers([d.wing.drivers EXCEPT ![key] = x])
  BY <1>1, <1>2, <1>4, DriverFieldMeasured
<1> QED
  BY <1>3, <1>5, WingFieldMeasured

LEMMA InvalidOrNot ==
    ASSUME NEW b, Invalid(b) = {}
    PROVE  b
  BY DEF Invalid

LEMMA DriverFigure ==
    ASSUME NEW v \in Quantity, checkDriverValue(v) = {}
    PROVE  v \in Number
<1> DEFINE b == v # None /\ v[1] > 0
<1>0. checkDriverValue(v) = Invalid(b)
  BY DEF checkDriverValue
<1> HIDE DEF b
<1>1. b
  BY <1>0, InvalidOrNot
<1> USE DEF b
<1>2. v # None /\ v # Wrong
  BY <1>1 DEF Wrong
<1> QED
  BY <1>2 DEF Quantity

LEMMA SetDriverMeasured ==
    ASSUME NEW d, Formed(d), Measured(d), NEW key, NEW v \in Quantity, SetDriver(d, key, v).issues = {}
    PROVE  Measured(SetDriver(d, key, v).v)
<1> DEFINE e == setSizeDriver(d, key, v)
           S == suppliedDrivers(d.wing.drivers)
           is(held) == IF Supplied(v) THEN checkDriverValue(v) ELSE Invalid(held)
<1>1. key \in ToSet(SizeKeys)
  BY RefusalsStand DEF SetDriver
<1>2. SetDriver(d, key, v) = Edit(is(key \in S), e)
  <2>1. CASE key \notin S /\ Cardinality(S) >= 2
    <3>1. SetDriver(d, key, v) = Then(ValidSwaps(d, key), LAMBDA swaps : Fail({"invalid"}))
      BY <1>1, <2>1 DEF SetDriver, DriverKeys
    <3>2. Then(ValidSwaps(d, key), LAMBDA swaps : Fail({"invalid"})).issues # {}
      BY DEF Then, Fail
    <3> QED
      BY <3>1, <3>2
  <2>2. CASE key \in S \/ ~(Cardinality(S) >= 2)
    BY <1>1, <2>2 DEF SetDriver, DriverKeys
  <2> QED
    BY <2>1, <2>2
<1> HIDE DEF e, S
<1>3. is(key \in S) = {} /\ SetDriver(d, key, v).v = e
  BY <1>2, EditMade
<1>4. v = None \/ v \in Number
  <2>1. v # None => checkDriverValue(v) = {}
    BY <1>3 DEF Supplied
  <2>2. CASE v # None
    BY <2>1, <2>2, DriverFigure
  <2> QED
    BY <2>2
<1> QED
  BY <1>1, <1>3, <1>4, SizeDriverMeasured DEF e

LEMMA PromoteMeasured ==
    ASSUME NEW d, Formed(d), Measured(d), NEW promote, NEW release, NEW v \in Quantity,
           PromoteDriver(d, promote, release, v).issues = {}
    PROVE  Measured(PromoteDriver(d, promote, release, v).v)
<1> DEFINE r == setSizeDriver(d, release, None)
           e == setSizeDriver(r, promote, v)
<1>1. ValidSwaps(d, promote).issues = {}
  BY DEF PromoteDriver, Then, Fail
<1>2. /\ promote \in ToSet(SizeKeys) /\ ValidSwaps(d, promote).v = Swaps(d, promote)
  BY <1>1, RefusalsStand DEF ValidSwaps, Offer, Ok
<1>3. /\ release \in Swaps(d, promote) /\ PromoteDriver(d, promote, release, v).v = e
      /\ checkDriverValue(v) = {}
  BY <1>1, <1>2, RefusalsStand, EditMade DEF PromoteDriver, Then
<1>4. release \in ToSet(SizeKeys)
  BY <1>3 DEF Swaps, DriverKeys, suppliedDrivers
<1>5. Formed(r) /\ Measured(r)
  BY <1>4, SizeDriverSet, SizeDriverMeasured
<1>6. v \in Number
  BY <1>3, DriverFigure
<1> HIDE DEF r
<1>7. Measured(e)
  BY <1>2, <1>5, <1>6, SizeDriverMeasured
<1> QED
  BY <1>3, <1>7

LEMMA StallLimitMeasured ==
    ASSUME NEW d, NEW start, Sound(d, start), Measured(d), NEW hold, NEW scope,
           SizeAtStallLimit(d, hold, scope).issues = {}
    PROVE  Measured(SizeAtStallLimit(d, hold, scope).v)
<1> DEFINE r    == releaseAllBut(d, hold)
           b    == AreaLowerBound(d, scope)
           a    == areaDriverFor(d, b.v.value)
           e    == setSizeDriver(r, "area", a)
<1>0. Formed(d)
  BY DEF Sound
<1>1. SizeAtStallLimit(d, hold, scope).v = e /\ b.issues = {} /\ b.v.known
  <2>1. /\ hold \in {"span", "aspect", "root"} /\ holdsDriver(d.wing.drivers, hold)
    BY RefusalsStand DEF SizeAtStallLimit
  <2>2. SizeAtStallLimit(d, hold, scope)
          = Then(b, LAMBDA bound : IF ~bound.known THEN Fail({"missing"})
                                   ELSE Ok(setSizeDriver(r, "area", areaDriverFor(d, bound.value))))
    BY <2>1 DEF SizeAtStallLimit
  <2>3. b.issues = {}
    BY <2>2 DEF Then, Fail
  <2>4. b.v.known
    BY <2>2, <2>3, RefusalsStand DEF Then
  <2> QED
    BY <2>2, <2>3, <2>4 DEF Then, Ok
<1>2. b.v.value \in Magnitude
  BY <1>0, <1>1, AreaBound
<1>3. a \in Number
  BY <1>2, AreaDriverNumber
<1> HIDE DEF a, b
<1>4. Formed(r) /\ Measured(r)
  <2> DEFINE D  == d.wing.drivers
             rs == [k \in DOMAIN D |-> IF k \in DriverKeys(d) \ {hold} THEN Unset(k) ELSE D[k]]
             w  == [d.wing EXCEPT !.drivers = rs]
  <2>1. r = [d EXCEPT !.wing = w] /\ "wing" \in DOMAIN d /\ "drivers" \in DOMAIN d.wing
    BY DEF releaseAllBut, Sound, Formed
  <2>2. /\ r.wing = w /\ w.drivers = rs /\ DOMAIN rs = DOMAIN D
        /\ {"drivers", "dihedral", "dihedralMode"} \subseteq DOMAIN w
    BY <2>1 DEF Sound, Formed
  <2>3. MeasuredDrivers(D)
    BY DEF Measured
  <2>4. \A k \in DOMAIN D : \/ rs[k] = D[k]
                            \/ k \in {"span", "area", "aspect", "root"} /\ rs[k] = Unset(k)
    BY DriverFacts DEF DriverKeys
  <2> HIDE DEF r, rs, w
  <2>5. MeasuredDrivers(rs)
    <3>1. /\ {"span", "area", "aspect", "root", "taper", "shape"} \subseteq DOMAIN rs
          /\ \A k \in {"span", "area", "aspect", "root", "taper", "shape"} : k \in DOMAIN D
      BY <2>2, <2>3 DEF MeasuredDrivers
    <3>2. rs.taper = D.taper /\ rs.shape = D.shape
      BY <2>4, <3>1
    <3>3. rs.aspect = D.aspect \/ rs.aspect = Zero
      BY <2>4, <3>1 DEF Unset
    <3>4. /\ rs.span = D.span \/ rs.span = None
          /\ rs.area = D.area \/ rs.area = None
          /\ rs.root = D.root \/ rs.root = None
      BY <2>4, <3>1 DEF Unset
    <3> QED
      BY <2>3, <3>1, <3>2, <3>3, <3>4, NoneIsQuantity DEF MeasuredDrivers
  <2>6. Measured(r)
    BY <1>0, <2>1, <2>2, <2>5, FieldMeasured
  <2>7. Formed(r)
    <3>1. DOMAIN r = DOMAIN d /\ \A k \in DOMAIN d : k # "wing" => r[k] = d[k]
      BY <2>1
    <3>2. r.mission = d.mission /\ \A k \in Lists : r[k] = d[k]
      BY <3>1 DEF Sound, Formed, Lists
    <3> QED
      BY <2>2, <3>1, <3>2 DEF Sound, Formed
  <2> QED
    BY <2>6, <2>7
<1> HIDE DEF r
<1>5. "area" \in ToSet(SizeKeys)
  BY DEF ToSet, SizeKeys
<1>6. Measured(e)
  BY <1>3, <1>4, <1>5, SizeDriverMeasured
<1> QED
  BY <1>1, <1>6

LEMMA WingCommandMeasured ==
    ASSUME NEW d, NEW start, Sound(d, start), Measured(d), NEW c
    PROVE  /\ SetWingAngles(d, c).issues = {} => Measured(SetWingAngles(d, c).v)
           /\ \A v : SetBodyWidth(d, v).issues = {} => Measured(SetBodyWidth(d, v).v)
           /\ \A v \in Number : SetTaperRatio(d, v).issues = {} => Measured(SetTaperRatio(d, v).v)
           /\ \A shape : \A v \in Number :
                SetPlanformShape(d, shape, v).issues = {} => Measured(SetPlanformShape(d, shape, v).v)
<1>0. Formed(d) /\ MeasuredDrivers(d.wing.drivers)
  BY DEF Sound, Measured
<1>1. ASSUME SetWingAngles(d, c).issues = {}
      PROVE  Measured(SetWingAngles(d, c).v)
  <2> DEFINE w == [d.wing EXCEPT !.sweep = c.sweep, !.dihedral = c.dihedral, !.twist = c.twist,
                                 !.incidence = c.incidence, !.sweepRef = c.sweepRef, !.dihedralMode = c.mode]
             refusals == Missing("none" \notin {c.sweep, c.dihedral, c.twist, c.incidence})
                           \cup Invalid("wrong" \notin {c.sweep, c.dihedral, c.twist, c.incidence})
                           \cup Invalid(Leq(Zero, c.sweepRef) /\ Leq(c.sweepRef, One))
  <2>1. w.drivers = d.wing.drivers
    BY <1>0 DEF Formed
  <2>5. SetWingAngles(d, c) = Edit(refusals, [d EXCEPT !.wing = w])
    BY DEF SetWingAngles
  <2> HIDE DEF w, refusals
  <2>2. SetWingAngles(d, c).v = [d EXCEPT !.wing = w]
    BY <1>1, <2>5, EditMade
  <2>3. MeasuredDrivers(w.drivers)
    BY <1>0, <2>1
  <2>4. Measured([d EXCEPT !.wing = w])
    BY <1>0, <2>3, FieldMeasured
  <2> QED
    BY <2>2, <2>4
<1>2. ASSUME NEW v, SetBodyWidth(d, v).issues = {}
      PROVE  Measured(SetBodyWidth(d, v).v)
  <2> DEFINE w == [d.wing EXCEPT !.bodyWidth = v]
  <2>1. w.drivers = d.wing.drivers
    BY <1>0 DEF Formed
  <2>2. SetBodyWidth(d, v).v = [d EXCEPT !.wing = w]
    BY <1>2, EditMade DEF SetBodyWidth
  <2> HIDE DEF w
  <2>3. MeasuredDrivers(w.drivers)
    BY <1>0, <2>1
  <2>4. Measured([d EXCEPT !.wing = w])
    BY <1>0, <2>3, FieldMeasured
  <2> QED
    BY <2>2, <2>4
<1>3. ASSUME NEW v \in Number, SetTaperRatio(d, v).issues = {}
      PROVE  Measured(SetTaperRatio(d, v).v)
  <2>1. SetTaperRatio(d, v).v = [d EXCEPT !.wing.drivers.taper = v]
    BY <1>3, EditMade DEF SetTaperRatio
  <2>2. MeasuredDrivers([d.wing.drivers EXCEPT !["taper"] = v])
    BY <1>0, DriverFieldMeasured
  <2> QED
    BY <1>0, <2>1, <2>2, WingFieldMeasured
<1>4. ASSUME NEW shape, NEW v \in Number, SetPlanformShape(d, shape, v).issues = {}
      PROVE  Measured(SetPlanformShape(d, shape, v).v)
  <2> DEFINE a == [d EXCEPT !.wing.drivers.shape = shape]
             b == [a EXCEPT !.wing.drivers.taper = v]
             is == CASE shape = "rectangle" -> Invalid(v = One)
                     [] shape = "trapezoid" -> Invalid(v[1] > 0)
                     [] OTHER -> {"missing"}
  <2>1. SetPlanformShape(d, shape, v).v = b /\ is = {}
    BY <1>4, EditMade DEF SetPlanformShape
  <2>2. shape \in {"rectangle", "trapezoid"}
    BY <2>1
  <2>3. MeasuredDrivers([d.wing.drivers EXCEPT !["shape"] = shape])
    BY <1>0, <2>2, DriverFieldMeasured
  <2>4. Measured(a)
    BY <1>0, <2>3, WingFieldMeasured
  <2>5. Sound(a, start)
    BY DriverFieldSound
  <2> HIDE DEF a
  <2>6. Formed(a) /\ MeasuredDrivers(a.wing.drivers)
    BY <2>4, <2>5 DEF Sound, Measured
  <2>7. MeasuredDrivers([a.wing.drivers EXCEPT !["taper"] = v])
    BY <2>6, DriverFieldMeasured
  <2>8. Measured(b)
    BY <2>4, <2>6, <2>7, WingFieldMeasured
  <2> QED
    BY <2>1, <2>8
<1> QED
  BY <1>1, <1>2, <1>3, <1>4

LEMMA RemovalMeasured ==
    ASSUME NEW d, Formed(d), Measured(d), NEW k \in Lists, NEW n, Removal(d, k, n).issues = {}
    PROVE  Measured(Removal(d, k, n).v)
<1> DEFINE e == [d EXCEPT ![k] = Without(d[k], n)]
<1>1. Removal(d, k, n) = Edit(Missing(Named(d[k], n)), e)
  BY DEF Removal, Formed
<1>2. Missing(Named(d[k], n)) = {} /\ Removal(d, k, n).v = e
  BY <1>1, EditMade
<1>3. Named(d[k], n) /\ NamedList(d[k])
  BY <1>2, MissingOrNot DEF Formed
<1>4. ToSet(Without(d[k], n)) \subseteq ToSet(d[k])
  BY <1>3, WithoutMembers
<1>5. /\ k = "components" => \A it \in ToSet(Without(d[k], n)) : MeasuredItem(it)
      /\ k = "cases" => \A it \in ToSet(Without(d[k], n)) : MeasuredCase(it)
      /\ k = "reqs" => \A it \in ToSet(Without(d[k], n)) : MeasuredReq(it)
      /\ k = "auxiliary" => \A it \in ToSet(Without(d[k], n)) : MeasuredLoad(it)
  BY <1>4 DEF Measured, MeasuredPower
<1>6. k \in {"components", "cases", "reqs", "auxiliary"} \/ k \notin MeasuredKeys
  BY DEF Lists, MeasuredKeys
<1>7. Measured(e)
  BY <1>5, <1>6, FieldMeasured
<1> QED
  BY <1>2, <1>7

LEMMA PriorityMeasured ==
    ASSUME NEW d, Formed(d), Measured(d), NEW k \in {"cases", "reqs"}, NEW n, NEW p, SetPriority(d, k, n, p).issues = {}
    PROVE  Measured(SetPriority(d, k, n, p).v)
<1> DEFINE u == Update(d[k], n, "priority", p)
<1>1. /\ Missing(p # "unknown") \cup Missing(Named(d[k], n)) = {}
      /\ SetPriority(d, k, n, p).v = [d EXCEPT ![k] = u]
  BY EditMade DEF SetPriority, Formed, Lists
<1>2. Named(d[k], n) /\ NamedList(d[k])
  BY <1>1, MissingOrNot DEF Formed, Lists
<1>3. \A x \in ToSet(u) : x \in ToSet(d[k]) \/ \E y \in ToSet(d[k]) : x = [y EXCEPT !["priority"] = p]
  BY <1>2, UpdateMembers
<1> HIDE DEF u
<1>4. /\ k = "cases" => \A it \in ToSet(u) : MeasuredCase(it)
      /\ k = "reqs" => \A it \in ToSet(u) : MeasuredReq(it)
  <2>1. ASSUME k = "cases", NEW x \in ToSet(u)
        PROVE  MeasuredCase(x)
    <3>1. \A y \in ToSet(d[k]) : MeasuredCase(y)
      BY <2>1 DEF Measured
    <3> QED
      BY <1>3, <3>1, ItemFieldMeasured
  <2>2. ASSUME k = "reqs", NEW x \in ToSet(u)
        PROVE  MeasuredReq(x)
    <3>1. \A y \in ToSet(d[k]) : MeasuredReq(y)
      BY <2>2 DEF Measured
    <3>2. \A y \in ToSet(d[k]) : MeasuredReq([y EXCEPT !["priority"] = p])
      BY <3>1, ItemFieldMeasured
    <3> QED
      BY <1>3, <2>2, <3>1, <3>2
  <2> QED
    BY <2>1, <2>2
<1>5. Measured([d EXCEPT ![k] = u])
  BY <1>4, FieldMeasured
<1> QED
  BY <1>1, <1>5

LEMMA PlaceMeasured ==
    ASSUME NEW d, Formed(d), Measured(d), NEW n, NEW pos, PlaceComponent(d, n, pos).issues = {}
    PROVE  Measured(PlaceComponent(d, n, pos).v)
<1> DEFINE i == IF checkPosition(pos) # {} THEN checkPosition(pos)
                ELSE Missing(\A a \in Axes : Supplied(pos[a])) \cup Missing(Named(d.components, n))
           u == Update(d.components, n, "pos", pos)
<1>1. i = {} /\ PlaceComponent(d, n, pos).v = [d EXCEPT !.components = u]
  BY EditMade DEF PlaceComponent, Formed
<1>2. Named(d.components, n) /\ NamedList(d.components)
  <2>1. Missing(Named(d.components, n)) = {}
    BY <1>1
  <2> QED
    BY <2>1, MissingOrNot DEF Formed, Lists
<1>3. \A x \in ToSet(u) : x \in ToSet(d.components) \/ \E y \in ToSet(d.components) : x = [y EXCEPT !["pos"] = pos]
  BY <1>2, UpdateMembers
<1> HIDE DEF u
<1>4. \A it \in ToSet(u) : MeasuredItem(it)
  BY <1>3, ItemFieldMeasured DEF Measured
<1>5. Measured([d EXCEPT !["components"] = u])
  BY <1>4, FieldMeasured
<1> QED
  BY <1>1, <1>5

LEMMA CLmaxMeasured ==
    ASSUME NEW d, Formed(d), Measured(d), NEW n, NEW cl \in Number, NEW scope \in Scopes, NEW basis,
           SetCaseCLmax(d, n, cl, scope, basis).issues = {}
    PROVE  Measured(SetCaseCLmax(d, n, cl, scope, basis).v)
<1> DEFINE a == Update(d.cases, n, "clmax", cl)
           b == Update(a, n, "clScope", scope)
           c == Update(b, n, "clBasis", basis)
<1>1. /\ Named(d.cases, n) /\ SetCaseCLmax(d, n, cl, scope, basis).v = [d EXCEPT !.cases = c]
      /\ NamedList(d.cases) /\ \A it \in ToSet(d.cases) : MeasuredCase(it)
  BY EditMade, MissingOrNot DEF SetCaseCLmax, Formed, Lists, Measured
<1>2. /\ NamedList(a) /\ Named(a, n)
      /\ \A x \in ToSet(a) : x \in ToSet(d.cases) \/ \E y \in ToSet(d.cases) : x = [y EXCEPT !["clmax"] = cl]
  BY <1>1, UpdateList, UpdateMembers
<1> HIDE DEF a
<1>3. \A it \in ToSet(a) : MeasuredCase(it)
  BY <1>1, <1>2, ItemFieldMeasured
<1>4. /\ NamedList(b) /\ Named(b, n)
      /\ \A x \in ToSet(b) : x \in ToSet(a) \/ \E y \in ToSet(a) : x = [y EXCEPT !["clScope"] = scope]
  BY <1>2, UpdateList, UpdateMembers
<1> HIDE DEF b
<1>5. \A it \in ToSet(b) : MeasuredCase(it)
  BY <1>3, <1>4, ItemFieldMeasured
<1>6. \A x \in ToSet(c) : x \in ToSet(b) \/ \E y \in ToSet(b) : x = [y EXCEPT !["clBasis"] = basis]
  BY <1>4, UpdateMembers
<1> HIDE DEF c
<1>7. ASSUME NEW x \in ToSet(c)
      PROVE  MeasuredCase(x)
  <2>1. CASE x \in ToSet(b)
    BY <1>5, <2>1
  <2>2. ASSUME NEW y \in ToSet(b), x = [y EXCEPT !["clBasis"] = basis]
        PROVE  MeasuredCase(x)
    <3>1. MeasuredCase(y)
      BY <1>5
    <3>2. MeasuredCase([y EXCEPT !["clBasis"] = basis])
      BY <3>1, ItemFieldMeasured
    <3> QED
      BY <2>2, <3>2
  <2> QED
    BY <1>6, <2>1, <2>2
<1>8. Measured([d EXCEPT !["cases"] = c])
  BY <1>7, FieldMeasured
<1> QED
  BY <1>1, <1>8

LEMMA SegmentsMeasured ==
    ASSUME NEW d, Formed(d), Measured(d), NEW l, \A s \in ToSet(l) : MeasuredSegment(s)
    PROVE  Measured([d EXCEPT !.mission.segments = l])
<1> DEFINE m == [d.mission EXCEPT !.segments = l]
<1>1. [d EXCEPT !.mission.segments = l] = [d EXCEPT !.mission = m] /\ m.segments = l
  BY DEF Formed
<1> HIDE DEF m
<1> QED
  BY <1>1, FieldMeasured

LEMMA MissionMeasured ==
    ASSUME NEW d, NEW start, Sound(d, start), Measured(d)
    PROVE  /\ \A m : SetMissionProfile(d, m).issues = {} => Measured(SetMissionProfile(d, m).v)
           /\ \A s : MeasuredSegment(s) /\ SetMissionSegment(d, s).issues = {} => Measured(SetMissionSegment(d, s).v)
           /\ \A n : RemoveMissionSegment(d, n).issues = {} => Measured(RemoveMissionSegment(d, n).v)
           /\ \A n, index : MoveMissionSegment(d, n, index).issues = {} => Measured(MoveMissionSegment(d, n, index).v)
<1> DEFINE segs == d.mission.segments
<1>1. /\ Formed(d) /\ NamedList(segs) /\ "segments" \in DOMAIN d.mission
      /\ \A s \in ToSet(segs) : MeasuredSegment(s)
  BY DEF Sound, Formed, Measured, MeasuredPower
<1>2. ASSUME NEW m, SetMissionProfile(d, m).issues = {}
      PROVE  Measured(SetMissionProfile(d, m).v)
  <2> DEFINE p == [d.mission EXCEPT !.name = m.name, !.basis = m.basis, !.reserve = m.reserve]
           e == [d EXCEPT !.mission.name = m.name, !.mission.basis = m.basis, !.mission.reserve = m.reserve]
  <2>1. SetMissionProfile(d, m).v = e
    BY <1>2, EditMade DEF SetMissionProfile
  <2>2. "mission" \in DOMAIN d
    BY <1>1 DEF Formed
  <2>3. e = [d EXCEPT !.mission = p]
    BY <2>2
  <2>4. p.segments = segs
    BY <1>1
  <2> HIDE DEF p, e
  <2>5. Measured([d EXCEPT !.mission = p])
    BY <1>1, <2>4, FieldMeasured
  <2> QED
    BY <2>1, <2>3, <2>5
<1>3. ASSUME NEW s, MeasuredSegment(s), SetMissionSegment(d, s).issues = {}
      PROVE  Measured(SetMissionSegment(d, s).v)
  <2>1. SetMissionSegment(d, s).v = [d EXCEPT !.mission.segments = Put(segs, s)]
    BY <1>1, <1>3, EditMade DEF SetMissionSegment, Formed
  <2>2. ToSet(Put(segs, s)) \subseteq ToSet(segs) \cup {s}
    BY <1>1, PutMembers
  <2> QED
    BY <1>1, <1>3, <2>1, <2>2, SegmentsMeasured
<1>4. ASSUME NEW n, RemoveMissionSegment(d, n).issues = {}
      PROVE  Measured(RemoveMissionSegment(d, n).v)
  <2>1. /\ RemoveMissionSegment(d, n).v = [d EXCEPT !.mission.segments = Without(segs, n)]
        /\ Missing(Named(segs, n)) = {}
    BY <1>1, <1>4, EditMade DEF RemoveMissionSegment, Formed
  <2>2. ToSet(Without(segs, n)) \subseteq ToSet(segs)
    BY <1>1, <2>1, MissingOrNot, WithoutMembers
  <2> QED
    BY <1>1, <2>1, <2>2, SegmentsMeasured
<1>5. ASSUME NEW n, NEW index, MoveMissionSegment(d, n, index).issues = {}
      PROVE  Measured(MoveMissionSegment(d, n, index).v)
  <2> DEFINE rest == Without(segs, n)
             it   == Get(segs, n)
             l    == InsertAt(rest, index + 1, it)
  <2>1. Named(segs, n)
    BY <1>5, RefusalsStand DEF MoveMissionSegment
  <2>2. /\ MoveMissionSegment(d, n, index).v = [d EXCEPT !.mission.segments = l]
        /\ Invalid(index \in 0 .. Len(segs) - 1) = {}
    BY <1>1, <1>5, <2>1, EditMade DEF MoveMissionSegment, Formed
  <2>3. index \in 0 .. Len(segs) - 1
    BY <2>2 DEF Invalid
  <2>4. ToSet(rest) \subseteq ToSet(segs)
    BY <1>1, <2>1, WithoutMembers
  <2>5. Place(segs, n) \in DOMAIN segs
    BY <1>1, <2>1, PlaceIsThere, NamedListFacts
  <2>6. it \in ToSet(segs)
    BY <2>5 DEF Get, ToSet
  <2>7. NamedList(rest) /\ Len(rest) = Len(segs) - 1
    BY <1>1, <2>1, WithoutList
  <2> HIDE DEF rest, it
  <2>8. ToSet(l) \subseteq ToSet(rest) \cup {it}
    BY <2>3, <2>7, InsertMembers
  <2> HIDE DEF l
  <2> QED
    BY <1>1, <2>2, <2>4, <2>8, <2>6, SegmentsMeasured
<1> QED
  BY <1>2, <1>3, <1>4, <1>5

LEMMA PutMeasured ==
    ASSUME NEW d, Formed(d), Measured(d), NEW it
    PROVE  /\ MeasuredItem(it) /\ SetComponent(d, it).issues = {} => Measured(SetComponent(d, it).v)
           /\ MeasuredCase(it) /\ SetCase(d, it).issues = {} => Measured(SetCase(d, it).v)
           /\ MeasuredReq(it) /\ SetRequirement(d, it).issues = {} => Measured(SetRequirement(d, it).v)
           /\ SetCapability(d, it).issues = {} => Measured(SetCapability(d, it).v)
           /\ SetThrustTarget(d, it).issues = {} => Measured(SetThrustTarget(d, it).v)
           /\ MeasuredLoad(it) /\ SetAuxiliaryLoad(d, it).issues = {} => Measured(SetAuxiliaryLoad(d, it).v)
<1> DEFINE put(k) == [d EXCEPT ![k] = Put(d[k], it)]
<1>1. /\ SetComponent(d, it).issues = {} => SetComponent(d, it).v = put("components")
      /\ SetCapability(d, it).issues = {} => SetCapability(d, it).v = put("capabilities")
      /\ SetAuxiliaryLoad(d, it).issues = {} => SetAuxiliaryLoad(d, it).v = put("auxiliary")
  BY EditMade DEF SetComponent, SetCapability, SetAuxiliaryLoad
<1>2. /\ SetCase(d, it).issues = {} => SetCase(d, it).v = put("cases")
      /\ SetRequirement(d, it).issues = {} => SetRequirement(d, it).v = put("reqs")
      /\ SetThrustTarget(d, it).issues = {} => SetThrustTarget(d, it).v = put("targets")
  BY EditMade DEF SetCase, SetRequirement, SetThrustTarget
<1>3. Measured(put("capabilities")) /\ Measured(put("targets"))
  BY FieldMeasured DEF MeasuredKeys
<1>4. \A k \in Lists : ToSet(Put(d[k], it)) \subseteq ToSet(d[k]) \cup {it}
  BY PutMembers DEF Formed
<1>5. /\ MeasuredItem(it) => \A x \in ToSet(Put(d.components, it)) : MeasuredItem(x)
      /\ MeasuredCase(it) => \A x \in ToSet(Put(d.cases, it)) : MeasuredCase(x)
      /\ MeasuredReq(it) => \A x \in ToSet(Put(d.reqs, it)) : MeasuredReq(x)
      /\ MeasuredLoad(it) => \A x \in ToSet(Put(d.auxiliary, it)) : MeasuredLoad(x)
  BY <1>4 DEF Lists, Measured, MeasuredPower
<1>6. /\ MeasuredItem(it) => Measured(put("components"))
      /\ MeasuredCase(it) => Measured(put("cases"))
      /\ MeasuredReq(it) => Measured(put("reqs"))
      /\ MeasuredLoad(it) => Measured(put("auxiliary"))
  BY <1>5, FieldMeasured
<1> HIDE DEF put
<1> QED
  BY <1>1, <1>2, <1>3, <1>6

LEMMA FieldCommandMeasured ==
    ASSUME NEW d, NEW start, Sound(d, start), Measured(d), NEW v, NEW w
    PROVE  /\ v \in Quantity /\ SetMass(d, v, w).issues = {} => Measured(SetMass(d, v, w).v)
           /\ SetMassMode(d, v).issues = {} => Measured(SetMassMode(d, v).v)
           /\ SetConfiguration(d, v, w).issues = {} => Measured(SetConfiguration(d, v, w).v)
           /\ MeasuredPolar(v) /\ SetDragPolar(d, v).issues = {} => Measured(SetDragPolar(d, v).v)
           /\ v.total \in Number /\ SetPropulsionEfficiency(d, v).issues = {} => Measured(SetPropulsionEfficiency(d, v).v)
           /\ SetPropulsionLimits(d, v).issues = {} => Measured(SetPropulsionLimits(d, v).v)
           /\ SetBattery(d, v).issues = {} => Measured(SetBattery(d, v).v)
<1> DEFINE set(e, k, x) == [e EXCEPT ![k] = x]
           other == {"massBasis", "configuration", "tail", "massMode", "limits", "battery"}
           Fine(e) == Sound(e, start) /\ Measured(e)
<1>0. Fine(d)
  OBVIOUS
<1>1. ASSUME NEW e, Fine(e), NEW k \in other, NEW x
      PROVE  Fine(set(e, k, x))
  <2>1. k \notin Lists \cup {"wing", "mission"} /\ k \notin MeasuredKeys
    BY DEF Lists, MeasuredKeys
  <2>2. Formed(e)
    BY <1>1 DEF Sound
  <2> QED
    BY <1>1, <2>1, <2>2, FieldEdit, FieldMeasured
<1>2. ASSUME v \in Quantity
      PROVE  Fine(set(d, "mass", v))
  <2>1. "mass" \notin Lists \cup {"wing", "mission"}
    BY DEF Lists
  <2>2. Formed(d)
    BY DEF Sound
  <2> QED
    BY <1>2, <2>1, <2>2, FieldEdit, FieldMeasured
<1>8. /\ MeasuredPolar(v) => Measured(set(d, "polar", v))
      /\ v.total \in Number => Measured(set(d, "efficiency", v))
  BY FieldMeasured DEF Sound
<1>3. /\ SetMass(d, v, w).issues = {} => SetMass(d, v, w).v = set(set(d, "mass", v), "massBasis", w)
      /\ SetConfiguration(d, v, w).issues = {} =>
           SetConfiguration(d, v, w).v = set(set(d, "configuration", v), "tail", w)
  BY EditMade DEF SetMass, SetConfiguration
<1>4. /\ SetMassMode(d, v).issues = {} => SetMassMode(d, v).v = set(d, "massMode", v)
      /\ SetDragPolar(d, v).issues = {} => SetDragPolar(d, v).v = set(d, "polar", v)
      /\ SetPropulsionEfficiency(d, v).issues = {} => SetPropulsionEfficiency(d, v).v = set(d, "efficiency", v)
      /\ SetPropulsionLimits(d, v).issues = {} => SetPropulsionLimits(d, v).v = set(d, "limits", v)
      /\ SetBattery(d, v).issues = {} => SetBattery(d, v).v = set(d, "battery", v)
  BY EditMade DEF SetMassMode, SetDragPolar, SetPropulsionEfficiency, SetPropulsionLimits, SetBattery
<1> HIDE DEF set, Fine
<1>5. /\ \A x : Fine(set(d, "configuration", x))
      /\ Fine(set(d, "massMode", v))
      /\ Fine(set(d, "limits", v)) /\ Fine(set(d, "battery", v))
  BY <1>0, <1>1
<1>6. /\ v \in Quantity => Fine(set(set(d, "mass", v), "massBasis", w))
      /\ Fine(set(set(d, "configuration", v), "tail", w))
  BY <1>1, <1>2, <1>5
<1>7. \A e : Fine(e) => Measured(e)
  BY DEF Fine
<1> QED
  BY <1>3, <1>4, <1>5, <1>6, <1>7, <1>8

LEMMA RemoveCommandMeasured ==
    ASSUME NEW d, Formed(d), Measured(d), NEW n
    PROVE  /\ \A k \in Lists : Removal(d, k, n).issues = {} => Measured(Removal(d, k, n).v)
           /\ RemoveCase(d, n).issues = {} => Measured(RemoveCase(d, n).v)
           /\ RemoveCapability(d, n).issues = {} => Measured(RemoveCapability(d, n).v)
<1>1. \A k \in Lists : Removal(d, k, n).issues = {} => Measured(Removal(d, k, n).v)
  BY RemovalMeasured
<1>2. /\ RemoveCase(d, n).issues = {} => RemoveCase(d, n) = Removal(d, "cases", n)
      /\ RemoveCapability(d, n).issues = {} => RemoveCapability(d, n) = Removal(d, "capabilities", n)
  BY RefusalsStand DEF RemoveCase, RemoveCapability
<1> QED
  BY <1>1, <1>2 DEF Lists

\* Every command there is.
LEMMA ApplyMeasured ==
    ASSUME NEW d, NEW start, Sound(d, start), Measured(d), NEW c, c.op \in Ops, MeasuredCommand(c),
           apply(d, c).issues = {}
    PROVE  Measured(apply(d, c).v)
<1>0. Formed(d)
  BY DEF Sound
<1>1. CASE c.op \in {"SetComponent", "SetCase", "SetRequirement", "SetCapability", "SetThrustTarget",
                   "SetAuxiliaryLoad"}
  BY <1>0, <1>1, PutMeasured DEF apply, MeasuredCommand
<1>2. CASE c.op \in {"SetMass", "SetMassMode", "SetConfiguration", "SetDragPolar",
                   "SetPropulsionEfficiency", "SetPropulsionLimits", "SetBattery"}
  BY <1>2, FieldCommandMeasured DEF apply, MeasuredCommand
<1>3. CASE c.op \in {"SetTaperRatio", "SetPlanformShape", "SetWingAngles", "SetBodyWidth"}
  BY <1>3, WingCommandMeasured DEF apply, MeasuredCommand
<1>4. CASE c.op \in {"SetMissionProfile", "RemoveMissionSegment", "MoveMissionSegment", "SetMissionSegment"}
  BY <1>4, MissionMeasured DEF apply, MeasuredCommand
<1>6. CASE c.op \in {"RemoveComponent", "RemoveRequirement", "RemoveThrustTarget", "RemoveAuxiliaryLoad"}
  BY <1>0, <1>6, RemoveCommandMeasured DEF apply, Lists
<1>7. CASE c.op \in {"RemoveCase", "RemoveCapability"}
  BY <1>0, <1>7, RemoveCommandMeasured DEF apply
<1>8. CASE c.op = "SetDriver"
  BY <1>0, <1>8, SetDriverMeasured DEF apply, MeasuredCommand
<1>9. CASE c.op = "PromoteDriver"
  BY <1>0, <1>9, PromoteMeasured DEF apply, MeasuredCommand
<1>10. CASE c.op = "SizeAtStallLimit"
  BY <1>10, StallLimitMeasured DEF apply
<1>11. CASE c.op \in {"SetCasePriority", "SetRequirementPriority"}
  BY <1>0, <1>11, PriorityMeasured DEF apply
<1>12. CASE c.op = "PlaceComponent"
  BY <1>0, <1>12, PlaceMeasured DEF apply
<1>13. CASE c.op = "SetCaseCLmax"
  BY <1>0, <1>13, CLmaxMeasured DEF apply, MeasuredCommand
<1> QED
  BY <1>1, <1>2, <1>3, <1>4, <1>6, <1>7, <1>8, <1>9, <1>10, <1>11, <1>12, <1>13 DEF Ops, PutOps

\* Every design of the history is of the types there are.
MeasuredInv == HistoryInv /\ \A i \in 1 .. Len(history) : Measured(history[i])

LEMMA ReviseMeasured ==
    ASSUME HistoryInv, \A i \in 1 .. Len(history) : Measured(history[i]), NEW d, Measured(d), revise(d)
    PROVE  \A i \in 1 .. Len(history') : Measured(history'[i])
<1> DEFINE S == {history[i] : i \in 1 .. Len(history)} \cup {d}
           h == SubSeq(history, 1, cursor)
<1>1. history' = Append(h, d)
  BY DEF revise
<1>2. history \in Seq(S) /\ d \in S /\ Len(history) \in Nat /\ cursor \in 1 .. Len(history)
  BY SeqMonotonic, LenProperties DEF HistoryInv
<1>3. h \in Seq(S)
  BY <1>2, SubSeqProperties
<1>4. \A x \in S : Measured(x)
  OBVIOUS
<1> HIDE DEF h, S
<1>5. history' \in Seq(S)
  BY <1>1, <1>2, <1>3, AppendProperties
<1> QED
  BY <1>4, <1>5, LenProperties

LEMMA InitMeasured == Init => MeasuredInv
<1> SUFFICES ASSUME Init
             PROVE  MeasuredInv
  OBVIOUS
<1>1. HistoryInv /\ history = <<scenario.start>> /\ scenario \in Scenarios
  BY InitHistory DEF Init
<1>2. Measured(scenario.start)
  BY <1>1, ScenariosAssumption
<1>3. \A i \in 1 .. Len(history) : history[i] = scenario.start
  BY <1>1
<1> QED
  BY <1>1, <1>2, <1>3 DEF MeasuredInv

LEMMA NextMeasured == MeasuredInv /\ [Next]_vars => MeasuredInv'
<1> SUFFICES ASSUME MeasuredInv, [Next]_vars
             PROVE  MeasuredInv'
  OBVIOUS
<1>0. HistoryInv /\ HistoryInv' /\ \A i \in 1 .. Len(history) : Measured(history[i])
  BY NextHistory DEF MeasuredInv
<1>1. Sound(Design, scenario.start) /\ Measured(Design)
  BY <1>0 DEF HistoryInv, Design
<1>2. ASSUME NEW c \in scenario.commands, Do(c)
      PROVE  MeasuredInv'
  <2>1. apply(Design, c).issues = {} /\ revise(apply(Design, c).v)
    BY <1>2 DEF Do
  <2>2. c.op \in Ops /\ MeasuredCommand(c)
    BY <1>0, <1>2, ScenariosAssumption DEF HistoryInv
  <2>3. Measured(apply(Design, c).v)
    BY <1>1, <2>1, <2>2, ApplyMeasured
  <2> DEFINE d == apply(Design, c).v
  <2> HIDE DEF d
  <2>4. Measured(d) /\ revise(d)
    BY <2>1, <2>3 DEF d
  <2> QED
    BY <1>0, <2>4, ReviseMeasured DEF MeasuredInv
<1>3. CASE Load
  <2>1. Measured(scenario.start) /\ revise(scenario.start)
    BY <1>0, <1>3, ScenariosAssumption DEF HistoryInv, Load
  <2> QED
    BY <1>0, <2>1, ReviseMeasured DEF MeasuredInv
<1>4. CASE history' = history
  BY <1>0, <1>4 DEF MeasuredInv
<1> QED
  BY <1>2, <1>3, <1>4 DEF Next, vars, Preview, Evaluate, Sweep, Undo, Redo

-----------------------------------------------------------------------------
(***************************************************************************)
(* What a verdict rests on: every check there is to make is made, and of   *)
(* a design that is "met" every required one holds.                        *)
(***************************************************************************)
LEMMA FlattenLists ==
    ASSUME NEW ss, NEW n \in Nat, ss = [i \in 1 .. n |-> ss[i]], \A i \in 1 .. n : CheckList(ss[i])
    PROVE  /\ CheckList(FlattenSeq(ss))
           /\ \A i \in 1 .. n : ToSet(ss[i]) \subseteq ToSet(FlattenSeq(ss))
<1> DEFINE T == UNION {ToSet(ss[i]) : i \in 1 .. n}
<1>1. \A i \in 1 .. n : ToSet(ss[i]) \subseteq T
  OBVIOUS
<1> HIDE DEF T
<1>2. \A i \in 1 .. n : ss[i] \in Seq(T)
  BY <1>1, CheckListFacts
<1>3. FlattenSeq(ss) \in Seq(T)
  BY <1>2, FlattenMembers
<1>4. \A i \in 1 .. n : ToSet(ss[i]) \subseteq ToSet(FlattenSeq(ss))
  BY <1>2, FlattenMembers
<1> QED
  BY <1>3, <1>4, IsCheckList

LEMMA BoundsMade ==
    ASSUME NEW r, NEW name, NEW value
    PROVE  /\ Supplied(r.min) =>
                buildCheck(r, name, value, effectiveMinimum(r), "lower") \in ToSet(checkBounds(r, name, value))
           /\ Supplied(r.max) =>
                buildCheck(r, name, value, effectiveMaximum(r), "upper") \in ToSet(checkBounds(r, name, value))
<1> DEFINE low  == buildCheck(r, name, value, effectiveMinimum(r), "lower")
           high == buildCheck(r, name, value, effectiveMaximum(r), "upper")
           a    == IF Supplied(r.min) THEN <<low>> ELSE <<>>
           b    == IF Supplied(r.max) THEN <<high>> ELSE <<>>
           x    == a \o b
<1>1. checkBounds(r, name, value) = x
  BY DEF checkBounds
<1> HIDE DEF low, high
<1>2. /\ <<low>> \in Seq({low, high}) /\ <<high>> \in Seq({low, high}) /\ <<>> \in Seq({low, high})
      /\ Len(<<low>>) = 1 /\ <<low>>[1] = low /\ Len(<<high>>) = 1 /\ <<high>>[1] = high /\ Len(<<>>) = 0
  OBVIOUS
<1>3. /\ a \in Seq({low, high}) /\ b \in Seq({low, high})
      /\ Supplied(r.min) => Len(a) = 1 /\ a[1] = low
      /\ ~Supplied(r.min) => Len(a) = 0
      /\ Supplied(r.max) => Len(b) = 1 /\ b[1] = high
  BY <1>2
<1> HIDE DEF a, b
<1>4. /\ x \in Seq({low, high}) /\ Len(x) = Len(a) + Len(b)
      /\ \A i \in 1 .. Len(a) + Len(b) : x[i] = IF i <= Len(a) THEN a[i] ELSE b[i - Len(a)]
  BY <1>3, ConcatProperties
<1>5. DOMAIN x = 1 .. Len(x) /\ Len(a) \in Nat /\ Len(b) \in Nat
  BY <1>3, <1>4, LenProperties
<1> HIDE DEF x
<1>6. ASSUME Supplied(r.min)
      PROVE  low \in ToSet(x)
  <2>0. Len(a) = 1
    BY <1>3, <1>6
  <2>1. 1 \in 1 .. Len(a) + Len(b) /\ 1 <= Len(a)
    BY <1>5, <2>0
  <2>2. x[1] = low /\ 1 \in DOMAIN x
    BY <1>3, <1>4, <1>5, <1>6, <2>1
  <2> QED
    BY <2>2 DEF ToSet
<1>7. ASSUME Supplied(r.max)
      PROVE  high \in ToSet(x)
  <2> DEFINE p == Len(a) + 1
  <2>1. p \in 1 .. Len(a) + Len(b) /\ ~(p <= Len(a)) /\ p - Len(a) = 1
    BY <1>3, <1>5, <1>7
  <2> HIDE DEF p
  <2>2. x[p] = high /\ p \in DOMAIN x
    BY <1>3, <1>4, <1>5, <1>7, <2>1
  <2> QED
    BY <2>2 DEF ToSet
<1> QED
  BY <1>1, <1>6, <1>7 DEF low, high

\* The checks of one requirement on the case at j, or on the design, are among the checks made.
LEMMA ChecksMade ==
    ASSUME NEW d, Formed(d), NEW r \in ToSet(d.reqs)
    PROVE  LET wing == SolveWing(d.wing)
               mission == MissionAnalysis(d, wing)
           IN  /\ PerCase(r.subject) =>
                    \A j \in 1 .. Len(d.cases) : appliesTo(r, d.cases[j].name) =>
                      ToSet(checkBounds(r, d.cases[j].name, read(d, r.subject, d.cases[j], wing, mission)))
                        \subseteq ToSet(Assess(d))
               /\ ~PerCase(r.subject) =>
                    ToSet(checkBounds(r, "", read(d, r.subject, None, wing, mission))) \subseteq ToSet(Assess(d))
<1> DEFINE wing == SolveWing(d.wing)
           mission == MissionAnalysis(d, wing)
           n  == Len(d.reqs)
           ss == [i \in 1 .. n |-> checksOf(d, d.reqs[i], wing, mission)]
           cs == checksOf(d, r, wing, mission)
<1>1. NamedList(d.reqs) /\ NamedList(d.cases)
  BY DEF Formed, Lists
<1>2. Assess(d) = FlattenSeq(ss)
  BY DEF Assess, assessWing, checksWith
<1> HIDE DEF wing, mission
<1>3. PICK i \in 1 .. n : r = d.reqs[i]
  BY <1>1, NamedListFacts DEF ToSet
<1>4. /\ n \in Nat /\ ss = [k \in 1 .. n |-> ss[k]] /\ ss[i] = cs
      /\ \A k \in 1 .. n : ss[k] = checksOf(d, d.reqs[k], wing, mission)
  BY <1>1, <1>3, NamedListFacts
<1> HIDE DEF ss, n, cs
<1>5. \A k \in 1 .. n : CheckList(ss[k])
  BY <1>1, <1>4, RequirementChecks
<1>6. ToSet(cs) \subseteq ToSet(FlattenSeq(ss))
  BY <1>4, <1>5, FlattenLists
<1>7. ASSUME PerCase(r.subject), NEW j \in 1 .. Len(d.cases), appliesTo(r, d.cases[j].name)
      PROVE  ToSet(checkBounds(r, d.cases[j].name, read(d, r.subject, d.cases[j], wing, mission))) \subseteq ToSet(cs)
  <2> DEFINE m == Len(d.cases)
             of(k) == checkBounds(r, d.cases[k].name, read(d, r.subject, d.cases[k], wing, mission))
             qs == [k \in 1 .. m |-> IF appliesTo(r, d.cases[k].name) THEN of(k) ELSE <<>>]
  <2>1. cs = FlattenSeq(qs)
    BY <1>7 DEF checksOf, cs
  <2>2. m \in Nat /\ qs = [k \in 1 .. m |-> qs[k]] /\ qs[j] = of(j)
    BY <1>1, <1>7, NamedListFacts
  <2>3. ASSUME NEW k \in 1 .. m
        PROVE  CheckList(qs[k])
    <3>1. qs[k] = of(k) \/ qs[k] = <<>>
      OBVIOUS
    <3> HIDE DEF qs
    <3> QED
      BY <3>1, BoundChecks, NoChecks
  <2> HIDE DEF qs, of, m
  <2>4. \A k \in 1 .. m : ToSet(qs[k]) \subseteq ToSet(FlattenSeq(qs))
    BY <2>2, <2>3, FlattenLists
  <2>5. ToSet(of(j)) \subseteq ToSet(cs)
    BY <2>1, <2>2, <2>4, <1>7 DEF m
  <2> QED
    BY <2>5 DEF of
<1>8. ASSUME ~PerCase(r.subject)
      PROVE  cs = checkBounds(r, "", read(d, r.subject, None, wing, mission))
  BY <1>8 DEF checksOf, cs
<1> QED
  BY <1>2, <1>6, <1>7, <1>8 DEF wing, mission

\* Of checks that come to "met", a required one is met.
LEMMA RequiredIsMet ==
    ASSUME NEW cs, Aggregate(cs) = "met", NEW c \in ToSet(cs), c.priority = "required",
           c.status \in {"unknown", "met", "unmet"}
    PROVE  c.status = "met"
<1> DEFINE vs == {cs[i].status : i \in {j \in DOMAIN cs : cs[j].priority = "required"}}
<1>1. PICK i \in DOMAIN cs : c = cs[i]
  BY DEF ToSet
<1>2. c.status \in vs
  BY <1>1
<1>3. "unmet" \notin vs /\ "unknown" \notin vs
  BY DEF Aggregate
<1> QED
  BY <1>2, <1>3

\* A required bound on a reading holds of it, and the reading was computed.
LEMMA BoundMet ==
    ASSUME NEW r, r.priority = "required", NEW name, NEW value,
           NEW cs, Aggregate(cs) = "met", ToSet(checkBounds(r, name, value)) \subseteq ToSet(cs)
    PROVE  /\ Supplied(r.min) \/ Supplied(r.max) => value.status = "computed"
           /\ Supplied(r.min) => atLeast(r.subject, value.v, effectiveMinimum(r))
           /\ Supplied(r.max) => atMost(r.subject, value.v, effectiveMaximum(r))
<1>1. ASSUME NEW dir \in {"lower", "upper"}, NEW bound, buildCheck(r, name, value, bound, dir) \in ToSet(cs)
      PROVE  /\ value.status = "computed"
             /\ dir = "lower" => atLeast(r.subject, value.v, bound)
             /\ dir = "upper" => atMost(r.subject, value.v, bound)
  <2> DEFINE c  == buildCheck(r, name, value, bound, dir)
             ok == IF dir = "lower" THEN atLeast(r.subject, value.v, bound) ELSE atMost(r.subject, value.v, bound)
  <2>1. c.priority = r.priority /\ c.status = IF value.status # "computed" THEN "unknown" ELSE statusFor(ok)
    BY DEF buildCheck
  <2> HIDE DEF c, ok
  <2>2. statusFor(ok) = (IF ok THEN "met" ELSE "unmet")
    BY DEF statusFor
  <2>3. c.status = "met"
    BY <1>1, <2>1, <2>2, RequiredIsMet DEF c
  <2>4. value.status = "computed" /\ ok
    BY <2>1, <2>2, <2>3
  <2> QED
    BY <2>4 DEF ok
<1>2. Supplied(r.min) => buildCheck(r, name, value, effectiveMinimum(r), "lower") \in ToSet(cs)
  BY BoundsMade
<1>3. Supplied(r.max) => buildCheck(r, name, value, effectiveMaximum(r), "upper") \in ToSet(cs)
  BY BoundsMade
<1> QED
  BY <1>1, <1>2, <1>3

\* What a validated requirement says.
LEMMA RequirementRead ==
    ASSUME NEW d, Formed(d), Validate(d) = {}, NEW r \in ToSet(d.reqs)
    PROVE  /\ Supplied(r.min) \/ Supplied(r.max)
           /\ r.min # Wrong /\ r.max # Wrong
           /\ PerCase(r.subject) => r.cases # {} /\ \A n \in r.cases : Named(d.cases, n)
<1> DEFINE all == UNION {requirementValidate(d, d.reqs[i]) : i \in 1 .. Len(d.reqs)}
<1>1. all = {}
  BY DEF Validate
<1>2. PICK i \in 1 .. Len(d.reqs) : r = d.reqs[i]
  BY NamedListFacts DEF ToSet, Formed, Lists
<1>3. requirementValidate(d, r) = {}
  BY <1>1, <1>2
<1>4. requirementBounds(r) = {} /\ requirementCases(d, r) = {}
  BY <1>3 DEF requirementValidate
<1>5. Missing(Supplied(r.min) \/ Supplied(r.max)) = {} /\ Invalid(r.min # Wrong /\ r.max # Wrong) = {}
  BY <1>4 DEF requirementBounds
<1>6. Supplied(r.min) \/ Supplied(r.max)
  <2> DEFINE b == Supplied(r.min) \/ Supplied(r.max)
  <2> HIDE DEF b
  <2>1. Missing(b) = {}
    BY <1>5 DEF b
  <2>2. b
    BY <2>1, MissingOrNot
  <2> QED
    BY <2>2 DEF b
<1>7. r.min # Wrong /\ r.max # Wrong
  <2> DEFINE b == r.min # Wrong /\ r.max # Wrong
  <2> HIDE DEF b
  <2>1. Invalid(b) = {}
    BY <1>5 DEF b
  <2>2. b
    BY <2>1, InvalidOrNot
  <2> QED
    BY <2>2 DEF b
<1>8. ASSUME PerCase(r.subject)
      PROVE  r.cases # {} /\ \A n \in r.cases : Named(d.cases, n)
  <2> DEFINE b == r.cases # {} /\ \A n \in r.cases : Named(d.cases, n)
  <2>1. Missing(b) = {}
    BY <1>4, <1>8 DEF requirementCases
  <2> HIDE DEF b
  <2>2. b
    BY <2>1, MissingOrNot
  <2> QED
    BY <2>2 DEF b
<1> QED
  BY <1>6, <1>7, <1>8

-----------------------------------------------------------------------------
(***************************************************************************)
(* The same inequality, asked by the checks and by the property.           *)
(***************************************************************************)
LEMMA Rearranged ==
    ASSUME NEW a \in Int, NEW b \in Int, NEW c \in Int, NEW e \in Int, NEW f \in Int
    PROVE  (a * (b * (c * e))) * f = a * ((b * e) * (f * c))
  OBVIOUS

LEMMA Transposed ==
    ASSUME NEW e \in Int, NEW d \in Int, NEW p \in Int, NEW t \in Int, NEW c \in Int
    PROVE  e * (d * (p * (t * c))) = ((p * c) * (e * t)) * d
  OBVIOUS

\* Span over mean chord is the aspect ratio.
LEMMA AspectFigure ==
    ASSUME NEW b \in Magnitude, NEW s \in Magnitude, NEW y \in Number
    PROVE  /\ Leq(Div(b, Div(s, b)), y) <=> Leq(Div(Sq(b), s), y)
           /\ Leq(y, Div(b, Div(s, b))) <=> Leq(y, Div(Sq(b), s))
<1> DEFINE p == b[1]
           q == b[2]
           t == s[1]
           w == s[2]
           e == y[1]
           f == y[2]
           g == Div(s, b)
           X == Div(b, g)
           Z == Sq(b)
           V == Div(Z, s)
<1>1. /\ p \in Positive /\ q \in Positive /\ t \in Positive /\ w \in Positive /\ e \in Int /\ f \in Positive
      /\ Worth(b, p, q) /\ Worth(s, t, w) /\ Worth(y, e, f)
  BY MagnitudeWorth, NumberParts
<1>2. X = Div(b, g) /\ g = Div(s, b) /\ Z = Mul(b, b) /\ V = Div(Z, s)
  BY DEF Sq
<1> HIDE DEF p, q, t, w, e, f, g, X, Z, V
<1>3. p \in Int /\ q \in Int /\ t \in Int /\ w \in Int
  BY <1>1, PositiveInt
<1>4. Worth(g, t * q, w * p)
  BY <1>1, <1>2, <1>3, DivWorth
<1>5. t * q \in Positive /\ w * p \in Positive /\ q * q \in Positive /\ p * p \in Positive
  BY <1>1, PositiveProduct
<1>6. Worth(X, p * (w * p), q * (t * q))
  BY <1>1, <1>2, <1>3, <1>4, <1>5, DivWorth
<1>7. Worth(Z, p * p, q * q)
  BY <1>1, <1>2, <1>3, MulWorth
<1>8. Worth(V, (p * p) * w, (q * q) * t)
  <2>1. p * p \in Int
    BY <1>5, PositiveInt
  <2> QED
    BY <1>1, <1>2, <1>5, <1>7, <2>1, DivWorth
<1>9. p * (w * p) = (p * p) * w /\ q * (t * q) = (q * q) * t
  BY <1>3
<1>10. (p * p) * w \in Int /\ (q * q) * t \in Positive
  BY <1>1, <1>5, PositiveProduct, PositiveInt
<1> DEFINE n == (p * p) * w
           d == (q * q) * t
<1>11. Worth(X, n, d) /\ Worth(V, n, d) /\ n \in Int /\ d \in Positive
  BY <1>6, <1>8, <1>9, <1>10
<1> HIDE DEF n, d
<1>12. (Leq(X, y) <=> n * f <= e * d) /\ (Leq(V, y) <=> n * f <= e * d)
  BY <1>1, <1>11, LeqWorth
<1>13. (Leq(y, X) <=> e * d <= n * f) /\ (Leq(y, V) <=> e * d <= n * f)
  BY <1>1, <1>11, LeqWorth
<1> QED
  BY <1>12, <1>13 DEF X, V, Z, g

\* A stall speed, squared, is within a bound exactly when the lift at the bound carries the load.
LEMMA StallFigure ==
    ASSUME NEW n \in Magnitude, NEW m \in Magnitude, NEW rho \in Magnitude, NEW s \in Magnitude,
           NEW cl \in Magnitude, NEW S \in Number
    PROVE  LET x == Div(Mul(n, m), Mul(rho, Mul(s, cl)))
               l == Mul(Mul(rho, cl), Mul(S, s))
           IN  /\ Leq(x, S) <=> Leq(Mul(n, m), l)
               /\ Leq(S, x) <=> Leq(l, Mul(n, m))
<1> DEFINE p == rho[1]
           q == rho[2]
           t == s[1]
           w == s[2]
           c == cl[1]
           k == cl[2]
           L == Mul(n, m)
           u == L[1]
           d == L[2]
           e == S[1]
           f == S[2]
           G == Mul(s, cl)
           D == Mul(rho, G)
           X == Div(L, D)
           H == Mul(rho, cl)
           J == Mul(S, s)
           Y == Mul(H, J)
<1>1. L \in Magnitude /\ S \in Number
  BY MagnitudeOperations
<1>2. /\ p \in Positive /\ q \in Positive /\ t \in Positive /\ w \in Positive /\ c \in Positive /\ k \in Positive
      /\ Worth(rho, p, q) /\ Worth(s, t, w) /\ Worth(cl, c, k)
  BY MagnitudeWorth
<1>3. u \in Int /\ d \in Positive /\ Worth(L, u, d) /\ e \in Int /\ f \in Positive /\ Worth(S, e, f)
  <2> HIDE DEF L
  <2> QED
    BY <1>1, MagnitudeWorth, NumberParts
<1>4. G = Mul(s, cl) /\ D = Mul(rho, G) /\ X = Div(L, D) /\ H = Mul(rho, cl) /\ J = Mul(S, s) /\ Y = Mul(H, J)
  OBVIOUS
<1> HIDE DEF p, q, t, w, c, k, u, d, e, f, L, G, D, X, H, J, Y
<1>5. /\ p \in Int /\ q \in Int /\ t \in Int /\ w \in Int /\ c \in Int /\ k \in Int /\ d \in Int /\ f \in Int
  BY <1>2, <1>3, PositiveInt
<1>6. /\ t * c \in Positive /\ w * k \in Positive /\ q * k \in Positive /\ f * w \in Positive
      /\ p * c \in Int /\ e * t \in Int /\ t * c \in Int
  BY <1>2, <1>3, <1>5, PositiveProduct
<1>7. Worth(G, t * c, w * k)
  BY <1>2, <1>4, <1>5, MulWorth
<1>8. Worth(D, p * (t * c), q * (w * k)) /\ p * (t * c) \in Positive /\ q * (w * k) \in Positive
  BY <1>2, <1>4, <1>5, <1>6, <1>7, MulWorth, PositiveProduct
<1>9. /\ Worth(X, u * (q * (w * k)), d * (p * (t * c)))
      /\ u * (q * (w * k)) \in Int /\ d * (p * (t * c)) \in Positive
  <2> DEFINE a == p * (t * c)
             b == q * (w * k)
  <2> HIDE DEF a, b
  <2>1. Worth(D, a, b) /\ a \in Positive /\ b \in Positive
    BY <1>8 DEF a, b
  <2>2. Worth(X, u * b, d * a) /\ d * a \in Positive /\ u * b \in Int
    BY <1>3, <1>4, <2>1, DivWorth, PositiveProduct, PositiveInt
  <2> QED
    BY <2>2 DEF a, b
<1>10. Worth(H, p * c, q * k)
  BY <1>2, <1>4, <1>5, MulWorth
<1>11. Worth(J, e * t, f * w)
  BY <1>2, <1>3, <1>4, <1>5, MulWorth
<1>12. /\ Worth(Y, (p * c) * (e * t), (q * k) * (f * w))
       /\ (p * c) * (e * t) \in Int /\ (q * k) * (f * w) \in Positive
  <2> DEFINE a == p * c
             b == q * k
             g == e * t
             h == f * w
  <2> HIDE DEF a, b, g, h
  <2>1. Worth(H, a, b) /\ Worth(J, g, h) /\ a \in Int /\ b \in Positive /\ g \in Int /\ h \in Positive
    BY <1>6, <1>10, <1>11 DEF a, b, g, h
  <2>2. Worth(Y, a * g, b * h) /\ a * g \in Int /\ b * h \in Positive
    BY <1>4, <2>1, MulWorth, PositiveProduct
  <2> QED
    BY <2>2 DEF a, b, g, h
<1> DEFINE A == u * (q * (w * k))
           B == d * (p * (t * c))
           C == (p * c) * (e * t)
           E == (q * k) * (f * w)
<1>13. A * f = u * E
  BY <1>3, <1>5, Rearranged
<1>14. e * B = C * d
  BY <1>3, <1>5, Transposed
<1> HIDE DEF A, B, C, E
<1>15. /\ Worth(X, A, B) /\ A \in Int /\ B \in Positive /\ Worth(Y, C, E) /\ C \in Int /\ E \in Positive
  BY <1>9, <1>12 DEF A, B, C, E
<1>16. (Leq(X, S) <=> A * f <= e * B) /\ (Leq(S, X) <=> e * B <= A * f)
  BY <1>3, <1>15, LeqWorth
<1>17. (Leq(L, Y) <=> u * E <= C * d) /\ (Leq(Y, L) <=> C * d <= u * E)
  BY <1>3, <1>15, LeqWorth
<1>18. (Leq(X, S) <=> Leq(L, Y)) /\ (Leq(S, X) <=> Leq(Y, L))
  BY <1>13, <1>14, <1>16, <1>17
<1> QED
  BY <1>18 DEF X, L, Y, H, J, D, G

-----------------------------------------------------------------------------
(***************************************************************************)
(* What a computed reading was read from.                                  *)
(***************************************************************************)
LEMMA ErrorStatus ==
    ASSUME NEW issues
    PROVE  statusForError(issues) # "computed"
  BY DEF statusForError

LEMMA ReadingComputed ==
    ASSUME NEW x, reading(x).status = "computed"
    PROVE  x.issues = {} /\ reading(x).v = x.v
<1>1. x.issues = {}
  <2> SUFFICES ASSUME x.issues # {}
               PROVE  FALSE
    OBVIOUS
  <2>1. reading(x).status = statusForError(x.issues)
    BY ReadingFacts DEF reading
  <2> QED
    BY <2>1, ErrorStatus
<1> QED
  BY <1>1, ReadingFacts DEF reading

LEMMA FromMass ==
    ASSUME NEW mass, NEW x, readFrom(mass, x).status = "computed"
    PROVE  mass.status = "computed" /\ x.issues = {} /\ readFrom(mass, x).v = x.v
<1>1. mass.status = "computed"
  BY DEF readFrom
<1> QED
  BY <1>1, ReadingComputed DEF readFrom

LEMMA GeometryRead ==
    ASSUME NEW subject, NEW fc, NEW wing, NEW mass, readGeometry(subject, fc, wing, mass).status = "computed"
    PROVE  LET x == readGeometry(subject, fc, wing, mass)
               proj == wing.v.projected
           IN  /\ wing.issues = {} /\ subject \in {"span", "area", "aspect", "loading", "stall"}
               /\ subject \in {"loading", "stall"} => mass.status = "computed"
               /\ subject = "span" => x.v = proj.span
               /\ subject = "area" => x.v = proj.area
               /\ subject = "aspect" => x.v = wing.v.aspect
               /\ subject = "loading" => x.v = Div(mass.v, proj.area)
               /\ subject = "stall" =>
                    StallSpeed2(fc, mass.v, proj.area).issues = {} /\ x.v = StallSpeed2(fc, mass.v, proj.area).v
<1> DEFINE x    == readGeometry(subject, fc, wing, mass)
           proj == wing.v.projected
           load == WingLoadingMass(mass.v, proj.area)
           vs   == StallSpeed2(fc, mass.v, proj.area)
<1>1. wing.issues = {}
  <2> SUFFICES ASSUME wing.issues # {}
               PROVE  FALSE
    OBVIOUS
  <2>1. x.status = statusForError(wing.issues)
    BY ReadingFacts DEF readGeometry
  <2> QED
    BY <2>1, ErrorStatus
<1>2. x = CASE subject = "span"    -> Reading("computed", proj.span)
            [] subject = "area"    -> Reading("computed", proj.area)
            [] subject = "aspect"  -> Reading("computed", wing.v.aspect)
            [] subject = "loading" -> readFrom(mass, load)
            [] subject = "stall"   -> readFrom(mass, vs)
            [] OTHER -> Reading("missing", None)
  BY <1>1 DEF readGeometry
<1>3. x.status = "computed"
  OBVIOUS
<1> HIDE DEF x, load, vs
<1>4. subject \in {"span", "area", "aspect", "loading", "stall"}
  BY <1>2, <1>3, ReadingFacts
<1>5. CASE subject = "span"
  BY <1>1, <1>2, <1>5, ReadingFacts DEF x
<1>6. CASE subject = "area"
  BY <1>1, <1>2, <1>6, ReadingFacts DEF x
<1>7. CASE subject = "aspect"
  BY <1>1, <1>2, <1>7, ReadingFacts DEF x
<1>8. CASE subject = "loading"
  <2>1. x = readFrom(mass, load)
    BY <1>2, <1>8
  <2>2. mass.status = "computed" /\ load.issues = {} /\ x.v = load.v
    BY <1>3, <2>1, FromMass
  <2>3. load.v = Div(mass.v, proj.area)
    BY <2>2, Finished DEF load, WingLoadingMass
  <2> QED
    BY <1>1, <1>8, <2>2, <2>3 DEF x
<1>9. CASE subject = "stall"
  <2>1. x = readFrom(mass, vs)
    BY <1>2, <1>9
  <2>2. mass.status = "computed" /\ vs.issues = {} /\ x.v = vs.v
    BY <1>3, <2>1, FromMass
  <2> QED
    BY <1>1, <1>9, <2>2 DEF x, vs
<1> QED
  BY <1>4, <1>5, <1>6, <1>7, <1>8, <1>9

-----------------------------------------------------------------------------
\* The totals of a complete mission are those of its segments.
LEMMA SegmentSum ==
    ASSUME NEW parts, NEW key, sumSegments(parts, key).issues = {}
    PROVE  sumSegments(parts, key).v = SumQ([i \in 1 .. Len(parts) |-> parts[i][key]])
<1> DEFINE of  == [i \in 1 .. Len(parts) |-> parts[i][key]]
           bad == UNION {quantity(of[i]) : i \in DOMAIN of}
<1>1. sumSegments(parts, key) = IF bad # {} THEN Fail(bad) ELSE finish({}, SumQ(of))
  BY DEF sumSegments
<1> HIDE DEF of, bad
<1>2. sumSegments(parts, key) = finish({}, SumQ(of))
  BY <1>1 DEF Fail
<1>3. finish({}, SumQ(of)).v = SumQ(of)
  BY <1>2, Finished
<1> QED
  BY <1>2, <1>3 DEF of

LEMMA SumsComputed ==
    ASSUME NEW energy, NEW dur, NEW ground, sumsOf(energy, dur, ground).status = "computed"
    PROVE  /\ energy.issues = {} /\ dur.issues = {} /\ ground.issues = {}
           /\ sumsOf(energy, dur, ground).energy = energy.v
           /\ sumsOf(energy, dur, ground).duration = dur.v
           /\ sumsOf(energy, dur, ground).distance = ground.v
<1> DEFINE out(issues, e, t, l) == [status |-> IF issues = {} THEN "computed" ELSE statusForError(issues),
                                    energy |-> e, duration |-> t, distance |-> l]
           x == sumsOf(energy, dur, ground)
<1>1. x = IF energy.issues # {} THEN out(energy.issues, None, None, None)
          ELSE IF dur.issues # {} THEN out(dur.issues, energy.v, None, None)
          ELSE out(ground.issues, energy.v, dur.v, ground.v)
  BY DEF sumsOf
<1>2. \A issues, e, t, l : /\ issues # {} => out(issues, e, t, l).status # "computed"
                           /\ out(issues, e, t, l).energy = e /\ out(issues, e, t, l).duration = t
                           /\ out(issues, e, t, l).distance = l
  BY ErrorStatus
<1> HIDE DEF out, x
<1>3. x.status = "computed"
  BY DEF x
<1>4. energy.issues = {} /\ dur.issues = {} /\ ground.issues = {}
  BY <1>1, <1>2, <1>3
<1> QED
  BY <1>1, <1>2, <1>4 DEF x

LEMMA MissionTotals ==
    ASSUME NEW d, Formed(d), NEW wing, MissionAnalysis(d, wing).status = "computed",
           MissionAnalysis(d, wing).complete
    PROVE  LET m == MissionAnalysis(d, wing)
               segs == m.segments
           IN  /\ m.energy = SumQ([i \in DOMAIN segs |-> segs[i].energy])
               /\ m.duration = SumQ([i \in DOMAIN segs |-> segs[i].duration])
               /\ m.distance = SumQ([i \in DOMAIN segs |-> segs[i].distance])
               /\ m.peak = Most([i \in DOMAIN segs |-> segs[i].power.electrical])
<1> DEFINE m     == MissionAnalysis(d, wing)
           n     == Len(d.mission.segments)
           parts == segmentsOf(d, powerContext(d, wing), ElectricalBudget(d))
           done  == Computed(parts)
           sums  == finishSums(done)
           judge == applyEnergyBudget(d, sums, parts # <<>> /\ done = parts)
           most  == Most([i \in 1 .. Len(done) |-> done[i].power.electrical])
<1>1. m = missionOf(parts, done, sums, judge)
  BY DEF MissionAnalysis, analysed, summed
<1>2. n \in Nat /\ parts = [i \in 1 .. n |-> parts[i]]
  BY NamedListFacts DEF Formed, segmentsOf
<1> HIDE DEF m, n, parts, done, sums, judge
<1>3. /\ m.segments = parts /\ m.complete = (parts # <<>> /\ done = parts) /\ m.status = sums.status
      /\ m.energy = sums.energy /\ m.duration = sums.duration /\ m.distance = sums.distance
      /\ m.peak = IF done = <<>> THEN None ELSE most
  BY <1>1 DEF missionOf
<1>4. parts # <<>> /\ done = parts /\ sums.status = "computed"
  BY <1>3 DEF m
<1>5. DOMAIN parts = 1 .. Len(parts)
  BY <1>2, FunctionList
<1> DEFINE e == sumSegments(parts, "energy")
           t == sumSegments(parts, "duration")
           l == sumSegments(parts, "distance")
<1>6. sums = sumsOf(e, t, l)
  BY <1>4 DEF finishSums, sums
<1> HIDE DEF e, t, l
<1>7. /\ e.issues = {} /\ t.issues = {} /\ l.issues = {}
      /\ sums.energy = e.v /\ sums.duration = t.v /\ sums.distance = l.v
  BY <1>4, <1>6, SumsComputed
<1>8. e.v = SumQ([i \in DOMAIN parts |-> parts[i].energy])
  BY <1>5, <1>7, SegmentSum DEF e
<1>9. t.v = SumQ([i \in DOMAIN parts |-> parts[i].duration])
  BY <1>5, <1>7, SegmentSum DEF t
<1>10. l.v = SumQ([i \in DOMAIN parts |-> parts[i].distance])
  BY <1>5, <1>7, SegmentSum DEF l
<1>11. most = Most([i \in DOMAIN parts |-> parts[i].power.electrical])
  BY <1>4, <1>5
<1> HIDE DEF most
<1>12. m.peak = most
  BY <1>3, <1>4
<1> QED
  BY <1>3, <1>7, <1>8, <1>9, <1>10, <1>11, <1>12 DEF m

-----------------------------------------------------------------------------
\* A computed reading of a subject that is not asked for case by case.
LEMMA PowerRead ==
    ASSUME NEW d, Formed(d), NEW wing, NEW subject \in PowerSubjects,
           readPowerSubject(d, subject, MissionAnalysis(d, wing)).status = "computed"
    PROVE  LET m == MissionAnalysis(d, wing)
               v == readPowerSubject(d, subject, m).v
               segs == m.segments
           IN  /\ subject # "clearance" => m.complete
               /\ subject = "energy" => v = SumQ([i \in DOMAIN segs |-> segs[i].energy])
               /\ subject = "duration" => v = SumQ([i \in DOMAIN segs |-> segs[i].duration])
               /\ subject = "range" => v = SumQ([i \in DOMAIN segs |-> segs[i].distance])
               /\ subject = "power" => v = Most([i \in DOMAIN segs |-> segs[i].power.electrical])
               /\ subject = "clearance" =>
                    /\ Supplied(d.limits.diameter) /\ Supplied(d.limits.hub)
                    /\ v = Sub(d.limits.hub, Half(d.limits.diameter))
<1> DEFINE m == MissionAnalysis(d, wing)
           x == readPowerSubject(d, subject, m)
<1>1. m.status = "computed" /\ m.complete =>
        LET segs == m.segments
        IN  /\ m.energy = SumQ([i \in DOMAIN segs |-> segs[i].energy])
            /\ m.duration = SumQ([i \in DOMAIN segs |-> segs[i].duration])
            /\ m.distance = SumQ([i \in DOMAIN segs |-> segs[i].distance])
            /\ m.peak = Most([i \in DOMAIN segs |-> segs[i].power.electrical])
  BY MissionTotals
<1> HIDE DEF m
<1>2. CASE subject = "clearance"
  <2>1. Supplied(d.limits.diameter) /\ Supplied(d.limits.hub) /\ x = reading(PropellerClearance(d))
    BY <1>2, ReadingFacts DEF readPowerSubject
  <2>2. PropellerClearance(d).issues = {} /\ x.v = PropellerClearance(d).v
    BY <2>1, ReadingComputed DEF m
  <2>3. PropellerClearance(d).v = Sub(d.limits.hub, Half(d.limits.diameter))
    BY <2>2 DEF PropellerClearance, PropellerTipClearance, finishSigned, Fail, Ok
  <2> QED
    BY <1>2, <2>1, <2>2, <2>3 DEF m
<1>3. CASE subject # "clearance"
  <2>1. m.status = "computed"
    BY <1>3, ReadingFacts DEF readPowerSubject, m
  <2>2. m.complete
    BY <1>3, <2>1, ReadingFacts DEF readPowerSubject, m
  <2> DEFINE y == CASE subject = "power" -> m.peak [] subject = "energy" -> m.energy
                    [] subject = "duration" -> m.duration [] subject = "range" -> m.distance
  <2>3. x = Reading("computed", y)
    BY <1>3, <2>1, <2>2 DEF readPowerSubject
  <2>4. /\ subject = "energy" => y = m.energy
        /\ subject = "duration" => y = m.duration
        /\ subject = "range" => y = m.distance
        /\ subject = "power" => y = m.peak
    OBVIOUS
  <2> HIDE DEF y, x
  <2>5. x.v = y
    BY <2>3, ReadingFacts
  <2> QED
    BY <1>1, <1>3, <2>1, <2>2, <2>4, <2>5 DEF m, x
<1> QED
  BY <1>2, <1>3

\* What a computed value v of a subject of design d is, given the wing, the mission and the mass.
ReadAs(d, subject, wing, m, mass, v) ==
  LET proj == wing.v.projected
      segs == m.segments
  IN  /\ subject \in {"mass", "span", "area", "aspect", "loading"} \cup PowerSubjects
      /\ subject \in {"mass", "loading"} => mass.status = "computed"
      /\ subject \in {"span", "area", "aspect", "loading"} => wing.issues = {}
      /\ subject \in PowerSubjects \ {"clearance"} => m.complete
      /\ subject = "mass" => v = mass.v
      /\ subject = "span" => v = proj.span
      /\ subject = "area" => v = proj.area
      /\ subject = "aspect" => v = wing.v.aspect
      /\ subject = "loading" => v = Div(mass.v, proj.area)
      /\ subject = "energy" => v = SumQ([i \in DOMAIN segs |-> segs[i].energy])
      /\ subject = "duration" => v = SumQ([i \in DOMAIN segs |-> segs[i].duration])
      /\ subject = "range" => v = SumQ([i \in DOMAIN segs |-> segs[i].distance])
      /\ subject = "power" => v = Most([i \in DOMAIN segs |-> segs[i].power.electrical])
      /\ subject = "clearance" =>
           /\ Supplied(d.limits.diameter) /\ Supplied(d.limits.hub)
           /\ v = Sub(d.limits.hub, Half(d.limits.diameter))

LEMMA PlainRead ==
    ASSUME NEW d, Formed(d), NEW subject, subject # "stall",
           read(d, subject, None, SolveWing(d.wing), MissionAnalysis(d, SolveWing(d.wing))).status = "computed"
    PROVE  LET wing == SolveWing(d.wing)
               m    == MissionAnalysis(d, wing)
           IN  ReadAs(d, subject, wing, m, massReading(d), read(d, subject, None, wing, m).v)
<1> DEFINE wing == SolveWing(d.wing)
           m    == MissionAnalysis(d, wing)
           mass == massReading(d)
           x    == read(d, subject, None, wing, m)
<1>1. CASE subject = "mass"
  <2>1. x = mass /\ subject \notin PowerSubjects
    BY <1>1 DEF read, PowerSubjects
  <2> HIDE DEF mass, wing, m, x
  <2> QED
    BY <1>1, <2>1 DEF ReadAs, x, mass, wing, m
<1>2. CASE subject \in PowerSubjects
  <2>1. x = readPowerSubject(d, subject, m) /\ subject \notin {"mass", "span", "area", "aspect", "loading"}
    BY <1>2 DEF read, PowerSubjects
  <2> HIDE DEF wing
  <2> QED
    BY <1>2, <2>1, PowerRead DEF ReadAs, wing
<1>3. CASE subject # "mass" /\ subject \notin PowerSubjects
  <2>1. x = readGeometry(subject, None, wing, mass)
    BY <1>3 DEF read
  <2>2. subject # "energy" /\ subject # "duration" /\ subject # "range" /\ subject # "power" /\ subject # "clearance"
    BY <1>3 DEF PowerSubjects
  <2> HIDE DEF wing, mass, m
  <2> QED
    BY <1>3, <2>1, <2>2, GeometryRead DEF ReadAs, wing, mass, m
<1> QED
  BY <1>1, <1>2, <1>3

\* A bound that is stated and of the subject's dimension, with its margin taken off.
LEMMA BoundsStated ==
    ASSUME NEW r, MeasuredReq(r), r.min # Wrong, r.max # Wrong
    PROVE  /\ Supplied(r.max) => /\ effectiveMaximum(r) = Mul(r.max, Sub(One, r.margin))
                                 /\ effectiveMaximum(r) \in Number
           /\ Supplied(r.min) => /\ effectiveMinimum(r) = Mul(r.min, Add(One, r.margin))
                                 /\ effectiveMinimum(r) \in Number
<1>1. Supplied(r.max) => r.max \in Number
  BY DEF MeasuredReq, Quantity, Supplied
<1>2. Supplied(r.min) => r.min \in Number
  BY DEF MeasuredReq, Quantity, Supplied
<1> QED
  BY <1>1, <1>2, EffectiveBounds DEF effectiveMaximum, effectiveMinimum

\* A stall ceiling or floor that is met is met by the lift equation.
LEMMA StallHeld ==
    ASSUME NEW d, Formed(d), Measured(d), NEW r, MeasuredReq(r), r.min # Wrong, r.max # Wrong,
           NEW fc, MeasuredCase(fc),
           LET x == readGeometry("stall", fc, SolveWing(d.wing), massReading(d))
           IN  /\ x.status = "computed"
               /\ Supplied(r.min) => atLeast("stall", x.v, effectiveMinimum(r))
               /\ Supplied(r.max) => atMost("stall", x.v, effectiveMaximum(r))
    PROVE  /\ massReading(d).status = "computed" /\ SolveWing(d.wing).issues = {}
           /\ Carried(r, fc, massReading(d), SolveWing(d.wing))
<1> DEFINE wing == SolveWing(d.wing)
           mass == massReading(d)
           x  == readGeometry("stall", fc, wing, mass)
           s  == wing.v.projected.area
           vs == StallSpeed2(fc, mass.v, s)
           hi == effectiveMaximum(r)
           lo == effectiveMinimum(r)
           fraction2 == Div(Mul(fc.load, mass.v), Mul(fc.density, Mul(s, fc.clmax)))
<1>1. mass.status = "computed" /\ wing.issues = {} /\ vs.issues = {} /\ x.v = vs.v
  <2> DEFINE subject == "stall"
             y == readGeometry(subject, fc, wing, mass)
  <2>1. y.status = "computed" /\ x = y
    OBVIOUS
  <2>2. subject = "stall"
    OBVIOUS
  <2> HIDE DEF wing, mass, subject, x
  <2>3. wing.issues = {} /\ mass.status = "computed" /\ vs.issues = {} /\ y.v = vs.v
    BY <2>1, <2>2, GeometryRead
  <2> QED
    BY <2>1, <2>3
<1>2. /\ quantity(mass.v) \cup quantity(s) \cup density(fc) \cup loadFactor(fc) \cup clmax(fc) = {}
      /\ vs.v = fraction2
  BY <1>1, Finished DEF StallSpeed2
<1>3. mass.v \in Magnitude
  BY <1>2, MassRead, ReadQuantity
<1>4. s \in Magnitude
  BY <1>1, WingSolved DEF Measured
<1>5. /\ fc.densityBasis /\ fc.density \in Magnitude /\ fc.load \in Magnitude
      /\ fc.clScope = "aircraft" /\ fc.clBasis /\ fc.clmax \in Magnitude
  BY <1>2, CaseRead
<1>6. /\ Supplied(r.max) => hi = Mul(r.max, Sub(One, r.margin)) /\ hi \in Number
      /\ Supplied(r.min) => lo = Mul(r.min, Add(One, r.margin)) /\ lo \in Number
  BY BoundsStated
<1>7. /\ Supplied(r.min) => lo[1] < 0 \/ Leq(Sq(lo), fraction2)
      /\ Supplied(r.max) => hi[1] >= 0 /\ Leq(fraction2, Sq(hi))
  <2> HIDE DEF mass, s, hi, lo, wing, vs, fraction2
  <2>1. x.v = fraction2
    BY <1>1, <1>2 DEF wing, mass
  <2>2. /\ Supplied(r.min) => atLeast("stall", x.v, lo)
        /\ Supplied(r.max) => atMost("stall", x.v, hi)
    BY DEF lo, hi, wing, mass
  <2> HIDE DEF x
  <2> QED
    BY <2>1, <2>2 DEF atLeast, atMost, PerCase
<1> HIDE DEF mass, s, hi, lo, wing, vs, x
<1>8. ASSUME NEW v \in Number
      PROVE  LET l == Mul(Mul(fc.density, fc.clmax), Mul(Sq(v), s))
             IN  /\ Leq(fraction2, Sq(v)) <=> Leq(Mul(fc.load, mass.v), l)
                 /\ Leq(Sq(v), fraction2) <=> Leq(l, Mul(fc.load, mass.v))
  <2>1. Sq(v) \in Number
    BY NumberOperations
  <2> QED
    BY <1>3, <1>4, <1>5, <2>1, StallFigure
<1> HIDE DEF fraction2
<1>9. /\ Demanded(fc, mass) = Mul(fc.load, mass.v)
      /\ \A v : LiftAt(fc, v, wing) = Mul(Mul(fc.density, fc.clmax), Mul(Sq(v), s))
  BY DEF Demanded, LiftAt, s
<1>10. Supplied(r.max) => hi[1] >= 0 /\ Leq(Demanded(fc, mass), LiftAt(fc, hi, wing))
  BY <1>6, <1>7, <1>8, <1>9
<1>11. Supplied(r.min) => lo[1] < 0 \/ Leq(LiftAt(fc, lo, wing), Demanded(fc, mass))
  BY <1>6, <1>7, <1>8, <1>9
<1>12. Carried(r, fc, mass, wing)
  BY <1>5, <1>6, <1>10, <1>11 DEF Carried
<1> QED
  BY <1>1, <1>12 DEF mass, wing

-----------------------------------------------------------------------------
(***************************************************************************)
(* A "met" verdict is earned: every required requirement of a design       *)
(* without issues holds of the mass, the wing and the segments themselves. *)
(***************************************************************************)
LEMMA PlainEarned ==
    ASSUME Formed(Design), Measured(Design), Validate(Design) = {}, Aggregate(Assess(Design)) = "met",
           NEW r \in ToSet(Design.reqs), r.priority = "required", r.subject # "stall"
    PROVE  LET mass == massReading(Design)
               m == MissionAnalysis(Design, Wing)
           IN  Answerable(r, mass, Wing, m) /\ Holds(r, mass, Wing, m)
<1> DEFINE mass == massReading(Design)
           m    == MissionAnalysis(Design, Wing)
           proj == Wing.v.projected
           segs == m.segments
           x    == read(Design, r.subject, None, Wing, m)
           v    == x.v
           hi   == effectiveMaximum(r)
           lo   == effectiveMinimum(r)
           fig  == Figure(r, mass, Wing, segs)
           ratio == Div(proj.span, Div(proj.area, proj.span))
<1>1. Wing = SolveWing(Design.wing)
  BY DEF Wing
<1>2. ~PerCase(r.subject)
  BY DEF PerCase
<1>3. (Supplied(r.min) \/ Supplied(r.max)) /\ r.min # Wrong /\ r.max # Wrong
  BY RequirementRead
<1>4. ToSet(checkBounds(r, "", x)) \subseteq ToSet(Assess(Design))
  BY <1>1, <1>2, ChecksMade
<1>5. x.status = "computed" /\ (Supplied(r.min) => Leq(lo, v)) /\ (Supplied(r.max) => Leq(v, hi))
  <2> HIDE DEF x, lo, hi
  <2>1. /\ Supplied(r.min) \/ Supplied(r.max) => x.status = "computed"
        /\ Supplied(r.min) => Leq(effectiveMinimum(r), x.v)
        /\ Supplied(r.max) => Leq(x.v, effectiveMaximum(r))
    BY <1>2, <1>4, BoundMet DEF atLeast, atMost
  <2> QED
    BY <1>3, <2>1 DEF lo, hi
<1>6. ReadAs(Design, r.subject, Wing, m, mass, v)
  BY <1>1, <1>5, PlainRead
<1>7. MeasuredReq(r)
  BY DEF Measured
<1>8. /\ Supplied(r.max) => hi = Mul(r.max, Sub(One, r.margin)) /\ hi \in Number
      /\ Supplied(r.min) => lo = Mul(r.min, Add(One, r.margin)) /\ lo \in Number
  BY <1>3, <1>7, BoundsStated
<1>9. ASSUME r.subject = "aspect"
      PROVE  \A y \in Number : (Leq(ratio, y) <=> Leq(v, y)) /\ (Leq(y, ratio) <=> Leq(y, v))
  <2>1. proj.span \in Magnitude /\ proj.area \in Magnitude /\ v = Div(Sq(proj.span), proj.area)
    BY <1>1, <1>6, <1>9, WingSolved DEF Measured, ReadAs
  <2> HIDE DEF v, proj
  <2> QED
    BY <2>1, AspectFigure
<1>10. /\ r.subject = "aspect" => fig = ratio
       /\ r.subject # "aspect" => fig = v
  <2> HIDE DEF mass, m, v, ratio, x
  <2> QED
    BY <1>6 DEF Figure, ReadAs, PowerSubjects, ratio
<1> HIDE DEF fig, v, hi, lo, ratio, x
<1>11. (Supplied(r.max) => Leq(fig, hi)) /\ (Supplied(r.min) => Leq(lo, fig))
  <2>1. CASE r.subject = "aspect"
    BY <1>5, <1>8, <1>9, <1>10, <2>1
  <2>2. CASE r.subject # "aspect"
    BY <1>5, <1>10, <2>2
  <2> QED
    BY <2>1, <2>2
<1>12. Holds(r, mass, Wing, m)
  BY <1>8, <1>11 DEF Holds, fig
<1>13. Answerable(r, mass, Wing, m)
  <2> HIDE DEF mass, m
  <2> QED
    BY <1>6 DEF Answerable, ReadAs, Subjects, PowerSubjects
<1> QED
  BY <1>12, <1>13

LEMMA StallEarned ==
    ASSUME Formed(Design), Measured(Design), Validate(Design) = {}, Aggregate(Assess(Design)) = "met",
           NEW r \in ToSet(Design.reqs), r.priority = "required", r.subject = "stall"
    PROVE  LET mass == massReading(Design)
               m == MissionAnalysis(Design, Wing)
           IN  Answerable(r, mass, Wing, m) /\ Holds(r, mass, Wing, m)
<1> DEFINE mass == massReading(Design)
           m    == MissionAnalysis(Design, Wing)
           cases == Design.cases
<1>1. Wing = SolveWing(Design.wing) /\ MeasuredReq(r) /\ \A fc \in ToSet(cases) : MeasuredCase(fc)
  BY DEF Wing, Measured
<1>2. PerCase(r.subject)
  BY DEF PerCase
<1>3. /\ (Supplied(r.min) \/ Supplied(r.max)) /\ r.min # Wrong /\ r.max # Wrong
      /\ r.cases # {} /\ \A n \in r.cases : Named(cases, n)
  BY <1>2, RequirementRead
<1>4. NamedList(cases)
  BY DEF Formed, Lists
<1>5. ASSUME NEW n \in r.cases
      PROVE  mass.status = "computed" /\ Wing.issues = {} /\ Carried(r, Get(cases, n), mass, Wing)
  <2> DEFINE j  == Place(cases, n)
             fc == cases[j]
             x  == readGeometry("stall", fc, Wing, mass)
  <2>1. j \in 1 .. Len(cases) /\ fc.name = n /\ fc \in ToSet(cases)
    BY <1>3, <1>4, PlaceIsThere, NamedListFacts
  <2>2. x = read(Design, r.subject, fc, Wing, m)
    BY DEF read, PowerSubjects
  <2>3. ToSet(checkBounds(r, fc.name, x)) \subseteq ToSet(Assess(Design))
    BY <1>1, <1>2, <2>1, <2>2, ChecksMade DEF appliesTo
  <2> HIDE DEF j, mass, m
  <2>4. /\ x.status = "computed"
        /\ Supplied(r.min) => atLeast("stall", x.v, effectiveMinimum(r))
        /\ Supplied(r.max) => atMost("stall", x.v, effectiveMaximum(r))
    <3> HIDE DEF x, fc
    <3>1. /\ Supplied(r.min) \/ Supplied(r.max) => x.status = "computed"
          /\ Supplied(r.min) => atLeast("stall", x.v, effectiveMinimum(r))
          /\ Supplied(r.max) => atMost("stall", x.v, effectiveMaximum(r))
      BY <2>3, BoundMet
    <3> QED
      BY <1>3, <3>1
  <2>5. fc = Get(cases, n) /\ MeasuredCase(fc)
    BY <1>1, <2>1 DEF Get, j
  <2> HIDE DEF fc
  <2> QED
    BY <1>1, <1>3, <2>4, <2>5, StallHeld DEF mass
<1> HIDE DEF mass, m
<1>6. mass.status = "computed" /\ Wing.issues = {}
  BY <1>3, <1>5
<1>7. Holds(r, mass, Wing, m)
  BY <1>3, <1>5 DEF Holds
<1>8. Answerable(r, mass, Wing, m)
  BY <1>6 DEF Answerable, PowerSubjects
<1> QED
  BY <1>7, <1>8 DEF mass, m

LEMMA MeasuredIsEarned == MeasuredInv => VerdictIsEarned
<1> SUFFICES ASSUME MeasuredInv, Validate(Design) = {}, Aggregate(Assess(Design)) = "met",
                    NEW r \in ToSet(Design.reqs), r.priority = "required"
             PROVE  LET mass == massReading(Design)
                        m == MissionAnalysis(Design, Wing)
                    IN  Answerable(r, mass, Wing, m) /\ Holds(r, mass, Wing, m)
  BY DEF VerdictIsEarned, Earned
<1>1. Formed(Design) /\ Measured(Design)
  BY DEF MeasuredInv, HistoryInv, Design, Sound
<1> QED
  BY <1>1, PlainEarned, StallEarned

\* A "met" verdict on a design with no issues is earned (requirements.go Assess,
\* Aggregate): every required requirement holds, its margin taken off, of the design's
\* own mass, solved wing, lift equation and segments, on evidence that was computed.
THEOREM VerdictIsEarnedAlways == Spec => []VerdictIsEarned
<1>1. Init => MeasuredInv
  BY InitMeasured
<1>2. MeasuredInv /\ [Next]_vars => MeasuredInv'
  BY NextMeasured
<1>3. MeasuredInv => VerdictIsEarned
  BY MeasuredIsEarned
<1> QED
  BY <1>1, <1>2, <1>3, PTL DEF Spec

-----------------------------------------------------------------------------
(***************************************************************************)
(* A stall ceiling, the least area under it and the greatest mass under it *)
(* are one inequality.                                                     *)
(***************************************************************************)
\* Multiplying in another order gives the same number.
LEMMA MulCommutes ==
    ASSUME NEW x \in Number, NEW y \in Number
    PROVE  Mul(x, y) = Mul(y, x)
<1> DEFINE a == x[1]
           b == x[2]
           u == y[1]
           v == y[2]
<1>1. a \in Int /\ b \in Int /\ u \in Int /\ v \in Int
  BY NumberParts
<1>2. Mul(x, y) = Q(a * u, b * v) /\ Mul(y, x) = Q(u * a, v * b)
  BY DEF Mul
<1> HIDE DEF a, b, u, v
<1>3. a * u = u * a /\ b * v = v * b
  BY <1>1
<1> QED
  BY <1>2, <1>3

LEMMA MulRegroups ==
    ASSUME NEW x \in Number, NEW y \in Number, NEW z \in Number, NEW w \in Number
    PROVE  Mul(Mul(x, y), Mul(z, w)) = Mul(Mul(x, z), Mul(y, w))
<1>1. ASSUME NEW a \in Number, NEW b \in Number, NEW c \in Number, NEW d \in Number
      PROVE  LET r == Mul(Mul(a, b), Mul(c, d))
             IN  /\ Worth(r, (a[1] * b[1]) * (c[1] * d[1]), (a[2] * b[2]) * (c[2] * d[2]))
                 /\ Reduced(r)
  <2> DEFINE p == a[1]
             q == a[2]
             s == b[1]
             t == b[2]
             e == c[1]
             f == c[2]
             g == d[1]
             h == d[2]
             i == Mul(a, b)
             j == Mul(c, d)
             r == Mul(i, j)
  <2>1. /\ p \in Int /\ q \in Positive /\ s \in Int /\ t \in Positive /\ Worth(a, p, q) /\ Worth(b, s, t)
        /\ e \in Int /\ f \in Positive /\ g \in Int /\ h \in Positive /\ Worth(c, e, f) /\ Worth(d, g, h)
    BY NumberParts
  <2>2. i = Mul(a, b) /\ j = Mul(c, d) /\ r = Mul(i, j)
    OBVIOUS
  <2> HIDE DEF p, q, s, t, e, f, g, h, i, j, r
  <2>3. Worth(i, p * s, q * t) /\ Worth(j, e * g, f * h)
    BY <2>1, <2>2, MulWorth
  <2>4. p * s \in Int /\ e * g \in Int /\ q * t \in Positive /\ f * h \in Positive
    BY <2>1, PositiveProduct
  <2>5. Worth(r, (p * s) * (e * g), (q * t) * (f * h))
    BY <2>2, <2>3, <2>4, MulWorth
  <2>6. Reduced(r)
    BY <2>2, <2>3, OperationsReduced DEF Worth
  <2> QED
    BY <2>5, <2>6 DEF p, q, s, t, e, f, g, h, i, j, r
<1> DEFINE p == x[1]
           q == x[2]
           s == y[1]
           t == y[2]
           e == z[1]
           f == z[2]
           g == w[1]
           h == w[2]
           l == Mul(Mul(x, y), Mul(z, w))
           r == Mul(Mul(x, z), Mul(y, w))
<1>2. /\ Worth(l, (p * s) * (e * g), (q * t) * (f * h)) /\ Reduced(l)
      /\ Worth(r, (p * e) * (s * g), (q * f) * (t * h)) /\ Reduced(r)
  BY <1>1
<1>3. /\ p \in Int /\ q \in Positive /\ s \in Int /\ t \in Positive
      /\ e \in Int /\ f \in Positive /\ g \in Int /\ h \in Positive
  BY NumberParts
<1> HIDE DEF p, q, s, t, e, f, g, h, l, r
<1>4. (p * s) * (e * g) = (p * e) * (s * g)
  BY <1>3
<1>5. (q * t) * (f * h) = (q * f) * (t * h)
  BY <1>3, PositiveInt
<1>6. (p * e) * (s * g) \in Int /\ (q * f) * (t * h) \in Positive
  BY <1>3, PositiveProduct
<1>7. l = r
  BY <1>2, <1>4, <1>5, <1>6, SameWorth
<1> QED
  BY <1>7 DEF l, r

\* A product is within a bound exactly when one factor is within the bound over the other.
LEMMA DivLeq ==
    ASSUME NEW n \in Magnitude, NEW m \in Number, NEW y \in Number
    PROVE  Leq(Mul(n, m), y) <=> Leq(m, Div(y, n))
<1> DEFINE p == n[1]
           q == n[2]
           u == m[1]
           d == m[2]
           e == y[1]
           f == y[2]
           X == Mul(n, m)
           Y == Div(y, n)
<1>1. /\ p \in Positive /\ q \in Positive /\ Worth(n, p, q) /\ u \in Int /\ d \in Positive /\ Worth(m, u, d)
      /\ e \in Int /\ f \in Positive /\ Worth(y, e, f) /\ p \in Int
  BY MagnitudeWorth, NumberParts, PositiveInt
<1>2. X = Mul(n, m) /\ Y = Div(y, n)
  OBVIOUS
<1> HIDE DEF p, q, u, d, e, f, X, Y
<1>3. Worth(X, p * u, q * d) /\ Worth(Y, e * q, f * p)
  BY <1>1, <1>2, MulWorth, DivWorth
<1>4. p * u \in Int /\ q * d \in Positive /\ e * q \in Int /\ f * p \in Positive
  BY <1>1, PositiveProduct, PositiveInt
<1>5. (Leq(X, y) <=> (p * u) * f <= e * (q * d)) /\ (Leq(m, Y) <=> u * (f * p) <= (e * q) * d)
  BY <1>1, <1>3, <1>4, LeqWorth
<1>6. (p * u) * f = u * (f * p) /\ e * (q * d) = (e * q) * d
  BY <1>1, PositiveInt
<1> QED
  BY <1>5, <1>6 DEF X, Y

\* One inequality, read as a speed, as an area and as a mass.
LEMMA ThreeFigures ==
    ASSUME NEW n \in Magnitude, NEW m \in Magnitude, NEW rho \in Magnitude, NEW s \in Magnitude,
           NEW cl \in Magnitude, NEW vs \in Magnitude
    PROVE  LET speed == Div(Mul(n, m), Mul(rho, Mul(s, cl)))
               area  == Div(Mul(n, m), Mul(rho, Mul(Sq(vs), cl)))
               mass  == Div(Mul(Mul(rho, Sq(vs)), Mul(s, cl)), n)
           IN  /\ Leq(speed, Sq(vs)) <=> Leq(area, s)
               /\ Leq(speed, Sq(vs)) <=> Leq(m, mass)
<1> DEFINE V == Sq(vs)
           L == Mul(n, m)
           Y == Mul(Mul(rho, cl), Mul(V, s))
           Z == Mul(Mul(rho, V), Mul(s, cl))
<1>1. V \in Magnitude
  BY MagnitudeOperations
<1>2. n \in Number /\ m \in Number /\ rho \in Number /\ s \in Number /\ cl \in Number /\ V \in Number
  BY <1>1, MagnitudeWorth
<1> HIDE DEF V
<1>3. Leq(Div(L, Mul(rho, Mul(s, cl))), V) <=> Leq(L, Y)
  BY <1>2, StallFigure
<1>4. Leq(Div(L, Mul(rho, Mul(V, cl))), s) <=> Leq(L, Mul(Mul(rho, cl), Mul(s, V)))
  BY <1>1, <1>2, StallFigure
<1>5. Mul(s, V) = Mul(V, s) /\ Mul(s, cl) = Mul(cl, s)
  BY <1>2, MulCommutes
<1>6. Y = Z
  <2>1. Y = Mul(Mul(rho, V), Mul(cl, s))
    BY <1>2, MulRegroups
  <2> QED
    BY <1>5, <2>1
<1>7. Z \in Number
  <2>1. Mul(rho, V) \in Number /\ Mul(s, cl) \in Number
    BY <1>2, NumberOperations
  <2> QED
    BY <2>1, NumberOperations
<1>8. Leq(L, Z) <=> Leq(m, Div(Z, n))
  <2> HIDE DEF Z
  <2> QED
    BY <1>2, <1>7, DivLeq
<1> QED
  BY <1>3, <1>4, <1>5, <1>6, <1>8 DEF V

\* A span within S at an aspect ratio of at least A is of an area within S^2/A.
LEMMA SquaresInOrder ==
    ASSUME NEW b \in Magnitude, NEW S \in Number, Leq(b, S)
    PROVE  Leq(Sq(b), Sq(S)) /\ S \in Magnitude
<1> DEFINE p == b[1]
           q == b[2]
           e == S[1]
           f == S[2]
<1>1. /\ p \in Positive /\ q \in Positive /\ e \in Int /\ f \in Positive /\ p * f <= e * q
      /\ Worth(b, p, q) /\ Worth(S, e, f) /\ p \in Int
  BY MagnitudeWorth, NumberParts, PositiveInt DEF Leq
<1>2. Sq(b) = Mul(b, b) /\ Sq(S) = Mul(S, S)
  BY DEF Sq
<1> HIDE DEF p, q, e, f
<1>3. p * f \in Positive /\ e * q \in Int /\ e * e \in Int /\ p * p \in Int /\ q * q \in Positive /\ f * f \in Positive
  BY <1>1, PositiveProduct, PositiveInt
<1>4. e \in Positive
  <2> DEFINE x == e * q
             y == p * f
  <2>1. x \in Int /\ y \in Positive /\ y <= x
    BY <1>1, <1>3
  <2> HIDE DEF x, y
  <2>2. x > 0
    BY <2>1 DEF Positive
  <2>3. e * q > 0
    BY <2>2 DEF x
  <2>4. e > 0
    BY <1>1, <2>3, PositiveFactor
  <2> QED
    BY <1>1, <2>4 DEF Positive
<1>5. S \in Magnitude
  BY <1>1, <1>4, IsMagnitude
<1>6. Worth(Sq(b), p * p, q * q) /\ Worth(Sq(S), e * e, f * f)
  BY <1>1, <1>2, MulWorth
<1>7. (p * p) * (f * f) <= (e * e) * (q * q)
  <2> DEFINE x == p * f
             y == e * q
  <2>1. (p * p) * (f * f) = x * x /\ (e * e) * (q * q) = y * y
    BY <1>1, PositiveInt
  <2>2. x \in Positive /\ y \in Positive /\ x <= y
    BY <1>1, <1>3, <1>4, PositiveProduct
  <2> HIDE DEF x, y
  <2>3. x \in Int /\ y \in Int
    BY <2>2, PositiveInt
  <2>4. x * x <= y * x /\ x * y <= y * y
    BY <2>2, <2>3, Cancel
  <2>5. x * y = y * x /\ x * x \in Int /\ x * y \in Int /\ y * y \in Int
    BY <2>3
  <2> QED
    BY <2>1, <2>4, <2>5
<1>8. Leq(Sq(b), Sq(S))
  BY <1>3, <1>6, <1>7, LeqWorth
<1> QED
  BY <1>5, <1>8

LEMMA SlenderArea ==
    ASSUME NEW b \in Magnitude, NEW s \in Magnitude, NEW S \in Number, NEW A \in Magnitude,
           Leq(b, S), Leq(A, Div(Sq(b), s))
    PROVE  Leq(s, Div(Sq(S), A))
<1>1. Sq(b) \in Number /\ Sq(S) \in Number /\ s \in Number /\ A \in Number
  BY MagnitudeWorth, NumberOperations
<1>2. Leq(Sq(b), Sq(S))
  BY SquaresInOrder
<1>3. Leq(Mul(s, A), Sq(b))
  BY <1>1, DivLeq
<1>4. Mul(s, A) \in Number /\ Mul(s, A) = Mul(A, s)
  BY <1>1, NumberOperations, MulCommutes
<1>5. Leq(Mul(A, s), Sq(S))
  BY <1>1, <1>2, <1>3, <1>4, Transitive
<1> QED
  BY <1>1, <1>5, DivLeq

\* The tightest value is known as soon as one is, and no known value is tighter.
LEMMA TightestBounds ==
    ASSUME NEW parts, NEW n \in Nat, Len(parts) = n, NEW direction,
           \A i \in 1 .. n : parts[i].known => parts[i].value \in Number
    PROVE  LET best == tightest(parts, direction)
           IN  \A i \in 1 .. n : parts[i].known =>
                 /\ best \in Number
                 /\ direction = "lower" => Leq(parts[i].value, best)
                 /\ direction # "lower" => Leq(best, parts[i].value)
<1>1. PICK F : /\ tightest(parts, direction) = F[n] /\ F[0] = None
               /\ \A i \in 1 .. n : F[i] = Tighter(parts[i], F[i - 1], direction)
  BY TightestRuns
<1> DEFINE Holds_(m) ==
             /\ F[m] = None \/ F[m] \in Number
             /\ \A i \in 1 .. m : parts[i].known =>
                  /\ F[m] \in Number
                  /\ direction = "lower" => Leq(parts[i].value, F[m])
                  /\ direction # "lower" => Leq(F[m], parts[i].value)
           G == {m \in Nat : m <= n => Holds_(m)}
<1>2. 0 \in G
  BY <1>1
<1>3. ASSUME NEW m \in Nat, m \in G
      PROVE  m + 1 \in G
  <2> SUFFICES ASSUME m + 1 <= n
               PROVE  Holds_(m + 1)
    OBVIOUS
  <2> DEFINE p == parts[m + 1]
             x == F[m]
             y == F[m + 1]
  <2>1. m + 1 - 1 = m /\ m + 1 \in 1 .. n /\ m <= n
    OBVIOUS
  <2>2. /\ y = Tighter(p, x, direction) /\ (p.known => p.value \in Number)
        /\ x = None \/ x \in Number
    BY <1>1, <1>3, <2>1
  <2>3. \A i \in 1 .. m : parts[i].known =>
           /\ x \in Number
           /\ direction = "lower" => Leq(parts[i].value, x)
           /\ direction # "lower" => Leq(x, parts[i].value)
    BY <1>3, <2>1
  <2> HIDE DEF p, x, y
  <2>4. /\ y = None \/ y \in Number
        /\ x \in Number => /\ y \in Number
                           /\ direction = "lower" => Leq(x, y)
                           /\ direction # "lower" => Leq(y, x)
        /\ p.known => /\ y \in Number
                      /\ direction = "lower" => Leq(p.value, y)
                      /\ direction # "lower" => Leq(y, p.value)
    <3>1. y = p.value \/ y = x
      BY <2>2 DEF Tighter
    <3>2. CASE p.known /\ x # None
      <4>1. p.value \in Number /\ x \in Number
        BY <2>2, <3>2
      <4>2. CASE direction = "lower"
        <5>1. y = IF Less(x, p.value) THEN p.value ELSE x
          BY <2>2, <3>2, <4>2 DEF Tighter, Supplied
        <5> QED
          BY <4>1, <4>2, <5>1, InOrder
      <4>3. CASE direction # "lower"
        <5>1. y = IF Less(p.value, x) THEN p.value ELSE x
          BY <2>2, <3>2, <4>3 DEF Tighter, Supplied
        <5> QED
          BY <4>1, <4>3, <5>1, InOrder
      <4> QED
        BY <4>2, <4>3
    <3>3. CASE p.known /\ x = None
      <4>1. y = p.value /\ p.value \in Number /\ x \notin Number
        BY <2>2, <3>3, NumberParts DEF Tighter, Supplied, None
      <4> QED
        BY <4>1, InOrder
    <3>4. CASE ~p.known
      <4>1. y = x
        BY <2>2, <3>4 DEF Tighter
      <4> QED
        BY <2>2, <3>4, <4>1, InOrder
    <3> QED
      BY <3>2, <3>3, <3>4
  <2>5. ASSUME NEW i \in 1 .. m + 1, parts[i].known
        PROVE  /\ y \in Number
               /\ direction = "lower" => Leq(parts[i].value, y)
               /\ direction # "lower" => Leq(y, parts[i].value)
    <3>1. CASE i = m + 1
      BY <2>4, <2>5, <3>1 DEF p
    <3>2. CASE i # m + 1
      <4>1. i \in 1 .. m /\ i \in 1 .. n
        BY <2>1, <3>2
      <4>2. x \in Number /\ y \in Number /\ parts[i].value \in Number
        BY <2>3, <2>4, <2>5, <4>1
      <4> QED
        BY <2>3, <2>4, <2>5, <4>1, <4>2, Transitive
    <3> QED
      BY <3>1, <3>2
  <2> QED
    BY <2>4, <2>5 DEF y
<1> HIDE DEF G
<1>4. Nat \subseteq G
  BY <1>2, <1>3, InductionOnSet
<1>5. n \in G
  BY <1>4
<1> QED
  BY <1>1, <1>5 DEF G

LEMMA Intersection ==
    ASSUME NEW parts, NEW n \in Nat, Len(parts) = n, NEW direction,
           \A i \in 1 .. n : parts[i].known => parts[i].value \in Number
    PROVE  LET b == intersect(parts, direction)
           IN  /\ b.partial = \E i \in 1 .. n : ~parts[i].known
               /\ b.known => \E i \in 1 .. n : parts[i].known /\ b.value = parts[i].value
               /\ \A i \in 1 .. n : parts[i].known =>
                    /\ b.known
                    /\ direction = "lower" => Leq(parts[i].value, b.value)
                    /\ direction # "lower" => Leq(b.value, parts[i].value)
<1> DEFINE best == tightest(parts, direction)
<1>1. /\ intersect(parts, direction).known = Supplied(best) /\ intersect(parts, direction).value = best
      /\ intersect(parts, direction).partial = \E i \in 1 .. n : ~parts[i].known
  <2> HIDE DEF best
  <2> QED
    BY DEF intersect, best
<1>2. best = None \/ \E i \in 1 .. n : parts[i].known /\ best = parts[i].value
  BY TightestIs
<1>3. \A i \in 1 .. n : parts[i].known =>
        /\ best \in Number
        /\ direction = "lower" => Leq(parts[i].value, best)
        /\ direction # "lower" => Leq(best, parts[i].value)
  BY TightestBounds
<1> HIDE DEF best
<1>4. best \in Number => best # None
  BY NumberParts DEF None
<1> QED
  BY <1>1, <1>2, <1>3, <1>4 DEF Supplied

-----------------------------------------------------------------------------
(***************************************************************************)
(* The ceilings that bind a design, as the sizing bounds and as the checks *)
(* go through them.                                                        *)
(***************************************************************************)
Binds(scope, r, fc) ==
  /\ scopeCovers(scope, fc) /\ PerCase(r.subject) /\ appliesTo(r, fc.name)
  /\ Supplied(r.max) /\ (scope = "all" => r.priority = "required")

\* Each ceiling is one requirement's on one case, and there is one for each pair that binds.
LEMMA CeilingPairs ==
    ASSUME NEW d, Formed(d), NEW scope
    PROVE  LET ceiling(fc, r) == [case |-> fc, max |-> effectiveMaximum(r)]
               cs == stallCeilings(d, scope)
           IN  /\ CheckList(cs)
               /\ \A c \in ToSet(cs) : \E fc \in ToSet(d.cases), r \in ToSet(d.reqs) :
                    Binds(scope, r, fc) /\ c = ceiling(fc, r)
               /\ \A fc \in ToSet(d.cases), r \in ToSet(d.reqs) :
                    Binds(scope, r, fc) => ceiling(fc, r) \in ToSet(cs)
<1> DEFINE ceiling(fc, r) == [case |-> fc, max |-> effectiveMaximum(r)]
           T == {c \in {ceiling(fc, r) : fc \in ToSet(d.cases), r \in ToSet(d.reqs)} :
                   \E fc \in ToSet(d.cases), r \in ToSet(d.reqs) : Binds(scope, r, fc) /\ c = ceiling(fc, r)}
           ceilings(r, fc) == IF Binds(scope, r, fc) THEN <<ceiling(fc, r)>> ELSE <<>>
           n == Len(d.cases)
           m == Len(d.reqs)
           of(i) == [j \in 1 .. m |-> ceilings(d.reqs[j], d.cases[i])]
           ss == [i \in 1 .. n |-> FlattenSeq(of(i))]
           cs == stallCeilings(d, scope)
<1>1. cs = FlattenSeq(ss)
  BY DEF stallCeilings, Binds
<1>2. /\ n \in Nat /\ m \in Nat /\ \A i \in 1 .. n : d.cases[i] \in ToSet(d.cases)
      /\ \A j \in 1 .. m : d.reqs[j] \in ToSet(d.reqs)
      /\ DOMAIN d.cases = 1 .. n /\ DOMAIN d.reqs = 1 .. m
  BY NamedListFacts DEF Formed, Lists
<1>3. ASSUME NEW i \in 1 .. n, NEW j \in 1 .. m
      PROVE  /\ ceilings(d.reqs[j], d.cases[i]) \in Seq(T)
             /\ Binds(scope, d.reqs[j], d.cases[i]) =>
                  ceiling(d.cases[i], d.reqs[j]) \in ToSet(ceilings(d.reqs[j], d.cases[i]))
  <2> DEFINE c == ceiling(d.cases[i], d.reqs[j])
             b == Binds(scope, d.reqs[j], d.cases[i])
             q == ceilings(d.reqs[j], d.cases[i])
  <2>1. b => c \in T
    BY <1>2
  <2>2. q = IF b THEN <<c>> ELSE <<>>
    OBVIOUS
  <2> HIDE DEF c, T, q, b
  <2>3. (b => <<c>> \in Seq(T)) /\ <<>> \in Seq(T) /\ DOMAIN <<c>> = 1 .. 1 /\ <<c>>[1] = c
    BY <2>1
  <2>4. q \in Seq(T) /\ (b => c \in ToSet(q))
    BY <2>2, <2>3 DEF ToSet
  <2> QED
    BY <2>4 DEF q, c, b
<1> HIDE DEF T, ceilings, n, m
<1>4. ASSUME NEW i \in 1 .. n
      PROVE  /\ FlattenSeq(of(i)) \in Seq(T)
             /\ \A j \in 1 .. m : ToSet(ceilings(d.reqs[j], d.cases[i])) \subseteq ToSet(FlattenSeq(of(i)))
  <2> DEFINE qq == of(i)
  <2>1. /\ qq = [j \in 1 .. m |-> qq[j]] /\ \A j \in 1 .. m : qq[j] \in Seq(T)
        /\ \A j \in 1 .. m : qq[j] = ceilings(d.reqs[j], d.cases[i])
    BY <1>3
  <2> HIDE DEF qq
  <2>2. FlattenSeq(qq) \in Seq(T) /\ \A j \in 1 .. m : ToSet(qq[j]) \subseteq ToSet(FlattenSeq(qq))
    BY <1>2, <2>1, FlattenMembers
  <2> QED
    BY <2>1, <2>2 DEF qq
<1>5. /\ ss = [i \in 1 .. n |-> ss[i]] /\ \A i \in 1 .. n : ss[i] \in Seq(T)
      /\ \A i \in 1 .. n : ss[i] = FlattenSeq(of(i))
  BY <1>4
<1> HIDE DEF ss, of
<1>6. FlattenSeq(ss) \in Seq(T) /\ \A i \in 1 .. n : ToSet(ss[i]) \subseteq ToSet(FlattenSeq(ss))
  BY <1>2, <1>5, FlattenMembers
<1>7. CheckList(cs) /\ ToSet(cs) \subseteq T
  BY <1>1, <1>6, IsCheckList
<1>8. ASSUME NEW fc \in ToSet(d.cases), NEW r \in ToSet(d.reqs), Binds(scope, r, fc)
      PROVE  ceiling(fc, r) \in ToSet(cs)
  <2>1. PICK i \in 1 .. n, j \in 1 .. m : fc = d.cases[i] /\ r = d.reqs[j]
    BY <1>2 DEF ToSet
  <2> QED
    BY <1>1, <1>3, <1>4, <1>5, <1>6, <1>8, <2>1
<1> QED
  BY <1>7, <1>8 DEF T

\* What is in lists put one after the other is in one of them.
LEMMA FlattenFrom ==
    ASSUME NEW ss, NEW n \in Nat, ss = [i \in 1 .. n |-> ss[i]], \A i \in 1 .. n : CheckList(ss[i])
    PROVE  \A x \in ToSet(FlattenSeq(ss)) : \E i \in 1 .. n : x \in ToSet(ss[i])
<1> DEFINE T == UNION {ToSet(ss[i]) : i \in 1 .. n}
<1>1. \A i \in 1 .. n : ToSet(ss[i]) \subseteq T
  OBVIOUS
<1>2. \A x \in T : \E i \in 1 .. n : x \in ToSet(ss[i])
  OBVIOUS
<1> HIDE DEF T
<1>3. \A i \in 1 .. n : ss[i] \in Seq(T)
  BY <1>1, CheckListFacts
<1>4. FlattenSeq(ss) \in Seq(T)
  BY <1>3, FlattenMembers
<1>5. ToSet(FlattenSeq(ss)) \subseteq T
  BY <1>4, IsCheckList
<1> QED
  BY <1>2, <1>5

LEMMA BoundsFrom ==
    ASSUME NEW r, NEW name, NEW value, NEW c \in ToSet(checkBounds(r, name, value))
    PROVE  /\ c.name = r.name /\ c.case = name /\ c.priority = r.priority
           /\ c.direction = "upper" =>
                Supplied(r.max) /\ c = buildCheck(r, name, value, effectiveMaximum(r), "upper")
<1> DEFINE low  == buildCheck(r, name, value, effectiveMinimum(r), "lower")
           high == buildCheck(r, name, value, effectiveMaximum(r), "upper")
           a    == IF Supplied(r.min) THEN <<low>> ELSE <<>>
           b    == IF Supplied(r.max) THEN <<high>> ELSE <<>>
           T    == {x \in {low, high} : x = high => Supplied(r.max) \/ x = low}
<1>1. /\ low.name = r.name /\ low.case = name /\ low.direction = "lower" /\ low.priority = r.priority
      /\ high.name = r.name /\ high.case = name /\ high.direction = "upper" /\ high.priority = r.priority
  BY DEF buildCheck
<1>2. checkBounds(r, name, value) = a \o b
  BY DEF checkBounds
<1> HIDE DEF low, high
<1>3. low \in T /\ (Supplied(r.max) => high \in T)
  OBVIOUS
<1>4. \A x \in T : x = low \/ (x = high /\ Supplied(r.max))
  OBVIOUS
<1> HIDE DEF T
<1>5. \A T1 : <<>> \in Seq(T1)
  OBVIOUS
<1>6. a \in Seq(T) /\ b \in Seq(T)
  <2>1. <<low>> \in Seq(T) /\ (Supplied(r.max) => <<high>> \in Seq(T))
    BY <1>3
  <2> QED
    BY <1>5, <2>1
<1> HIDE DEF a, b
<1>7. a \o b \in Seq(T)
  BY <1>6
<1>8. ToSet(checkBounds(r, name, value)) \subseteq T
  BY <1>2, <1>7, IsCheckList
<1> QED
  BY <1>1, <1>4, <1>8 DEF high

LEMMA GetNamed ==
    ASSUME NEW l, NamedList(l), NEW j \in 1 .. Len(l)
    PROVE  Get(l, l[j].name) = l[j] /\ Named(l, l[j].name)
<1> DEFINE n == l[j].name
<1>1. Named(l, n)
  BY DEF Named
<1> HIDE DEF n
<1>2. Place(l, n) \in 1 .. Len(l) /\ l[Place(l, n)].name = n
  BY <1>1, PlaceIsThere
<1>3. Place(l, n) = j
  BY <1>2 DEF NamedList, UniqueNames, n
<1> QED
  BY <1>1, <1>3 DEF Get, n

\* The check of the ceiling that r puts on case fc.
CeilingCheck(d, fc, r) ==
  buildCheck(r, fc.name, readGeometry("stall", fc, SolveWing(d.wing), massReading(d)), effectiveMaximum(r), "upper")

\* No case is without a name.
CasesNamed(d) == ~Named(d.cases, "")

\* Every ceiling that binds is assessed.
LEMMA CeilingAssessed ==
    ASSUME NEW d, Formed(d), NEW fc \in ToSet(d.cases), NEW r \in ToSet(d.reqs), Binds("all", r, fc)
    PROVE  /\ CeilingCheck(d, fc, r) \in ToSet(Assess(d))
           /\ CeilingCheck(d, fc, r).case = fc.name /\ CeilingCheck(d, fc, r).direction = "upper"
           /\ CeilingCheck(d, fc, r).priority = "required"
<1> DEFINE wing == SolveWing(d.wing)
           m    == MissionAnalysis(d, wing)
           v    == readGeometry("stall", fc, wing, massReading(d))
           c    == CeilingCheck(d, fc, r)
<1>1. PerCase(r.subject) /\ appliesTo(r, fc.name) /\ Supplied(r.max) /\ r.priority = "required"
  BY DEF Binds
<1>2. PICK j \in 1 .. Len(d.cases) : fc = d.cases[j]
  BY NamedListFacts DEF ToSet, Formed, Lists
<1>3. read(d, r.subject, fc, wing, m) = v
  BY <1>1 DEF read, PerCase, PowerSubjects
<1>4. ToSet(checkBounds(r, fc.name, read(d, r.subject, fc, wing, m))) \subseteq ToSet(Assess(d))
  BY <1>1, <1>2, ChecksMade
<1>5. c = buildCheck(r, fc.name, v, effectiveMaximum(r), "upper")
  BY DEF CeilingCheck
<1> HIDE DEF v, c, wing, m
<1>6. c \in ToSet(checkBounds(r, fc.name, v))
  BY <1>1, <1>5, BoundsMade
<1>7. c.case = fc.name /\ c.direction = "upper" /\ c.priority = r.priority
  BY <1>5 DEF buildCheck
<1> QED
  BY <1>1, <1>3, <1>4, <1>6, <1>7 DEF c

LEMMA CeilingsMetAre ==
    ASSUME NEW d, Formed(d), CasesNamed(d)
    PROVE  CeilingsMet(d) <=>
             \A fc \in ToSet(d.cases), r \in ToSet(d.reqs) :
               Binds("all", r, fc) => CeilingCheck(d, fc, r).status = "met"
<1> DEFINE wing == SolveWing(d.wing)
           mission == MissionAnalysis(d, wing)
           speed(fc) == readGeometry("stall", fc, wing, massReading(d))
<1>1. NamedList(d.reqs) /\ NamedList(d.cases)
  BY DEF Formed, Lists
<1>2. ASSUME NEW r, PerCase(r.subject), NEW fc
      PROVE  read(d, r.subject, fc, wing, mission) = speed(fc)
  <2>1. r.subject = "stall" /\ "stall" \notin PowerSubjects
    BY <1>2 DEF PerCase, PowerSubjects
  <2> QED
    BY <2>1 DEF read
<1>3. ASSUME NEW r
      PROVE  CheckList(checksOf(d, r, wing, mission))
  <2> HIDE DEF wing, mission, speed
  <2> QED
    BY <1>1, RequirementChecks
<1>4. ASSUME NEW r, NEW name, NEW v
      PROVE  \A x \in ToSet(checkBounds(r, name, v)) :
               /\ x.case = name /\ x.priority = r.priority
               /\ x.direction = "upper" => Supplied(r.max) /\ x = buildCheck(r, name, v, effectiveMaximum(r), "upper")
  <2> HIDE DEF wing, mission, speed
  <2> QED
    BY BoundsFrom
<1>5. ASSUME NEW r, NEW name, NEW v
      PROVE  CheckList(checkBounds(r, name, v))
  <2> HIDE DEF wing, mission, speed
  <2> QED
    BY BoundChecks
<1>6. ASSUME CeilingsMet(d), NEW fc \in ToSet(d.cases), NEW r \in ToSet(d.reqs), Binds("all", r, fc)
      PROVE  CeilingCheck(d, fc, r).status = "met"
  <2> DEFINE c == CeilingCheck(d, fc, r)
  <2>1. fc \in ToSet(d.cases) /\ fc.priority = "required"
    BY <1>6 DEF Binds, scopeCovers
  <2>2. Get(d.cases, fc.name) = fc /\ fc.name # ""
    <3>1. PICK j \in 1 .. Len(d.cases) : fc = d.cases[j]
      BY <1>1, NamedListFacts DEF ToSet
    <3> QED
      BY <1>1, <3>1, GetNamed DEF CasesNamed
  <2>3. /\ c \in ToSet(Assess(d)) /\ c.case = fc.name /\ c.direction = "upper" /\ c.priority = "required"
    <3> HIDE DEF wing, mission, speed
    <3> QED
      BY <1>6, CeilingAssessed
  <2> HIDE DEF c
  <2>4. c.status = "met"
    BY <1>6, <2>1, <2>2, <2>3 DEF CeilingsMet
  <2> QED
    BY <2>4 DEF c
<1>7. ASSUME \A fc \in ToSet(d.cases), r \in ToSet(d.reqs) :
               Binds("all", r, fc) => CeilingCheck(d, fc, r).status = "met",
             NEW e \in ToSet(Assess(d)), e.case # "", e.direction = "upper", e.priority = "required",
             Get(d.cases, e.case).priority = "required"
      PROVE  e.status = "met"
  <2> DEFINE n == Len(d.reqs)
             ss == [i \in 1 .. n |-> checksOf(d, d.reqs[i], wing, mission)]
  <2>1. Assess(d) = FlattenSeq(ss)
    BY DEF Assess, assessWing, checksWith
  <2> HIDE DEF wing, mission, speed
  <2>2. /\ n \in Nat /\ ss = [k \in 1 .. n |-> ss[k]]
        /\ \A k \in 1 .. n : ss[k] = checksOf(d, d.reqs[k], wing, mission) /\ d.reqs[k] \in ToSet(d.reqs)
    BY <1>1, NamedListFacts
  <2> HIDE DEF ss, n
  <2>3. \A k \in 1 .. n : CheckList(ss[k])
    BY <1>3, <2>2
  <2>4. PICK i \in 1 .. n : e \in ToSet(ss[i])
    BY <1>7, <2>1, <2>2, <2>3, FlattenFrom
  <2> DEFINE r == d.reqs[i]
  <2>5. e \in ToSet(checksOf(d, r, wing, mission)) /\ r \in ToSet(d.reqs)
    BY <2>2, <2>4
  <2> HIDE DEF r
  <2>6. PerCase(r.subject)
    <3> SUFFICES ASSUME ~PerCase(r.subject)
                 PROVE  FALSE
      OBVIOUS
    <3> DEFINE name == ""
               v == read(d, r.subject, None, wing, mission)
    <3>1. e \in ToSet(checkBounds(r, name, v))
      BY <2>5 DEF checksOf
    <3> HIDE DEF name, v
    <3>2. e.case = name
      BY <1>4, <3>1
    <3> QED
      BY <1>7, <3>2 DEF name
  <2> DEFINE m == Len(d.cases)
             of(k) == checkBounds(r, d.cases[k].name, read(d, r.subject, d.cases[k], wing, mission))
             qs == [k \in 1 .. m |-> IF appliesTo(r, d.cases[k].name) THEN of(k) ELSE <<>>]
  <2>7. e \in ToSet(FlattenSeq(qs))
    BY <2>5, <2>6 DEF checksOf
  <2>8. m \in Nat /\ qs = [k \in 1 .. m |-> qs[k]]
    BY <1>1, NamedListFacts
  <2>9. ASSUME NEW k \in 1 .. m
        PROVE  CheckList(qs[k]) /\ (e \in ToSet(qs[k]) => appliesTo(r, d.cases[k].name) /\ e \in ToSet(of(k)))
    <3>1. qs[k] = IF appliesTo(r, d.cases[k].name) THEN of(k) ELSE <<>>
      OBVIOUS
    <3>2. CheckList(of(k))
      BY <1>5
    <3> HIDE DEF qs, of
    <3> QED
      BY <3>1, <3>2, NoChecks
  <2> HIDE DEF qs, of, m
  <2>10. PICK k \in 1 .. m : e \in ToSet(qs[k])
    BY <2>7, <2>8, <2>9, FlattenFrom
  <2> DEFINE fc == d.cases[k]
             v  == read(d, r.subject, fc, wing, mission)
  <2>11. appliesTo(r, fc.name) /\ e \in ToSet(checkBounds(r, fc.name, v))
    BY <2>9, <2>10 DEF of
  <2>12. fc \in ToSet(d.cases) /\ Get(d.cases, fc.name) = fc
    BY <1>1, <2>10, NamedListFacts, GetNamed DEF m
  <2> HIDE DEF fc
  <2>13. v = speed(fc)
    BY <1>2, <2>6
  <2> HIDE DEF v
  <2>14. /\ e.case = fc.name /\ e.priority = r.priority /\ Supplied(r.max)
         /\ e = buildCheck(r, fc.name, v, effectiveMaximum(r), "upper")
    <3>1. e.direction = "upper"
      BY <1>7
    <3> QED
      BY <1>4, <2>11, <3>1
  <2>15. Binds("all", r, fc)
    BY <1>7, <2>6, <2>11, <2>12, <2>14 DEF Binds, scopeCovers
  <2>16. e = CeilingCheck(d, fc, r)
    BY <2>13, <2>14 DEF CeilingCheck, speed, wing
  <2> QED
    BY <1>7, <2>5, <2>12, <2>15, <2>16
<1> QED
  BY <1>6, <1>7 DEF CeilingsMet

LEMMA ReadAgain ==
    ASSUME NEW x \in Magnitude
    PROVE  quantity(x) = {} /\ finish({}, x) = Ok(x)
<1>1. x # None /\ ~ (x[1] <= 0)
  BY MagnitudeWorth, NumberParts DEF Magnitude, None
<1> QED
  BY <1>1 DEF quantity, Supplied, finish

\* One ceiling, whose least area is known: its check, that area and its greatest mass agree.
LEMMA OneCeiling ==
    ASSUME NEW d, Formed(d), Measured(d), SolveWing(d.wing).issues = {}, massReading(d).status = "computed",
           NEW fc \in ToSet(d.cases), NEW r \in ToSet(d.reqs), PerCase(r.subject),
           MinimumWingArea(fc, massReading(d).v, effectiveMaximum(r)).issues = {}
    PROVE  LET mv   == massReading(d).v
               s    == SolveWing(d.wing).v.projected.area
               area == MinimumWingArea(fc, mv, effectiveMaximum(r))
               mass == MaximumMass(fc, s, effectiveMaximum(r))
           IN  /\ area.v \in Number /\ mass.issues = {} /\ mass.v \in Number /\ mv \in Number /\ s \in Number
               /\ CeilingCheck(d, fc, r).status = "met" <=> Leq(area.v, s)
               /\ CeilingCheck(d, fc, r).status = "met" <=> Leq(mv, mass.v)
<1> DEFINE wing == SolveWing(d.wing)
           mr   == massReading(d)
           mv   == mr.v
           s    == wing.v.projected.area
           vs   == effectiveMaximum(r)
           area == MinimumWingArea(fc, mv, vs)
           mass == MaximumMass(fc, s, vs)
           speed == StallSpeed2(fc, mv, s)
           n    == fc.load
           rho  == fc.density
           cl   == fc.clmax
           A == Div(Mul(n, mv), Mul(rho, Mul(Sq(vs), cl)))
           M == Div(Mul(Mul(rho, Sq(vs)), Mul(s, cl)), n)
           X == Div(Mul(n, mv), Mul(rho, Mul(s, cl)))
<1>1. MeasuredCase(fc) /\ MeasuredReq(r)
  BY DEF Measured
<1>2. /\ quantity(mv) \cup quantity(vs) \cup density(fc) \cup loadFactor(fc) \cup clmax(fc) = {}
      /\ area.v = A
  BY Finished DEF MinimumWingArea
<1>3. mv \in Quantity /\ vs \in Quantity
  BY <1>1, MassRead, EffectiveBounds
<1>4. s \in Magnitude
  BY WingSolved DEF Measured
<1> HIDE DEF mv, s, vs, wing, mr
<1>5. mv \in Magnitude /\ vs \in Magnitude /\ rho \in Magnitude /\ n \in Magnitude /\ cl \in Magnitude
  BY <1>1, <1>2, <1>3, ReadQuantity, CaseRead
<1>6. quantity(s) = {}
  BY <1>4, ReadAgain
<1>7. /\ quantity(s) \cup quantity(vs) \cup density(fc) \cup loadFactor(fc) \cup clmax(fc) = {}
      /\ quantity(mv) \cup quantity(s) \cup density(fc) \cup loadFactor(fc) \cup clmax(fc) = {}
  BY <1>2, <1>6
<1> HIDE DEF n, rho, cl
<1>8. Sq(vs) \in Magnitude /\ Mul(n, mv) \in Magnitude /\ Mul(s, cl) \in Magnitude
  BY <1>4, <1>5, MagnitudeOperations
<1>9. /\ Mul(Sq(vs), cl) \in Magnitude /\ Mul(rho, Sq(vs)) \in Magnitude /\ Mul(rho, Mul(s, cl)) \in Magnitude
  BY <1>5, <1>8, MagnitudeOperations
<1>10. Mul(rho, Mul(Sq(vs), cl)) \in Magnitude /\ Mul(Mul(rho, Sq(vs)), Mul(s, cl)) \in Magnitude
  BY <1>5, <1>8, <1>9, MagnitudeOperations
<1>11. A \in Magnitude /\ M \in Magnitude /\ X \in Magnitude
  <2> DEFINE a == Mul(n, mv)
             b == Mul(rho, Mul(Sq(vs), cl))
             c == Mul(Mul(rho, Sq(vs)), Mul(s, cl))
             e == Mul(rho, Mul(s, cl))
  <2>1. a \in Magnitude /\ b \in Magnitude /\ c \in Magnitude /\ e \in Magnitude
    BY <1>8, <1>9, <1>10
  <2> HIDE DEF a, b, c, e
  <2>2. a \in Number /\ c \in Number
    BY <2>1, MagnitudeWorth
  <2>3. Div(a, b) \in Magnitude /\ Div(c, n) \in Magnitude /\ Div(a, e) \in Magnitude
    BY <1>5, <2>1, <2>2, QuotientNumber
  <2> QED
    BY <2>3 DEF a, b, c, e
<1>12. (Leq(X, Sq(vs)) <=> Leq(A, s)) /\ (Leq(X, Sq(vs)) <=> Leq(mv, M))
  BY <1>4, <1>5, ThreeFigures
<1>13. mass = finish({}, M) /\ speed = finish({}, X)
  <2>1. /\ mass = finish(quantity(s) \cup quantity(vs) \cup density(fc) \cup loadFactor(fc) \cup clmax(fc), M)
        /\ speed = finish(quantity(mv) \cup quantity(s) \cup density(fc) \cup loadFactor(fc) \cup clmax(fc), X)
    BY DEF MaximumMass, StallSpeed2, n, rho, cl
  <2> HIDE DEF mass, speed, M, X
  <2> QED
    BY <1>7, <2>1
<1> HIDE DEF A, M, X
<1>14. mass = Ok(M) /\ speed = Ok(X)
  BY <1>11, <1>13, ReadAgain
<1>15. CeilingCheck(d, fc, r).status = statusFor(atMost(r.subject, X, vs))
  <2> DEFINE v == readGeometry("stall", fc, wing, mr)
  <2>1. v = readFrom(mr, speed)
    BY DEF readGeometry, wing, mr, mv, s
  <2>2. readFrom(mr, speed) = reading(speed)
    BY DEF readFrom, mr
  <2>3. speed.issues = {} /\ speed.v = X
    <3> HIDE DEF speed
    <3> QED
      BY <1>14, OkFacts
  <2> HIDE DEF speed
  <2>4. v.status = "computed" /\ v.v = X
    <3> HIDE DEF v
    <3> QED
      BY <2>1, <2>2, <2>3, ReadingFacts DEF reading
  <2>5. CeilingCheck(d, fc, r) = buildCheck(r, fc.name, v, vs, "upper")
    BY DEF CeilingCheck, wing, mr, vs
  <2> HIDE DEF v
  <2>6. CeilingCheck(d, fc, r).status =
          IF v.status # "computed" THEN "unknown" ELSE statusFor(atMost(r.subject, v.v, vs))
    BY <2>5 DEF buildCheck
  <2> QED
    BY <2>4, <2>6
<1>16. CeilingCheck(d, fc, r).status = "met" <=> atMost(r.subject, X, vs)
  BY <1>15 DEF statusFor
<1>17. vs[1] >= 0
  BY <1>5, NumberParts DEF Magnitude
<1>18. CeilingCheck(d, fc, r).status = "met" <=> Leq(X, Sq(vs))
  BY <1>16, <1>17 DEF atMost
<1>19. area.v = A /\ mass.issues = {} /\ mass.v = M
  <2> HIDE DEF mass
  <2> QED
    BY <1>2, <1>14, OkFacts DEF A
<1>20. A \in Number /\ M \in Number /\ mv \in Number /\ s \in Number
  BY <1>4, <1>5, <1>11, MagnitudeWorth
<1> HIDE DEF area, mass
<1>21. /\ area.v \in Number /\ mass.issues = {} /\ mass.v \in Number /\ mv \in Number /\ s \in Number
       /\ CeilingCheck(d, fc, r).status = "met" <=> Leq(area.v, s)
       /\ CeilingCheck(d, fc, r).status = "met" <=> Leq(mv, mass.v)
  BY <1>12, <1>18, <1>19, <1>20
<1> QED
  BY <1>21 DEF area, mass, mv, mr, s, wing, vs

\* The same of the two directions the sizing takes.
LEMMA LowerIntersection ==
    ASSUME NEW parts, NEW n \in Nat, Len(parts) = n, \A i \in 1 .. n : parts[i].known => parts[i].value \in Number
    PROVE  LET b == intersect(parts, "lower")
           IN  /\ b.partial = \E i \in 1 .. n : ~parts[i].known
               /\ b.known => \E i \in 1 .. n : parts[i].known /\ b.value = parts[i].value
               /\ \A i \in 1 .. n : parts[i].known => b.known /\ Leq(parts[i].value, b.value)
<1> DEFINE dir == "lower"
           b == intersect(parts, dir)
<1>1. dir = "lower" /\ b = intersect(parts, "lower")
  OBVIOUS
<1> HIDE DEF dir
<1>2. /\ b.partial = \E i \in 1 .. n : ~parts[i].known
      /\ b.known => \E i \in 1 .. n : parts[i].known /\ b.value = parts[i].value
      /\ \A i \in 1 .. n : parts[i].known =>
           /\ b.known
           /\ dir = "lower" => Leq(parts[i].value, b.value)
           /\ dir # "lower" => Leq(b.value, parts[i].value)
  BY Intersection
<1> HIDE DEF b
<1> QED
  BY <1>1, <1>2

LEMMA UpperIntersection ==
    ASSUME NEW parts, NEW n \in Nat, Len(parts) = n, \A i \in 1 .. n : parts[i].known => parts[i].value \in Number
    PROVE  LET b == intersect(parts, "upper")
           IN  /\ b.partial = \E i \in 1 .. n : ~parts[i].known
               /\ b.known => \E i \in 1 .. n : parts[i].known /\ b.value = parts[i].value
               /\ \A i \in 1 .. n : parts[i].known => b.known /\ Leq(b.value, parts[i].value)
<1> DEFINE dir == "upper"
           b == intersect(parts, dir)
<1>1. dir # "lower" /\ b = intersect(parts, "upper")
  OBVIOUS
<1> HIDE DEF dir
<1>2. /\ b.partial = \E i \in 1 .. n : ~parts[i].known
      /\ b.known => \E i \in 1 .. n : parts[i].known /\ b.value = parts[i].value
      /\ \A i \in 1 .. n : parts[i].known =>
           /\ b.known
           /\ dir = "lower" => Leq(parts[i].value, b.value)
           /\ dir # "lower" => Leq(b.value, parts[i].value)
  BY Intersection
<1> HIDE DEF b
<1> QED
  BY <1>1, <1>2

LEMMA AreaLowerIs ==
    ASSUME NEW d
    PROVE  AreaLowerBound(d, "all").v = intersect(areaParts(d, stallCeilings(d, "all")), "lower")
           /\ AreaLowerBound(d, "all").issues = {}
<1> DEFINE b == intersect(areaParts(d, stallCeilings(d, "all")), "lower")
<1> HIDE DEF b
<1>1. AreaLowerBound(d, "all") = Provided(scopeValidate(d, "all"), Ok(b))
  BY DEF AreaLowerBound, b
<1>2. scopeValidate(d, "all") = {}
  BY DEF scopeValidate, Missing
<1>3. AreaLowerBound(d, "all") = Ok(b)
  BY <1>1, <1>2 DEF Provided
<1> QED
  BY <1>3, OkFacts DEF b

LEMMA MassUpperIs ==
    ASSUME NEW d, SolveWing(d.wing).issues = {}
    PROVE  MassUpperBound(d, "all").v
             = intersect(massParts(stallCeilings(d, "all"), SolveWing(d.wing).v.projected.area), "upper")
<1> DEFINE b == intersect(massParts(stallCeilings(d, "all"), SolveWing(d.wing).v.projected.area), "upper")
           m == massCeiling(stallCeilings(d, "all"), SolveWing(d.wing))
<1>1. m = b
  BY DEF massCeiling
<1> HIDE DEF b, m
<1>2. MassUpperBound(d, "all") = Provided(scopeValidate(d, "all"), Ok(m))
  BY DEF MassUpperBound, m
<1>3. scopeValidate(d, "all") = {}
  BY DEF scopeValidate, Missing
<1>4. MassUpperBound(d, "all") = Ok(m)
  BY <1>2, <1>3 DEF Provided
<1>5. MassUpperBound(d, "all").v = m
  BY <1>4, OkFacts
<1> QED
  BY <1>1, <1>5 DEF b

\* Where the lower bound on the area is whole, it, the ceilings' checks and the upper
\* bound on the mass say the same of the solved wing.
LEMMA WholeBound ==
    ASSUME NEW d, Formed(d), Measured(d), CasesNamed(d), SolveWing(d.wing).issues = {},
           massReading(d).status = "computed",
           AreaLowerBound(d, "all").v.known, ~AreaLowerBound(d, "all").v.partial
    PROVE  LET s     == SolveWing(d.wing).v.projected.area
               lower == AreaLowerBound(d, "all").v
               upper == MassUpperBound(d, "all").v
           IN  /\ CeilingsMet(d) <=> Leq(lower.value, s)
               /\ CeilingsMet(d) <=> upper.known /\ ~upper.partial /\ Leq(massReading(d).v, upper.value)
               /\ lower.value \in Number
<1> DEFINE s  == SolveWing(d.wing).v.projected.area
           mv == massReading(d).v
           cs == stallCeilings(d, "all")
           n  == Len(cs)
           ap == areaParts(d, cs)
           mp == massParts(cs, s)
           lower == intersect(ap, "lower")
           upper == intersect(mp, "upper")
           area(i) == MinimumWingArea(cs[i].case, mv, cs[i].max)
           mass(i) == MaximumMass(cs[i].case, s, cs[i].max)
           pair(i, fc, r) == /\ fc \in ToSet(d.cases) /\ r \in ToSet(d.reqs) /\ Binds("all", r, fc)
                             /\ cs[i] = [case |-> fc, max |-> effectiveMaximum(r)]
           met(fc, r) == CeilingCheck(d, fc, r).status = "met"
<1>1. lower = AreaLowerBound(d, "all").v /\ upper = MassUpperBound(d, "all").v
  BY AreaLowerIs, MassUpperIs
<1>2. n \in Nat /\ DOMAIN cs = 1 .. n
  BY CeilingPairs, CheckListFacts
<1>3. ASSUME NEW i \in 1 .. n
      PROVE  \E fc, r : pair(i, fc, r)
  <2> DEFINE c == cs[i]
  <2>1. c \in ToSet(cs)
    BY <1>2 DEF ToSet
  <2> HIDE DEF c, cs
  <2>2. \E fc \in ToSet(d.cases), r \in ToSet(d.reqs) :
          Binds("all", r, fc) /\ c = [case |-> fc, max |-> effectiveMaximum(r)]
    BY <2>1, CeilingPairs DEF cs
  <2> QED
    BY <2>2 DEF c
<1>4. ASSUME NEW fc \in ToSet(d.cases), NEW r \in ToSet(d.reqs), Binds("all", r, fc)
      PROVE  \E i \in 1 .. n : pair(i, fc, r)
  <2> DEFINE c == [case |-> fc, max |-> effectiveMaximum(r)]
  <2>1. c \in ToSet(cs)
    BY <1>4, CeilingPairs
  <2> HIDE DEF c, cs
  <2>2. PICK i \in DOMAIN cs : c = cs[i]
    BY <2>1 DEF ToSet
  <2> QED
    BY <1>2, <1>4, <2>2 DEF c
<1>5. /\ ap = [i \in 1 .. n |-> contribute(cs[i].case.name, area(i))]
      /\ mp = [i \in 1 .. n |-> contribute(cs[i].case.name, mass(i))]
  BY DEF areaParts, massParts
<1> HIDE DEF ap, mp, lower, upper, cs, n
<1>6. /\ Len(ap) = n /\ Len(mp) = n
      /\ \A i \in 1 .. n : ap[i].known = (area(i).issues = {}) /\ ap[i].value = area(i).v
      /\ \A i \in 1 .. n : mp[i].known = (mass(i).issues = {}) /\ mp[i].value = mass(i).v
  <2>1. /\ ap = [i \in 1 .. n |-> ap[i]] /\ mp = [i \in 1 .. n |-> mp[i]]
        /\ \A i \in 1 .. n : ap[i] = contribute(cs[i].case.name, area(i))
        /\ \A i \in 1 .. n : mp[i] = contribute(cs[i].case.name, mass(i))
    BY <1>5
  <2> HIDE DEF area, mass
  <2> QED
    BY <1>2, <2>1, FunctionList DEF contribute
<1>7. /\ lower.known => \E i \in 1 .. n : ap[i].known
      /\ \A i \in 1 .. n : ap[i].known
  <2>1. lower.partial = \E i \in 1 .. Len(ap) : ~ap[i].known
    BY DEF lower, intersect
  <2>2. \A i \in 1 .. n : ap[i].known
    BY <1>1, <1>6, <2>1
  <2>3. lower.known = Supplied(tightest(ap, "lower"))
    BY DEF lower, intersect
  <2>4. tightest(ap, "lower") = None \/ \E i \in 1 .. n : ap[i].known /\ tightest(ap, "lower") = ap[i].value
    BY <1>2, <1>6, TightestIs
  <2> QED
    BY <2>2, <2>3, <2>4 DEF Supplied
<1>8. ASSUME NEW i \in 1 .. n, NEW fc, NEW r, pair(i, fc, r)
      PROVE  /\ ap[i].known /\ ap[i].value \in Number /\ mp[i].known /\ mp[i].value \in Number
             /\ mv \in Number /\ s \in Number
             /\ met(fc, r) <=> Leq(ap[i].value, s)
             /\ met(fc, r) <=> Leq(mv, mp[i].value)
  <2>1. PerCase(r.subject) /\ cs[i].case = fc /\ cs[i].max = effectiveMaximum(r)
    BY <1>8 DEF Binds
  <2>2. area(i) = MinimumWingArea(fc, mv, effectiveMaximum(r)) /\ mass(i) = MaximumMass(fc, s, effectiveMaximum(r))
    BY <2>1
  <2>3. area(i).issues = {} /\ ap[i].known
    BY <1>6, <1>7
  <2> HIDE DEF area, mass
  <2>4. /\ area(i).v \in Number /\ mass(i).issues = {} /\ mass(i).v \in Number /\ mv \in Number /\ s \in Number
        /\ met(fc, r) <=> Leq(area(i).v, s)
        /\ met(fc, r) <=> Leq(mv, mass(i).v)
    BY <1>8, <2>1, <2>2, <2>3, OneCeiling
  <2> HIDE DEF met, mv, s
  <2> QED
    BY <1>6, <2>3, <2>4
<1> HIDE DEF area, mass, met, mv, s
<1>9. \A i \in 1 .. n : /\ ap[i].known /\ ap[i].value \in Number /\ mp[i].known /\ mp[i].value \in Number
                        /\ mv \in Number /\ s \in Number
  <2> TAKE i \in 1 .. n
  <2>1. PICK fc, r : pair(i, fc, r)
    BY <1>3
  <2> HIDE DEF pair
  <2> QED
    BY <1>8, <2>1
<1> HIDE DEF pair
<1>10. /\ lower.known /\ (\E i \in 1 .. n : lower.value = ap[i].value)
       /\ \A i \in 1 .. n : Leq(ap[i].value, lower.value)
  <2>1. \A i \in 1 .. n : ap[i].known => ap[i].value \in Number
    BY <1>9
  <2>2. lower.known
    BY <1>1
  <2> QED
    BY <1>2, <1>6, <1>9, <2>1, <2>2, LowerIntersection DEF lower
<1>11. /\ upper.known /\ ~upper.partial /\ (\E i \in 1 .. n : upper.value = mp[i].value)
       /\ \A i \in 1 .. n : Leq(upper.value, mp[i].value)
  <2>1. \A i \in 1 .. n : mp[i].known => mp[i].value \in Number
    BY <1>9
  <2>2. \E i \in 1 .. n : TRUE
    BY <1>10
  <2>3. Len(mp) = n /\ n \in Nat
    BY <1>2, <1>6
  <2>4. /\ upper.partial = \E i \in 1 .. n : ~mp[i].known
        /\ upper.known => \E i \in 1 .. n : mp[i].known /\ upper.value = mp[i].value
        /\ \A i \in 1 .. n : mp[i].known => upper.known /\ Leq(upper.value, mp[i].value)
    BY <2>1, <2>3, UpperIntersection DEF upper
  <2> QED
    BY <1>9, <2>2, <2>4
<1>12. CeilingsMet(d) <=> \A fc \in ToSet(d.cases), r \in ToSet(d.reqs) : Binds("all", r, fc) => met(fc, r)
  BY CeilingsMetAre DEF met
<1>13. CeilingsMet(d) <=> \A i \in 1 .. n : Leq(ap[i].value, s)
  <2>1. ASSUME CeilingsMet(d), NEW i \in 1 .. n
        PROVE  Leq(ap[i].value, s)
    <3>1. PICK fc, r : pair(i, fc, r)
      BY <1>3
    <3>2. fc \in ToSet(d.cases) /\ r \in ToSet(d.reqs) /\ Binds("all", r, fc)
      BY <3>1 DEF pair
    <3> QED
      BY <1>8, <1>12, <2>1, <3>1, <3>2
  <2>2. ASSUME \A i \in 1 .. n : Leq(ap[i].value, s),
               NEW fc \in ToSet(d.cases), NEW r \in ToSet(d.reqs), Binds("all", r, fc)
        PROVE  met(fc, r)
    <3>1. PICK i \in 1 .. n : pair(i, fc, r)
      BY <1>4, <2>2
    <3> QED
      BY <1>8, <2>2, <3>1
  <2> QED
    BY <1>12, <2>1, <2>2
<1>14. CeilingsMet(d) <=> \A i \in 1 .. n : Leq(mv, mp[i].value)
  <2>1. ASSUME CeilingsMet(d), NEW i \in 1 .. n
        PROVE  Leq(mv, mp[i].value)
    <3>1. PICK fc, r : pair(i, fc, r)
      BY <1>3
    <3>2. fc \in ToSet(d.cases) /\ r \in ToSet(d.reqs) /\ Binds("all", r, fc)
      BY <3>1 DEF pair
    <3> QED
      BY <1>8, <1>12, <2>1, <3>1, <3>2
  <2>2. ASSUME \A i \in 1 .. n : Leq(mv, mp[i].value),
               NEW fc \in ToSet(d.cases), NEW r \in ToSet(d.reqs), Binds("all", r, fc)
        PROVE  met(fc, r)
    <3>1. PICK i \in 1 .. n : pair(i, fc, r)
      BY <1>4, <2>2
    <3> QED
      BY <1>8, <2>2, <3>1
  <2> QED
    BY <1>12, <2>1, <2>2
<1>15. lower.value \in Number /\ upper.value \in Number /\ mv \in Number /\ s \in Number
  BY <1>9, <1>10, <1>11
<1>16. CeilingsMet(d) <=> Leq(lower.value, s)
  <2>1. ASSUME Leq(lower.value, s), NEW i \in 1 .. n
        PROVE  Leq(ap[i].value, s)
    BY <1>9, <1>10, <1>15, <2>1, Transitive
  <2> QED
    BY <1>10, <1>13, <2>1
<1>17. CeilingsMet(d) <=> Leq(mv, upper.value)
  <2>1. ASSUME Leq(mv, upper.value), NEW i \in 1 .. n
        PROVE  Leq(mv, mp[i].value)
    BY <1>9, <1>11, <1>15, <2>1, Transitive
  <2> QED
    BY <1>11, <1>14, <2>1
<1> QED
  BY <1>1, <1>11, <1>15, <1>16, <1>17 DEF s, mv

-----------------------------------------------------------------------------
(***************************************************************************)
(* A wing sized at the stall limit.                                        *)
(***************************************************************************)
\* A wing driven by its area has that area, in the plane its drivers are recorded in.
LEMMA AreaDriven ==
    ASSUME NEW d, MeasuredDrivers(d), SolvePlanform(d).issues = {},
           NEW hold \in {"span", "aspect", "root"}, suppliedDrivers(d) \subseteq {hold, "area"}
    PROVE  SolvePlanform(d).v.area = d.area
<1> DEFINE path  == solvePath(d)
           sizes == solveSize(d, path.v.mode, path.v.taper)
           size  == Together(sizes)
           out   == completeFrom(d, size.v[1], size.v[2], path.v.taper)
           t  == resolveTaper(d)
           m  == resolveMode(d, IF t.issues = {} THEN t.v ELSE Zero)
           rs == [taper |-> t, mode |-> m]
<1>1. SolvePlanform(d) = IF path.issues # {} THEN Fail(path.issues)
                         ELSE IF size.issues # {} THEN Fail(size.issues) ELSE out
  BY DEF SolvePlanform, Then
<1>2. path = Together(rs)
  BY DEF solvePath, pathAt
<1>3. DOMAIN rs = {"taper", "mode"} /\ rs.taper = t /\ rs.mode = m
  OBVIOUS
<1> HIDE DEF path, size, out, rs, t, m
<1>4. path.issues = {} /\ size.issues = {} /\ SolvePlanform(d) = out
  BY <1>1 DEF Fail
<1>5. path.v.mode = suppliedDrivers(d)
  <2>1. m.issues = {} /\ path.v.mode = m.v
    BY <1>2, <1>3, <1>4 DEF Together
  <2> QED
    BY <2>1 DEF m, resolveMode, Fail, Ok
<1>6. path.v.mode \in {{"span", "area"}, {"area", "aspect"}, {"area", "root"}}
  <2>1. path.v.mode \in {{"span", "area"}, {"span", "aspect"}, {"area", "aspect"}, {"span", "root"},
                         {"area", "root"}, {"aspect", "root"}}
    BY <1>4, PathSolved DEF path
  <2> QED
    BY <1>5, <2>1
<1>7. \E a, b : sizes = <<a, b>> /\ b = Ok(d.area)
  <2> DEFINE mode == path.v.mode
             taper == path.v.taper
  <2>1. mode \in {{"span", "area"}, {"area", "aspect"}, {"area", "root"}}
    BY <1>6
  <2> HIDE DEF mode, taper
  <2>2. \E a, b : solveSize(d, mode, taper) = <<a, b>>
    BY <2>1 DEF solveSize
  <2>3. PICK a, b : solveSize(d, mode, taper) = <<a, b>>
    BY <2>2
  <2>4. b = Ok(d.area)
    <3>1. CASE mode = {"span", "area"}
      BY <2>3, <3>1 DEF solveSize
    <3>2. CASE mode = {"area", "aspect"}
      BY <2>3, <3>2 DEF solveSize
    <3>3. CASE mode = {"area", "root"}
      BY <2>3, <3>3 DEF solveSize
    <3> QED
      BY <2>1, <3>1, <3>2, <3>3
  <2> QED
    BY <2>3, <2>4 DEF mode, taper
<1>8. PICK a : sizes = <<a, Ok(d.area)>>
  BY <1>7
<1>9. size.v[2] = d.area
  BY <1>8, TogetherPair, OkFacts DEF size
<1> QED
  BY <1>4, <1>9, CompletedFrom DEF out

\* The projected area is the area driver, seen from above.
LEMMA AreaResolved ==
    ASSUME NEW w, SolveWing(w).issues = {}
    PROVE  /\ w.dihedral # "none"
           /\ SolvePlanform(w.drivers).issues = {}
           /\ SolveWing(w).v.projected.area
                = IF w.dihedralMode = "panel" THEN Mul(SolvePlanform(w.drivers).v.area, cosDihedral(w))
                  ELSE SolvePlanform(w.drivers).v.area
<1> DEFINE plan    == SolvePlanform(w.drivers)
           choices == validateChoices(w)
           first   == Together(<<plan, Fail(choices)>>)
           planes  == resolvePlanes(w, first.v[1])
           exposed == exposedOf(w, first.v[1], planes.v[1])
           sweep   == sweepAt(w, Zero, Div(Sq(planes.v[1].span), planes.v[1].area), first.v[1].taper)
           out     == wingOf(w, first.v[1], planes.v[1], planes.v[2], sweep, exposed.v)
           p       == first.v[1]
           given   == [span |-> p.span, area |-> p.area, ymac |-> p.ymac, half |-> Half(p.span)]
           c       == cosDihedral(w)
           proj    == planeOf(p, Mul(p.span, c), Mul(p.area, c))
           panel   == planeOf(p, Div(p.span, c), Div(p.area, c))
<1>1. SolveWing(w) = IF first.issues # {} THEN Fail(first.issues)
                     ELSE IF planes.issues # {} THEN Fail(planes.issues)
                     ELSE IF exposed.issues # {} THEN Fail(exposed.issues) ELSE Ok(out)
  BY DEF SolveWing, Then
<1>2. out.projected = planes.v[1]
  BY DEF wingOf
<1>3. first.v[1] = plan.v /\ (first.issues = {} => plan.issues = {} /\ Fail(choices).issues = {})
  BY TogetherPair
<1>4. planes = IF w.dihedralMode = "unknown" /\ w.dihedral # "flat" THEN Fail({"missing"})
               ELSE IF w.dihedralMode = "panel" THEN Ok(<<proj, given>>) ELSE Ok(<<given, panel>>)
  BY DEF resolvePlanes
<1>5. given.area = p.area /\ proj.area = Mul(p.area, c)
  BY DEF planeOf
<1>6. requireAngle(w.dihedral) \subseteq choices
  BY DEF validateChoices
<1> HIDE DEF out, exposed, planes, first, plan, choices, given, proj, panel, c
<1>7. first.issues = {} /\ planes.issues = {} /\ SolveWing(w) = Ok(out)
  BY <1>1 DEF Fail
<1>8. w.dihedral # "none"
  <2>1. requireAngle(w.dihedral) = {}
    BY <1>3, <1>6, <1>7 DEF Fail
  <2> QED
    BY <2>1 DEF requireAngle
<1>9. planes.v[1].area = IF w.dihedralMode = "panel" THEN Mul(p.area, c) ELSE p.area
  <2>1. CASE w.dihedralMode = "panel"
    <3>1. planes.v = <<proj, given>>
      BY <1>4, <1>7, <2>1, RefusalsStand, OkFacts
    <3> QED
      BY <1>5, <2>1, <3>1
  <2>2. CASE w.dihedralMode # "panel"
    <3>1. planes.v = <<given, panel>>
      BY <1>4, <1>7, <2>2, RefusalsStand, OkFacts
    <3> QED
      BY <1>5, <2>2, <3>1
  <2> QED
    BY <2>1, <2>2
<1> QED
  BY <1>2, <1>3, <1>7, <1>8, <1>9, OkFacts DEF plan, c

\* The ceilings and the mass a design is judged at do not depend on the wing.
LEMMA OtherWing ==
    ASSUME NEW d, Formed(d), Measured(d), NEW w, NEW e, e = [d EXCEPT !.wing = w]
    PROVE  /\ e.wing = w /\ e.cases = d.cases /\ e.reqs = d.reqs
           /\ massReading(e) = massReading(d)
           /\ stallCeilings(e, "all") = stallCeilings(d, "all")
           /\ AreaLowerBound(e, "all").v = AreaLowerBound(d, "all").v
           /\ CasesNamed(d) => CasesNamed(e)
<1>1. /\ {"wing", "cases", "reqs", "massMode", "mass", "components"} \subseteq DOMAIN d
  BY DEF Formed, Lists, Measured
<1>2. /\ e.wing = w /\ e.cases = d.cases /\ e.reqs = d.reqs
      /\ e.massMode = d.massMode /\ e.mass = d.mass /\ e.components = d.components
  BY <1>1
<1>3. massReading(e) = massReading(d)
  BY <1>2 DEF massReading
<1>4. stallCeilings(e, "all") = stallCeilings(d, "all")
  BY <1>2 DEF stallCeilings
<1>5. areaParts(e, stallCeilings(e, "all")) = areaParts(d, stallCeilings(d, "all"))
  BY <1>3, <1>4 DEF areaParts
<1>6. AreaLowerBound(e, "all").v = AreaLowerBound(d, "all").v
  BY <1>5, AreaLowerIs
<1>7. CasesNamed(d) => CasesNamed(e)
  BY <1>2 DEF CasesNamed
<1> QED
  BY <1>2, <1>3, <1>4, <1>6, <1>7

\* The edit: all but one size released, and the area written into the drivers.
LEMMA StallLimitMade ==
    ASSUME NEW d, Formed(d), NEW hold, SizeAtStallLimit(d, hold, "all").issues = {}
    PROVE  LET e == SizeAtStallLimit(d, hold, "all").v
           IN  /\ hold \in {"span", "aspect", "root"} /\ AreaLowerBound(d, "all").v.known
               /\ e = [d EXCEPT !.wing = e.wing]
               /\ e.wing.dihedral = d.wing.dihedral /\ e.wing.dihedralMode = d.wing.dihedralMode
               /\ suppliedDrivers(e.wing.drivers) \subseteq {hold, "area"}
               /\ e.wing.drivers.area = areaDriverFor(d, AreaLowerBound(d, "all").v.value)
<1> DEFINE r    == releaseAllBut(d, hold)
           b    == AreaLowerBound(d, "all")
           x    == areaDriverFor(d, b.v.value)
           D    == d.wing.drivers
           rs   == [k \in DOMAIN D |-> IF k \in DriverKeys(d) \ {hold} THEN Unset(k) ELSE D[k]]
           wr   == [d.wing EXCEPT !.drivers = rs]
           e    == setSizeDriver(r, "area", x)
           y    == IF x = None THEN Unset("area") ELSE x
           es   == [rs EXCEPT !["area"] = y]
           we   == [wr EXCEPT !.drivers = es]
<1>1. hold \in {"span", "aspect", "root"} /\ b.v.known /\ SizeAtStallLimit(d, hold, "all").v = e
  <2>1. /\ hold \in {"span", "aspect", "root"} /\ holdsDriver(d.wing.drivers, hold)
    BY RefusalsStand DEF SizeAtStallLimit
  <2>2. SizeAtStallLimit(d, hold, "all")
          = Then(b, LAMBDA bound : IF ~bound.known THEN Fail({"missing"})
                                   ELSE Ok(setSizeDriver(r, "area", areaDriverFor(d, bound.value))))
    BY <2>1 DEF SizeAtStallLimit
  <2>3. b.issues = {}
    BY <2>2 DEF Then, Fail
  <2>4. b.v.known
    BY <2>2, <2>3, RefusalsStand DEF Then
  <2> QED
    BY <2>1, <2>2, <2>3, <2>4 DEF Then, Ok
<1>2. /\ "wing" \in DOMAIN d /\ {"drivers", "dihedral", "dihedralMode"} \subseteq DOMAIN d.wing
      /\ {"span", "area", "aspect", "root"} \subseteq DOMAIN D
  BY DriverFacts DEF Formed, ToSet, SizeKeys
<1>3. r = [d EXCEPT !.wing = wr]
  BY DEF releaseAllBut
<1>4. /\ DOMAIN wr = DOMAIN d.wing /\ wr.drivers = rs /\ DOMAIN rs = DOMAIN D
      /\ wr.dihedral = d.wing.dihedral /\ wr.dihedralMode = d.wing.dihedralMode
  BY <1>2
<1>5. r.wing = wr /\ "wing" \in DOMAIN r
  BY <1>2, <1>3
<1>6. y = x
  BY DEF Unset
<1> HIDE DEF b, x, y
<1>7. e = [r EXCEPT !.wing = we]
  <2>1. e = [r EXCEPT !.wing = [r.wing EXCEPT !.drivers = [r.wing.drivers EXCEPT !["area"] = y]]]
    BY DEF setSizeDriver, x, y
  <2> HIDE DEF r, e, wr, rs
  <2> QED
    BY <1>4, <1>5, <2>1
<1>8. /\ we.drivers = es /\ we.dihedral = d.wing.dihedral /\ we.dihedralMode = d.wing.dihedralMode
  <2> HIDE DEF wr, es
  <2> QED
    BY <1>2, <1>4
<1>9. DOMAIN es = DOMAIN D /\ es["area"] = y /\ \A k \in DOMAIN D : k # "area" => es[k] = rs[k]
  <2> HIDE DEF rs
  <2> QED
    BY <1>2, <1>4
<1>10. e.wing = we /\ e = [d EXCEPT !.wing = we]
  <2> HIDE DEF we, wr, e, r
  <2> QED
    BY <1>2, <1>3, <1>5, <1>7
<1>11. ASSUME NEW k \in suppliedDrivers(es), k # hold, k # "area"
       PROVE  FALSE
  <2>1. k \in {"span", "area", "aspect", "root"} /\ holdsDriver(es, k)
    BY <1>11, DriverFacts
  <2>2. es[k] = rs[k] /\ k \in DOMAIN D
    BY <1>2, <1>9, <1>11, <2>1
  <2>3. CASE k \in DriverKeys(d)
    <3>1. es[k] = Unset(k)
      BY <1>11, <2>2, <2>3
    <3> HIDE DEF es
    <3> QED
      BY <1>11, <2>1, <3>1 DEF holdsDriver, Unset, Supplied
  <2>4. CASE k \notin DriverKeys(d)
    <3>1. es[k] = D[k]
      BY <2>2, <2>4
    <3> HIDE DEF es
    <3> QED
      BY <1>11, <2>1, <2>4, <3>1, DriverFacts DEF holdsDriver, DriverKeys
  <2> QED
    BY <2>3, <2>4
<1> HIDE DEF es, we, e
<1> QED
  BY <1>1, <1>6, <1>8, <1>9, <1>10, <1>11 DEF x, b

\* Sized at the stall limit, a wing that solves has the least area, and the ceilings are met.
LEMMA StallLimitLands ==
    ASSUME NEW d, NEW start, Sound(d, start), Measured(d), CasesNamed(d), NEW hold,
           massReading(d).status = "computed", ~AreaLowerBound(d, "all").v.partial,
           SizeAtStallLimit(d, hold, "all").issues = {},
           SolveWing(SizeAtStallLimit(d, hold, "all").v.wing).issues = {}
    PROVE  /\ CeilingsMet(SizeAtStallLimit(d, hold, "all").v)
           /\ SolveWing(SizeAtStallLimit(d, hold, "all").v.wing).v.projected.area = AreaLowerBound(d, "all").v.value
<1> DEFINE e == SizeAtStallLimit(d, hold, "all").v
           L == AreaLowerBound(d, "all").v.value
           c == cosDihedral(d.wing)
           x == areaDriverFor(d, L)
           S == SolvePlanform(e.wing.drivers).v.area
           s == SolveWing(e.wing).v.projected.area
<1>1. /\ hold \in {"span", "aspect", "root"} /\ AreaLowerBound(d, "all").v.known
      /\ e.wing.dihedral = d.wing.dihedral /\ e.wing.dihedralMode = d.wing.dihedralMode
      /\ suppliedDrivers(e.wing.drivers) \subseteq {hold, "area"} /\ e.wing.drivers.area = x
  BY StallLimitMade DEF Sound
<1>2. e = [d EXCEPT !.wing = e.wing]
  BY StallLimitMade DEF Sound
<1>3. Formed(e) /\ Measured(e)
  BY StallLimitSound, StallLimitMeasured DEF Sound
<1> HIDE DEF e
<1>4. /\ massReading(e) = massReading(d) /\ AreaLowerBound(e, "all").v = AreaLowerBound(d, "all").v
      /\ CasesNamed(e)
  BY <1>2, OtherWing DEF Sound
<1>5. L \in Magnitude /\ Reduced(L) /\ L \in Number
  BY <1>1, AreaLowerIs, AreaBound, MagnitudeWorth DEF Sound
<1>6. /\ d.wing.dihedral # "none" /\ SolvePlanform(e.wing.drivers).issues = {} /\ cosDihedral(e.wing) = c
      /\ s = IF d.wing.dihedralMode = "panel" THEN Mul(S, c) ELSE S
  <2>1. SolveWing(e.wing).issues = {}
    BY DEF e
  <2>2. cosDihedral(e.wing) = c
    BY <1>1 DEF cosDihedral
  <2> QED
    BY <1>1, <2>1, <2>2, AreaResolved
<1>7. S = x
  BY <1>1, <1>3, <1>6, AreaDriven DEF Measured
<1>8. s = L
  <2>1. c \in Magnitude /\ Mul(Div(L, c), c) = L /\ Mul(L, One) = L
    BY <1>5, CosineNumber, ThereAndBack
  <2>2. d.wing.dihedral = "flat" => c = One
    BY DEF cosDihedral
  <2> HIDE DEF c, L, s, S
  <2>3. x = IF d.wing.dihedralMode = "panel" /\ d.wing.dihedral \notin {"none", "flat"} THEN Div(L, c) ELSE L
    BY DEF areaDriverFor, c
  <2> HIDE DEF x
  <2>4. CASE d.wing.dihedralMode = "panel" /\ d.wing.dihedral # "flat"
    BY <1>6, <1>7, <2>1, <2>3, <2>4
  <2>5. CASE d.wing.dihedralMode = "panel" /\ d.wing.dihedral = "flat"
    BY <1>6, <1>7, <2>1, <2>2, <2>3, <2>5
  <2>6. CASE d.wing.dihedralMode # "panel"
    BY <1>6, <1>7, <2>3, <2>6
  <2> QED
    BY <2>4, <2>5, <2>6
<1>9. CeilingsMet(e) <=> Leq(L, s)
  <2>1. SolveWing(e.wing).issues = {}
    BY DEF e
  <2> QED
    BY <1>1, <1>3, <1>4, <2>1, WholeBound
<1>10. Leq(L, L)
  BY <1>5, InOrder
<1> QED
  BY <1>8, <1>9, <1>10 DEF e

-----------------------------------------------------------------------------
(***************************************************************************)
(* What the sizing reports to conflict: no wing is as large as the         *)
(* ceilings ask and as small as the other requirements allow.              *)
(***************************************************************************)
LEMMA RequiredMembers ==
    ASSUME NEW d, Formed(d), NEW subject, NEW direction
    PROVE  /\ CheckList(requiredOn(d, subject, direction))
           /\ \A r \in ToSet(requiredOn(d, subject, direction)) :
                /\ r \in ToSet(d.reqs) /\ r.priority = "required" /\ r.subject = subject
                /\ Supplied(effectiveSide(r, direction))
<1> DEFINE n == Len(d.reqs)
           states(r) == r.priority = "required" /\ r.subject = subject /\ Supplied(effectiveSide(r, direction))
           of(r) == IF states(r) THEN <<r>> ELSE <<>>
           ss == [i \in 1 .. n |-> of(d.reqs[i])]
<1>1. requiredOn(d, subject, direction) = FlattenSeq(ss)
  BY DEF requiredOn
<1>2. n \in Nat /\ \A i \in 1 .. n : d.reqs[i] \in ToSet(d.reqs)
  BY NamedListFacts DEF Formed, Lists
<1>3. ss = [i \in 1 .. n |-> ss[i]] /\ \A i \in 1 .. n : ss[i] = of(d.reqs[i])
  BY <1>2
<1> HIDE DEF n, ss
<1>4. ASSUME NEW r
      PROVE  CheckList(of(r)) /\ \A x \in ToSet(of(r)) : x = r /\ states(r)
  <2> HIDE DEF states
  <2>1. CASE states(r)
    <3>1. of(r) = <<r>>
      BY <2>1
    <3>2. <<r>> \in Seq({r}) /\ ToSet(<<r>>) = {r}
      BY DEF ToSet
    <3> QED
      BY <2>1, <3>1, <3>2 DEF CheckList
  <2>2. CASE ~states(r)
    <3>1. of(r) = <<>>
      BY <2>2
    <3> HIDE DEF of
    <3> QED
      BY <3>1, NoChecks
  <2> QED
    BY <2>1, <2>2
<1> HIDE DEF of
<1>5. \A i \in 1 .. n : CheckList(ss[i])
  BY <1>3, <1>4
<1>6. CheckList(FlattenSeq(ss))
  BY <1>2, <1>3, <1>5, FlattenLists
<1>7. ASSUME NEW x \in ToSet(FlattenSeq(ss))
      PROVE  x \in ToSet(d.reqs) /\ states(x)
  <2>1. PICK i \in 1 .. n : x \in ToSet(ss[i])
    BY <1>2, <1>3, <1>5, FlattenFrom
  <2> HIDE DEF states
  <2> QED
    BY <1>2, <1>3, <1>4, <2>1
<1> QED
  BY <1>1, <1>6, <1>7

\* A required bound on a size of the wing holds of a design that is "met".
LEMMA SizeMet ==
    ASSUME NEW d, Formed(d), Measured(d), Aggregate(Assess(d)) = "met",
           NEW r \in ToSet(d.reqs), r.priority = "required", r.subject \in {"span", "area", "aspect"},
           NEW x, x = readGeometry(r.subject, None, SolveWing(d.wing), massReading(d)).v
    PROVE  /\ Supplied(r.min) \/ Supplied(r.max) => SolveWing(d.wing).issues = {}
           /\ Supplied(r.min) => Leq(effectiveMinimum(r), x)
           /\ Supplied(r.max) => Leq(x, effectiveMaximum(r))
           /\ SolveWing(d.wing).issues = {} =>
                LET proj == SolveWing(d.wing).v.projected
                IN  /\ r.subject = "span" => x = proj.span
                    /\ r.subject = "area" => x = proj.area
                    /\ r.subject = "aspect" => x = Div(Sq(proj.span), proj.area)
<1> DEFINE wing == SolveWing(d.wing)
           m    == MissionAnalysis(d, wing)
           y    == readGeometry(r.subject, None, wing, massReading(d))
<1>1. ~PerCase(r.subject) /\ r.subject # "mass" /\ r.subject \notin PowerSubjects
  BY DEF PerCase, PowerSubjects
<1>2. read(d, r.subject, None, wing, m) = y
  BY <1>1 DEF read
<1>3. ToSet(checkBounds(r, "", y)) \subseteq ToSet(Assess(d))
  <2>1. ToSet(checkBounds(r, "", read(d, r.subject, None, wing, m))) \subseteq ToSet(Assess(d))
    BY <1>1, ChecksMade
  <2> HIDE DEF wing, m, y
  <2> QED
    BY <1>2, <2>1
<1> DEFINE name == ""
<1>4. ToSet(checkBounds(r, name, y)) \subseteq ToSet(Assess(d)) /\ x = y.v
  BY <1>3
<1> HIDE DEF name, y
<1>5. /\ Supplied(r.min) \/ Supplied(r.max) => y.status = "computed"
      /\ Supplied(r.min) => Leq(effectiveMinimum(r), y.v)
      /\ Supplied(r.max) => Leq(y.v, effectiveMaximum(r))
  BY <1>1, <1>4, BoundMet DEF atLeast, atMost
<1>6. y.status = "computed" => wing.issues = {}
  BY GeometryRead DEF y
<1>7. ASSUME wing.issues = {}
      PROVE  /\ r.subject = "span" => y.v = wing.v.projected.span
             /\ r.subject = "area" => y.v = wing.v.projected.area
             /\ r.subject = "aspect" => y.v = wing.v.aspect
  BY <1>7, ReadingFacts DEF readGeometry, y
<1>8. wing.issues = {} => wing.v.aspect = Div(Sq(wing.v.projected.span), wing.v.projected.area)
  BY WingSolved DEF Measured
<1> HIDE DEF wing
<1> QED
  BY <1>4, <1>5, <1>6, <1>7, <1>8 DEF wing

\* A ceiling that is met is met by a wing that solves and a mass that is known.
LEMMA CeilingRead ==
    ASSUME NEW d, NEW fc, NEW r, CeilingCheck(d, fc, r).status = "met"
    PROVE  SolveWing(d.wing).issues = {} /\ massReading(d).status = "computed"
<1> DEFINE subject == "stall"
           v == readGeometry(subject, fc, SolveWing(d.wing), massReading(d))
<1>1. CeilingCheck(d, fc, r).status = IF v.status # "computed" THEN "unknown"
                                      ELSE statusFor(atMost(r.subject, v.v, effectiveMaximum(r)))
  BY DEF CeilingCheck, buildCheck
<1>2. subject = "stall"
  OBVIOUS
<1> HIDE DEF subject, v
<1>3. v.status = "computed"
  BY <1>1
<1> QED
  BY <1>2, <1>3, GeometryRead DEF v

LEMMA FirstListed ==
    ASSUME NEW l, CheckList(l), l # <<>>
    PROVE  l[1] \in ToSet(l)
<1>1. l \in Seq(ToSet(l)) /\ Len(l) # 0
  BY EmptySeq DEF CheckList
<1>2. Len(l) \in Nat /\ \A p \in 1 .. Len(l) : l[p] \in ToSet(l)
  BY CheckListFacts
<1> QED
  BY <1>1, <1>2

\* Of a design that is "met", the area is no less than a lower bound that is known.
LEMMA LowerHolds ==
    ASSUME NEW d, Formed(d), Measured(d), Aggregate(Assess(d)) = "met", AreaLowerBound(d, "all").v.known
    PROVE  /\ SolveWing(d.wing).issues = {}
           /\ Leq(AreaLowerBound(d, "all").v.value, SolveWing(d.wing).v.projected.area)
<1> DEFINE cs == stallCeilings(d, "all")
           n  == Len(cs)
           ps == areaParts(d, cs)
           mv == massReading(d).v
           s  == SolveWing(d.wing).v.projected.area
           b  == intersect(ps, "lower")
           area(i) == MinimumWingArea(cs[i].case, mv, cs[i].max)
<1>1. AreaLowerBound(d, "all").v = b
  BY AreaLowerIs
<1>2. n \in Nat /\ DOMAIN cs = 1 .. n
  BY CeilingPairs, CheckListFacts
<1>3. ASSUME NEW i \in 1 .. n
      PROVE  \E fc \in ToSet(d.cases), r \in ToSet(d.reqs) :
               Binds("all", r, fc) /\ cs[i] = [case |-> fc, max |-> effectiveMaximum(r)]
  <2> DEFINE c == cs[i]
  <2>1. c \in ToSet(cs)
    BY <1>2 DEF ToSet
  <2> HIDE DEF c, cs
  <2>2. \E fc \in ToSet(d.cases), r \in ToSet(d.reqs) :
          Binds("all", r, fc) /\ c = [case |-> fc, max |-> effectiveMaximum(r)]
    BY <2>1, CeilingPairs DEF cs
  <2> QED
    BY <2>2 DEF c
<1>4. mv \in Quantity
  BY MassRead
<1>5. ps = [i \in 1 .. n |-> contribute(cs[i].case.name, area(i))]
  BY DEF areaParts
<1> HIDE DEF ps, b, cs, n
<1>6. /\ Len(ps) = n
      /\ \A i \in 1 .. n : ps[i].known = (area(i).issues = {}) /\ ps[i].value = area(i).v
  <2>1. ps = [i \in 1 .. n |-> ps[i]] /\ \A i \in 1 .. n : ps[i] = contribute(cs[i].case.name, area(i))
    BY <1>5
  <2> HIDE DEF area, mv
  <2> QED
    BY <1>2, <2>1, FunctionList DEF contribute
<1>7. ASSUME NEW i \in 1 .. n, ps[i].known
      PROVE  SolveWing(d.wing).issues = {} /\ ps[i].value \in Number /\ Leq(ps[i].value, s)
  <2>1. PICK fc \in ToSet(d.cases), r \in ToSet(d.reqs) :
          Binds("all", r, fc) /\ cs[i] = [case |-> fc, max |-> effectiveMaximum(r)]
    BY <1>3
  <2>2. area(i) = MinimumWingArea(fc, mv, effectiveMaximum(r)) /\ PerCase(r.subject)
    BY <2>1 DEF Binds
  <2>3. area(i).issues = {} /\ ps[i].value = area(i).v
    BY <1>6, <1>7
  <2> HIDE DEF area
  <2>4. CeilingCheck(d, fc, r).status = "met"
    <3> DEFINE c == CeilingCheck(d, fc, r)
    <3>1. c \in ToSet(Assess(d)) /\ c.priority = "required"
      BY <2>1, CeilingAssessed
    <3>2. c.status \in {"unknown", "met", "unmet"}
      BY DEF CeilingCheck, buildCheck, statusFor
    <3> HIDE DEF c
    <3>3. c.status = "met"
      BY <3>1, <3>2, RequiredIsMet
    <3> QED
      BY <3>3 DEF c
  <2>5. SolveWing(d.wing).issues = {} /\ massReading(d).status = "computed"
    BY <2>4, CeilingRead
  <2>6. area(i).v \in Number /\ Leq(area(i).v, s)
    BY <2>2, <2>3, <2>4, <2>5, OneCeiling
  <2> QED
    BY <2>3, <2>5, <2>6
<1> HIDE DEF area, s, mv
<1>8. \A i \in 1 .. n : ps[i].known => ps[i].value \in Number
  BY <1>7
<1>9. b.known => \E i \in 1 .. n : ps[i].known /\ b.value = ps[i].value
  BY <1>2, <1>6, <1>8, LowerIntersection DEF b
<1>10. PICK i \in 1 .. n : ps[i].known /\ b.value = ps[i].value
  BY <1>1, <1>9
<1>11. SolveWing(d.wing).issues = {} /\ Leq(b.value, s)
  BY <1>7, <1>10
<1> QED
  BY <1>1, <1>11 DEF s

\* And no more than an upper bound that is known.
LEMMA DirectHolds ==
    ASSUME NEW d, Formed(d), Measured(d), Aggregate(Assess(d)) = "met", SolveWing(d.wing).issues = {},
           NEW r \in ToSet(requiredOn(d, "area", "upper"))
    PROVE  /\ effectiveMaximum(r) \in Number
           /\ Leq(SolveWing(d.wing).v.projected.area, effectiveMaximum(r))
<1> DEFINE subject == "area"
           direction == "upper"
<1>1. subject = "area" /\ direction # "lower" /\ r \in ToSet(requiredOn(d, subject, direction))
  OBVIOUS
<1> HIDE DEF subject, direction
<1>2. r \in ToSet(d.reqs) /\ r.priority = "required" /\ r.subject = subject /\ Supplied(effectiveSide(r, direction))
  BY <1>1, RequiredMembers
<1>3. Supplied(r.max) /\ MeasuredReq(r)
  BY <1>1, <1>2 DEF effectiveSide, effectiveMaximum, Supplied, Measured
<1>4. Leq(SolveWing(d.wing).v.projected.area, effectiveMaximum(r))
  BY <1>1, <1>2, <1>3, SizeMet
<1> QED
  BY <1>3, <1>4, EffectiveBounds

LEMMA SlenderHolds ==
    ASSUME NEW d, Formed(d), Measured(d), Aggregate(Assess(d)) = "met", SolveWing(d.wing).issues = {},
           NEW b \in ToSet(requiredOn(d, "span", "upper")), NEW a \in ToSet(requiredOn(d, "aspect", "lower")),
           effectiveMinimum(a)[1] > 0
    PROVE  /\ Div(Sq(effectiveMaximum(b)), effectiveMinimum(a)) \in Number
           /\ Leq(SolveWing(d.wing).v.projected.area, Div(Sq(effectiveMaximum(b)), effectiveMinimum(a)))
<1> DEFINE span == "span"
           aspect == "aspect"
           upper == "upper"
           lower == "lower"
           proj == SolveWing(d.wing).v.projected
           S == effectiveMaximum(b)
           A == effectiveMinimum(a)
<1>1. /\ span = "span" /\ aspect = "aspect" /\ upper # "lower" /\ lower = "lower"
      /\ b \in ToSet(requiredOn(d, span, upper)) /\ a \in ToSet(requiredOn(d, aspect, lower))
  OBVIOUS
<1> HIDE DEF span, aspect, upper, lower
<1>2. /\ b \in ToSet(d.reqs) /\ b.priority = "required" /\ b.subject = span /\ Supplied(effectiveSide(b, upper))
      /\ a \in ToSet(d.reqs) /\ a.priority = "required" /\ a.subject = aspect /\ Supplied(effectiveSide(a, lower))
  BY <1>1, RequiredMembers
<1>3. Supplied(b.max) /\ MeasuredReq(b) /\ Supplied(a.min) /\ MeasuredReq(a)
  BY <1>1, <1>2 DEF effectiveSide, effectiveMaximum, effectiveMinimum, Supplied, Measured
<1>4. S \in Number /\ A \in Number
  BY <1>3, EffectiveBounds
<1>5. A \in Magnitude /\ proj.span \in Magnitude /\ proj.area \in Magnitude
  <2>1. A[1] > 0
    OBVIOUS
  <2>2. MeasuredDrivers(d.wing.drivers)
    BY DEF Measured
  <2>3. proj.span \in Magnitude /\ proj.area \in Magnitude
    BY <2>2, WingSolved
  <2> HIDE DEF A, proj
  <2> QED
    BY <1>4, <2>1, <2>3, NumberParts, IsMagnitude DEF Magnitude, Positive
<1>6. Leq(proj.span, S)
  BY <1>1, <1>2, <1>3, SizeMet
<1>7. Leq(A, Div(Sq(proj.span), proj.area))
  BY <1>1, <1>2, <1>3, SizeMet
<1> HIDE DEF proj, S, A
<1>8. Sq(S) \in Number
  BY <1>4, NumberOperations
<1> QED
  BY <1>4, <1>5, <1>6, <1>7, <1>8, SlenderArea, QuotientNumber DEF proj, S, A

LEMMA UpperHolds ==
    ASSUME NEW d, Formed(d), Measured(d), Aggregate(Assess(d)) = "met", SolveWing(d.wing).issues = {},
           AreaUpperBound(d).known
    PROVE  /\ AreaUpperBound(d).value \in Number
           /\ Leq(SolveWing(d.wing).v.projected.area, AreaUpperBound(d).value)
<1> DEFINE s  == SolveWing(d.wing).v.projected.area
           K(p) == p.value \in Number /\ Leq(s, p.value)
           rs == requiredOn(d, "area", "upper")
           n  == Len(rs)
           bs == requiredOn(d, "span", "upper")
           as == requiredOn(d, "aspect", "lower")
           span   == requiredBound(d, "span", "upper")
           aspect == requiredBound(d, "aspect", "lower")
           p1 == [i \in 1 .. n |-> contribute(rs[i].name, Ok(effectiveMaximum(rs[i])))]
           p2 == spanAndAspect(span, aspect)
           ps == p1 \o p2
           u  == intersect(ps, "upper")
<1>1. AreaUpperBound(d) = u
  BY DEF AreaUpperBound
<1>2. CheckList(rs) /\ CheckList(bs) /\ CheckList(as)
  BY RequiredMembers
<1>3. ASSUME NEW i \in 1 .. n
      PROVE  K(p1[i])
  <2> DEFINE r == rs[i]
  <2>1. r \in ToSet(rs)
    BY <1>2, CheckListFacts
  <2>2. effectiveMaximum(r) \in Number /\ Leq(s, effectiveMaximum(r))
    BY <2>1, DirectHolds
  <2>3. p1[i].value = effectiveMaximum(r)
    BY OkFacts DEF contribute
  <2> QED
    BY <2>2, <2>3
<1>4. p2 = <<>> \/ \E p : p2 = <<p>> /\ K(p)
  <2> DEFINE v == Div(Sq(span.value), aspect.value)
             p == contribute(span.from, Ok(v))
  <2>1. p2 = <<p>> \/ p2 = <<>>
    BY DEF spanAndAspect
  <2>2. ASSUME p2 # <<>>
        PROVE  span.known /\ aspect.known /\ aspect.value[1] > 0
    BY <2>2 DEF spanAndAspect
  <2>3. span = IF bs = <<>> THEN [known |-> FALSE, value |-> None, from |-> ""]
               ELSE [known |-> TRUE, value |-> effectiveSide(bs[1], "upper"), from |-> bs[1].name]
    BY DEF requiredBound
  <2>4. aspect = IF as = <<>> THEN [known |-> FALSE, value |-> None, from |-> ""]
                 ELSE [known |-> TRUE, value |-> effectiveSide(as[1], "lower"), from |-> as[1].name]
    BY DEF requiredBound
  <2> HIDE DEF span, aspect, bs, as, p2, rs
  <2>5. span.known => bs # <<>> /\ span.value = effectiveSide(bs[1], "upper")
    BY <2>3
  <2>6. aspect.known => as # <<>> /\ aspect.value = effectiveSide(as[1], "lower")
    BY <2>4
  <2>7. ASSUME p2 # <<>>
        PROVE  K(p)
    <3>1. bs # <<>> /\ as # <<>>
      BY <2>2, <2>5, <2>6, <2>7
    <3>2. bs[1] \in ToSet(bs) /\ as[1] \in ToSet(as)
      BY <1>2, <3>1, FirstListed
    <3>3. span.value = effectiveMaximum(bs[1]) /\ aspect.value = effectiveMinimum(as[1])
      BY <2>2, <2>5, <2>6, <2>7 DEF effectiveSide
    <3>4. v \in Number /\ Leq(s, v)
      BY <2>2, <2>7, <3>2, <3>3, SlenderHolds DEF bs, as
    <3>5. p.value = v
      BY OkFacts DEF contribute
    <3> HIDE DEF p, v, s
    <3> QED
      BY <3>4, <3>5
  <2> HIDE DEF K, p
  <2> QED
    BY <2>1, <2>7
<1> HIDE DEF rs, p2, span, aspect, bs, as
<1>5. n \in Nat /\ p1 = [i \in 1 .. n |-> p1[i]]
  BY <1>2, CheckListFacts
<1> HIDE DEF K, n, p1, u
<1>6. Len(ps) \in Nat /\ \A i \in 1 .. Len(ps) : K(ps[i])
  <2> DEFINE T == {p1[i] : i \in 1 .. n} \cup ToSet(p2)
  <2>1. p2 \in Seq(ToSet(p2)) /\ \A p \in ToSet(p2) : K(p)
    <3>1. CASE p2 = <<>>
      BY <3>1, NoChecks DEF CheckList
    <3>2. CASE \E p : p2 = <<p>> /\ K(p)
      <4>1. PICK p : p2 = <<p>> /\ K(p)
        BY <3>2
      <4>2. <<p>> \in Seq({p}) /\ ToSet(<<p>>) = {p}
        BY DEF ToSet
      <4> QED
        BY <4>1, <4>2
    <3> QED
      BY <1>4, <3>1, <3>2
  <2>2. \A p \in T : K(p)
    BY <1>3, <2>1
  <2>3. ToSet(p2) \subseteq T /\ \A i \in 1 .. n : p1[i] \in T
    OBVIOUS
  <2> HIDE DEF T
  <2>4. p1 \in Seq(T)
    <3>1. p1 \in [1 .. n -> T]
      BY <1>5, <2>3
    <3> QED
      BY <1>5, <3>1, SeqDef
  <2>5. p2 \in Seq(T)
    BY <2>1, <2>3, SeqMonotonic
  <2>6. ps \in Seq(T)
    BY <2>4, <2>5
  <2> HIDE DEF ps
  <2>7. CheckList(ps) /\ ToSet(ps) \subseteq T
    BY <2>6, IsCheckList
  <2> QED
    BY <2>2, <2>7, CheckListFacts
<1>7. \A i \in 1 .. Len(ps) : ps[i].known => ps[i].value \in Number
  BY <1>6 DEF K
<1>8. u.known => \E i \in 1 .. Len(ps) : ps[i].known /\ u.value = ps[i].value
  <2> DEFINE m == Len(ps)
  <2> HIDE DEF ps
  <2>1. m \in Nat /\ Len(ps) = m
    BY <1>6
  <2> QED
    BY <1>7, <2>1, UpperIntersection DEF u
<1> HIDE DEF ps, s
<1>9. PICK i \in 1 .. Len(ps) : u.value = ps[i].value
  BY <1>1, <1>8
<1>10. u.value \in Number /\ Leq(s, u.value)
  BY <1>6, <1>9 DEF K
<1> QED
  BY <1>1, <1>10 DEF s

\* Whatever two sizes a wing is given, what is reported to conflict is not met.
LEMMA ConflictHolds ==
    ASSUME NEW d, NEW start, Sound(d, start), Measured(d), Conflicts(d) # {}, NEW p, MeasuredDrivers(p)
    PROVE  Aggregate(Assess([d EXCEPT !.wing.drivers = p])) # "met"
<1> DEFINE w == [d.wing EXCEPT !.drivers = p]
           e == [d EXCEPT !.wing.drivers = p]
           lower == AreaLowerBound(d, "all").v
           upper == AreaUpperBound(d)
           s == SolveWing(e.wing).v.projected.area
<1>1. e = [d EXCEPT !.wing = w]
  BY DEF Sound, Formed
<1>2. Measured(e)
  BY WingMeasured DEF Sound
<1>3. Formed(e)
  <2>1. /\ DOMAIN e = DOMAIN d /\ (\A k \in DOMAIN d : k # "wing" => e[k] = d[k]) /\ e.wing = w
    BY <1>1 DEF Sound, Formed
  <2>2. w.drivers = p /\ DOMAIN w = DOMAIN d.wing
    BY DEF Sound, Formed
  <2>3. ToSet(SizeKeys) \subseteq DOMAIN p
    <3>1. ToSet(SizeKeys) = {"span", "area", "aspect", "root"}
      BY DEF ToSet, SizeKeys
    <3> QED
      BY <3>1 DEF MeasuredDrivers
  <2> HIDE DEF e, w
  <2>4. e.mission = d.mission /\ \A k \in Lists : e[k] = d[k]
    BY <2>1 DEF Sound, Formed, Lists
  <2> QED
    BY <2>1, <2>2, <2>3, <2>4 DEF Sound, Formed
<1> HIDE DEF e, w
<1>4. AreaLowerBound(e, "all").v = lower /\ e.reqs = d.reqs
  BY <1>1, OtherWing DEF Sound
<1>5. AreaUpperBound(e) = upper
  BY <1>4 DEF AreaUpperBound, requiredBound, requiredOn
<1>6. lower.known /\ upper.known /\ Less(upper.value, lower.value)
  <2> HIDE DEF lower, upper
  <2>1. Conflicts(d) = crossed(lower, upper)
    BY DEF Conflicts, lower, upper
  <2> QED
    BY <2>1 DEF crossed
<1>7. lower.value \in Number
  BY <1>6, AreaLowerIs, AreaBound DEF Sound, Reduced
<1>8. SUFFICES ASSUME Aggregate(Assess(e)) = "met"
               PROVE  FALSE
  BY DEF e
<1>9. SolveWing(e.wing).issues = {} /\ Leq(lower.value, s)
  BY <1>2, <1>3, <1>4, <1>6, <1>8, LowerHolds
<1>10. upper.value \in Number /\ Leq(s, upper.value)
  BY <1>2, <1>3, <1>5, <1>6, <1>8, <1>9, UpperHolds
<1>11. s \in Number
  BY <1>2, <1>9, WingSolved DEF Measured, Magnitude
<1> HIDE DEF lower, upper, s
<1>12. Leq(lower.value, upper.value)
  BY <1>7, <1>9, <1>10, <1>11, Transitive
<1> QED
  BY <1>6, <1>7, <1>10, <1>12, InOrder

LEMMA StallBoundsHold ==
    ASSUME NEW start, Sound(Design, start), Measured(Design)
    PROVE  StallBoundsAgree
<1> SUFFICES ASSUME CasesNamed(Design), SolveWing(Design.wing).issues = {},
                    massReading(Design).status = "computed",
                    AreaLowerBound(Design, "all").v.known, ~AreaLowerBound(Design, "all").v.partial
             PROVE  BoundsAgree(SolveWing(Design.wing), massReading(Design), AreaLowerBound(Design, "all").v,
                                MassUpperBound(Design, "all").v)
  BY DEF StallBoundsAgree, Wing, CasesNamed
<1> DEFINE s == SolveWing(Design.wing).v.projected.area
           mass  == massReading(Design)
           lower == AreaLowerBound(Design, "all").v
           upper == MassUpperBound(Design, "all").v
<1>1. /\ CeilingsMet(Design) <=> Leq(lower.value, s)
      /\ CeilingsMet(Design) <=> upper.known /\ ~upper.partial /\ Leq(mass.v, upper.value)
  BY WholeBound DEF Sound
<1>2. ASSUME NEW hold \in {"span", "aspect", "root"}, SizeAtStallLimit(Design, hold, "all").issues = {},
             SolveWing(SizeAtStallLimit(Design, hold, "all").v.wing).issues = {}
      PROVE  /\ CeilingsMet(SizeAtStallLimit(Design, hold, "all").v)
             /\ SolveWing(SizeAtStallLimit(Design, hold, "all").v.wing).v.projected.area = lower.value
  BY <1>2, StallLimitLands
<1> HIDE DEF s, mass, lower, upper
<1> QED
  BY <1>1, <1>2 DEF BoundsAgree, s, mass, lower, upper

LEMMA MeasuredBoundsAreTrue == MeasuredInv => BoundsAreTrue
<1> SUFFICES ASSUME MeasuredInv
             PROVE  BoundsAreTrue
  OBVIOUS
<1>1. Sound(Design, scenario.start) /\ Measured(Design) /\ scenario \in Scenarios
  BY DEF MeasuredInv, HistoryInv, Design
<1>2. \A p \in scenario.probes : MeasuredDrivers(p)
  BY <1>1, ScenariosAssumption
<1>3. StallBoundsAgree
  BY <1>1, StallBoundsHold
<1>4. ConflictIsReal
  BY <1>1, <1>2, ConflictHolds DEF ConflictIsReal
<1> QED
  BY <1>3, <1>4 DEF BoundsAreTrue

\* What the sizing tells a builder is so (sizing.go against requirements.go): where the
\* lower bound on the area is whole, the wing is at least that large exactly when every
\* required stall ceiling is met, which is exactly when the mass is at most the upper
\* bound; a wing sized at the limit lands on it; and what Conflicts reports no two sizes
\* of the wing can meet.
THEOREM BoundsAreTrueAlways == Spec => []BoundsAreTrue
<1>1. Init => MeasuredInv
  BY InitMeasured
<1>2. MeasuredInv /\ [Next]_vars => MeasuredInv'
  BY NextMeasured
<1>3. MeasuredInv => BoundsAreTrue
  BY MeasuredBoundsAreTrue
<1> QED
  BY <1>1, <1>2, <1>3, PTL DEF Spec

-----------------------------------------------------------------------------
\* A search: the candidates of a range, and the runs of those that are feasible.

\* The largest figure is built up one figure at a time.
LEMMA MostRuns ==
    ASSUME NEW qs, NEW n \in Nat, Len(qs) = n
    PROVE  \E F : /\ Most(qs) = F[n] /\ F[0] = Zero
                  /\ \A i \in 1 .. n : F[i] = Larger(F[i - 1], qs[i])
<1> DEFINE step(i, x) == Larger(x, qs[i])
           Runs(m, f) == f = [i \in 0 .. m |-> IF i = 0 THEN Zero ELSE step(i, f[i - 1])]
           S == {m \in Nat : \E f : Runs(m, f)}
           F == CHOOSE f : Runs(n, f)
<1>5. Most(qs) = F[n]
  BY DEF Most
<1> HIDE DEF step
<1>1. 0 \in S
  <2> DEFINE f == [i \in 0 .. 0 |-> Zero]
  <2>1. f = [i \in 0 .. 0 |-> IF i = 0 THEN Zero ELSE step(i, f[i - 1])]
    OBVIOUS
  <2> QED
    BY <2>1
<1>2. ASSUME NEW m \in Nat, m \in S
      PROVE  m + 1 \in S
  <2>1. PICK f : Runs(m, f)
    BY <1>2
  <2>2. \A i \in 0 .. m : f[i] = IF i = 0 THEN Zero ELSE step(i, f[i - 1])
    <3> DEFINE h == [i \in 0 .. m |-> IF i = 0 THEN Zero ELSE step(i, f[i - 1])]
    <3>1. f = h
      BY <2>1
    <3>2. \A i \in 0 .. m : h[i] = IF i = 0 THEN Zero ELSE step(i, f[i - 1])
      OBVIOUS
    <3> HIDE DEF h
    <3> QED
      BY <3>1, <3>2
  <2> DEFINE g == [i \in 0 .. m + 1 |-> IF i = m + 1 THEN step(m + 1, f[m]) ELSE f[i]]
  <2>3. g = [i \in 0 .. m + 1 |-> g[i]]
    OBVIOUS
  <2>4. \A i \in 0 .. m : g[i] = f[i]
    OBVIOUS
  <2>5. g[m + 1] = step(m + 1, f[m])
    OBVIOUS
  <2> HIDE DEF g
  <2>6. ASSUME NEW i \in 0 .. m + 1
        PROVE  g[i] = IF i = 0 THEN Zero ELSE step(i, g[i - 1])
    <3>1. CASE i = m + 1
      <4>1. i - 1 = m /\ m \in 0 .. m /\ i # 0
        BY <3>1
      <4> QED
        BY <2>4, <2>5, <3>1, <4>1
    <3>2. CASE i # m + 1
      <4>1. i \in 0 .. m /\ (i # 0 => i - 1 \in 0 .. m)
        BY <3>2
      <4> QED
        BY <2>2, <2>4, <4>1
    <3> QED
      BY <3>1, <3>2
  <2>7. Runs(m + 1, g)
    BY <2>3, <2>6
  <2> QED
    BY <2>7
<1> HIDE DEF S
<1>3. Nat \subseteq S
  BY <1>1, <1>2, InductionOnSet
<1>4. Runs(n, F)
  BY <1>3 DEF S
<1>6. \A i \in 0 .. n : F[i] = IF i = 0 THEN Zero ELSE step(i, F[i - 1])
  <2> DEFINE h == [i \in 0 .. n |-> IF i = 0 THEN Zero ELSE step(i, F[i - 1])]
  <2>1. F = h
    BY <1>4
  <2> HIDE DEF F
  <2>2. \A i \in 0 .. n : h[i] = IF i = 0 THEN Zero ELSE step(i, F[i - 1])
    OBVIOUS
  <2> HIDE DEF h
  <2> QED
    BY <2>1, <2>2
<1> HIDE DEF F
<1>7. F[0] = Zero
  BY <1>6
<1>8. ASSUME NEW i \in 1 .. n
      PROVE  F[i] = step(i, F[i - 1])
  <2>1. i \in 0 .. n /\ i # 0
    OBVIOUS
  <2> QED
    BY <1>6, <2>1
<1> QED
  BY <1>5, <1>7, <1>8 DEF step

\* So is the scan of the candidates.
LEMMA ScanRuns ==
    ASSUME NEW cands, NEW n \in Nat, Len(cands) = n
    PROVE  \E F : /\ scanOf(cands) = F[n] /\ F[0] = [start |-> 0, found |-> <<>>]
                  /\ \A i \in 1 .. n : F[i] = scanned(F[i - 1], cands, i)
<1> DEFINE step(i, x) == scanned(x, cands, i)
           Runs(m, f) == f = [i \in 0 .. m |-> IF i = 0 THEN [start |-> 0, found |-> <<>>] ELSE step(i, f[i - 1])]
           S == {m \in Nat : \E f : Runs(m, f)}
           F == CHOOSE f : Runs(n, f)
<1>5. scanOf(cands) = F[n]
  BY DEF scanOf
<1> HIDE DEF step
<1>1. 0 \in S
  <2> DEFINE f == [i \in 0 .. 0 |-> [start |-> 0, found |-> <<>>]]
  <2>1. f = [i \in 0 .. 0 |-> IF i = 0 THEN [start |-> 0, found |-> <<>>] ELSE step(i, f[i - 1])]
    OBVIOUS
  <2> QED
    BY <2>1
<1>2. ASSUME NEW m \in Nat, m \in S
      PROVE  m + 1 \in S
  <2>1. PICK f : Runs(m, f)
    BY <1>2
  <2>2. \A i \in 0 .. m : f[i] = IF i = 0 THEN [start |-> 0, found |-> <<>>] ELSE step(i, f[i - 1])
    <3> DEFINE h == [i \in 0 .. m |-> IF i = 0 THEN [start |-> 0, found |-> <<>>] ELSE step(i, f[i - 1])]
    <3>1. f = h
      BY <2>1
    <3>2. \A i \in 0 .. m : h[i] = IF i = 0 THEN [start |-> 0, found |-> <<>>] ELSE step(i, f[i - 1])
      OBVIOUS
    <3> HIDE DEF h
    <3> QED
      BY <3>1, <3>2
  <2> DEFINE g == [i \in 0 .. m + 1 |-> IF i = m + 1 THEN step(m + 1, f[m]) ELSE f[i]]
  <2>3. g = [i \in 0 .. m + 1 |-> g[i]]
    OBVIOUS
  <2>4. \A i \in 0 .. m : g[i] = f[i]
    OBVIOUS
  <2>5. g[m + 1] = step(m + 1, f[m])
    OBVIOUS
  <2> HIDE DEF g
  <2>6. ASSUME NEW i \in 0 .. m + 1
        PROVE  g[i] = IF i = 0 THEN [start |-> 0, found |-> <<>>] ELSE step(i, g[i - 1])
    <3>1. CASE i = m + 1
      <4>1. i - 1 = m /\ m \in 0 .. m /\ i # 0
        BY <3>1
      <4> QED
        BY <2>4, <2>5, <3>1, <4>1
    <3>2. CASE i # m + 1
      <4>1. i \in 0 .. m /\ (i # 0 => i - 1 \in 0 .. m)
        BY <3>2
      <4> QED
        BY <2>2, <2>4, <4>1
    <3> QED
      BY <3>1, <3>2
  <2>7. Runs(m + 1, g)
    BY <2>3, <2>6
  <2> QED
    BY <2>7
<1> HIDE DEF S
<1>3. Nat \subseteq S
  BY <1>1, <1>2, InductionOnSet
<1>4. Runs(n, F)
  BY <1>3 DEF S
<1>6. \A i \in 0 .. n : F[i] = IF i = 0 THEN [start |-> 0, found |-> <<>>] ELSE step(i, F[i - 1])
  <2> DEFINE h == [i \in 0 .. n |-> IF i = 0 THEN [start |-> 0, found |-> <<>>] ELSE step(i, F[i - 1])]
  <2>1. F = h
    BY <1>4
  <2> HIDE DEF F
  <2>2. \A i \in 0 .. n : h[i] = IF i = 0 THEN [start |-> 0, found |-> <<>>] ELSE step(i, F[i - 1])
    OBVIOUS
  <2> HIDE DEF h
  <2> QED
    BY <2>1, <2>2
<1> HIDE DEF F
<1>7. F[0] = [start |-> 0, found |-> <<>>]
  BY <1>6
<1>8. ASSUME NEW i \in 1 .. n
      PROVE  F[i] = step(i, F[i - 1])
  <2>1. i \in 0 .. n /\ i # 0
    OBVIOUS
  <2> QED
    BY <1>6, <2>1
<1> QED
  BY <1>5, <1>7, <1>8 DEF step

LEMMA MostBounds ==
    ASSUME NEW qs, NEW n \in Nat \ {0}, Len(qs) = n, \A i \in 1 .. n : qs[i] \in Number /\ ~ (qs[i][1] < 0),
           NEW c \in Number
    PROVE  Leq(Most(qs), c) <=> \A i \in 1 .. n : Leq(qs[i], c)
<1>1. PICK F : /\ Most(qs) = F[n] /\ F[0] = Zero
               /\ \A i \in 1 .. n : F[i] = Larger(F[i - 1], qs[i])
  BY MostRuns
<1> DEFINE All(m) == Leq(Zero, c) /\ \A i \in 1 .. m : Leq(qs[i], c)
           S == {m \in Nat : m <= n => F[m] \in Number /\ (Leq(F[m], c) <=> All(m))}
<1>2. 0 \in S
  BY <1>1, ConstantNumbers
<1>3. ASSUME NEW m \in Nat, m \in S
      PROVE  m + 1 \in S
  <2> SUFFICES ASSUME m + 1 <= n
               PROVE  F[m + 1] \in Number /\ (Leq(F[m + 1], c) <=> All(m + 1))
    OBVIOUS
  <2>1. /\ m + 1 \in 1 .. n /\ F[m + 1] = Larger(F[m], qs[m + 1]) /\ qs[m + 1] \in Number
        /\ F[m] \in Number /\ (Leq(F[m], c) <=> All(m))
    BY <1>1, <1>3
  <2>2. All(m + 1) <=> All(m) /\ Leq(qs[m + 1], c)
    <3>1. \A i \in 1 .. m + 1 : i \in 1 .. m \/ i = m + 1
      OBVIOUS
    <3>2. m + 1 \in 1 .. m + 1 /\ \A i \in 1 .. m : i \in 1 .. m + 1
      OBVIOUS
    <3> QED
      BY <3>1, <3>2
  <2> HIDE DEF All
  <2>3. CASE Less(F[m], qs[m + 1])
    <3>1. F[m + 1] = qs[m + 1] /\ Leq(F[m], qs[m + 1])
      BY <2>1, <2>3, InOrder DEF Larger
    <3>2. Leq(qs[m + 1], c) => Leq(F[m], c)
      BY <2>1, <3>1, Transitive
    <3> QED
      BY <2>1, <2>2, <3>1, <3>2
  <2>4. CASE ~ Less(F[m], qs[m + 1])
    <3>1. F[m + 1] = F[m] /\ Leq(qs[m + 1], F[m])
      BY <2>1, <2>4, InOrder DEF Larger
    <3>2. Leq(F[m], c) => Leq(qs[m + 1], c)
      BY <2>1, <3>1, Transitive
    <3> QED
      BY <2>1, <2>2, <3>1, <3>2
  <2> QED
    BY <2>3, <2>4
<1>4. Nat \subseteq S
  <2> HIDE DEF S
  <2> QED
    BY <1>2, <1>3, InductionOnSet
<1>5. Leq(F[n], c) <=> All(n)
  BY <1>4
<1>6. Leq(qs[1], c) => Leq(Zero, c)
  <2>1. 1 \in 1 .. n
    OBVIOUS
  <2>2. qs[1] \in Number /\ ~ (qs[1][1] < 0)
    BY <2>1
  <2>3. Leq(Zero, qs[1]) /\ Zero \in Number
    BY <2>2, NumberParts, ConstantNumbers DEF Leq, Zero, Int1, Positive
  <2> QED
    BY <2>2, <2>3, Transitive
<1>7. 1 \in 1 .. n
  OBVIOUS
<1> QED
  BY <1>1, <1>5, <1>6, <1>7

-----------------------------------------------------------------------------
(***************************************************************************)
(* The intervals of a search.  No two candidates have the same driver      *)
(* value, so an interval's ends tell which candidates it spans; the scan   *)
(* closes a run at the first candidate that is not feasible, or at the     *)
(* end.                                                                    *)
(***************************************************************************)
Apart(cands, n) ==
  /\ cands = [i \in 1 .. n |-> cands[i]]
  /\ \A i, j \in 1 .. n : cands[i].driver = cands[j].driver => i = j
At(cands, v)     == CHOOSE n \in DOMAIN cands : cands[n].driver = v
Intervals(cands) == {interval(cands, p, q) : p \in DOMAIN cands, q \in DOMAIN cands}
\* A run of feasible candidates up to n.
FeasibleRun(cands, x, n) ==
  LET p == At(cands, x.first)
      q == At(cands, x.last)
  IN  /\ p \in 1 .. n /\ q \in 1 .. n /\ p <= q /\ x = interval(cands, p, q)
      /\ \A m \in p .. q : cands[m].feasible
Separate(cands, x, y) == At(cands, x.last) + 1 < At(cands, y.first)
FeasibleRuns(cands, l, n) ==
  /\ l \in Seq(Intervals(cands)) /\ \A i \in 1 .. Len(l) : FeasibleRun(cands, l[i], n)
  /\ \A i, j \in 1 .. Len(l) : i < j => Separate(cands, l[i], l[j])
Spanned(cands, l, m) == \E i \in 1 .. Len(l) : m \in At(cands, l[i].first) .. At(cands, l[i].last)
\* The scan of the first n candidates.
ScannedTo(cands, acc, n) ==
  /\ acc \in [start : 0 .. n, found : Seq(Intervals(cands))] /\ FeasibleRuns(cands, acc.found, n - 1)
  /\ acc.start # 0 =>
       /\ \A m \in acc.start .. n : cands[m].feasible
       /\ \A i \in 1 .. Len(acc.found) : At(cands, acc.found[i].last) + 1 < acc.start
  /\ \A m \in 1 .. n : cands[m].feasible => (acc.start # 0 /\ acc.start <= m) \/ Spanned(cands, acc.found, m)

LEMMA IntervalEnds ==
    ASSUME NEW n \in Nat, NEW cands, Apart(cands, n), NEW p \in 1 .. n, NEW q \in 1 .. n
    PROVE  LET x == interval(cands, p, q)
           IN  /\ At(cands, x.first) = p /\ At(cands, x.last) = q /\ x \in Intervals(cands)
               /\ x.openLow = (p = 1) /\ x.openHigh = (q = Len(cands))
<1>1. DOMAIN cands = 1 .. n
  BY DEF Apart
<1>2. \A i \in 1 .. n : At(cands, cands[i].driver) = i
  BY <1>1 DEF Apart, At
<1>3. /\ interval(cands, p, q).first = cands[p].driver /\ interval(cands, p, q).last = cands[q].driver
      /\ interval(cands, p, q).openLow = (p = 1) /\ interval(cands, p, q).openHigh = (q = Len(cands))
  BY DEF interval
<1>4. interval(cands, p, q) \in Intervals(cands)
  BY <1>1 DEF Intervals
<1> QED
  BY <1>2, <1>3, <1>4

\* The open run, closed at n.
LEMMA CloseRun ==
    ASSUME NEW N \in Nat, NEW cands, Apart(cands, N), NEW n \in 0 .. N, NEW acc, ScannedTo(cands, acc, n),
           acc.start # 0
    PROVE  LET l == Append(acc.found, interval(cands, acc.start, n))
           IN  /\ FeasibleRuns(cands, l, n)
               /\ \A m \in 1 .. n : cands[m].feasible => Spanned(cands, l, m)
<1> DEFINE f == acc.found
           s == acc.start
           k == Len(f)
           x == interval(cands, s, n)
           l == Append(f, x)
<1>1. s \in 1 .. n /\ f \in Seq(Intervals(cands)) /\ k \in Nat
  BY LenProperties DEF ScannedTo
<1>2. s \in 1 .. N /\ n \in 1 .. N
  BY <1>1
<1>3. At(cands, x.first) = s /\ At(cands, x.last) = n /\ x \in Intervals(cands)
  BY <1>2, IntervalEnds
<1>4. /\ FeasibleRuns(cands, f, n - 1) /\ \A m \in s .. n : cands[m].feasible
      /\ \A i \in 1 .. k : At(cands, f[i].last) + 1 < s
      /\ \A m \in 1 .. n : cands[m].feasible => s <= m \/ Spanned(cands, f, m)
  BY DEF ScannedTo
<1>5. /\ l \in Seq(Intervals(cands)) /\ Len(l) = k + 1 /\ l[k + 1] = x
      /\ \A i \in 1 .. k : l[i] = f[i]
  BY <1>1, <1>3, AppendProperties
<1>6. FeasibleRun(cands, x, n)
  BY <1>1, <1>3, <1>4 DEF FeasibleRun
<1>7. \A i \in 1 .. k : FeasibleRun(cands, f[i], n)
  BY <1>1, <1>4 DEF FeasibleRun, FeasibleRuns
<1> HIDE DEF s, f, k, x, l
<1>8. \A i \in 1 .. k + 1 : i \in 1 .. k \/ i = k + 1
  BY <1>1
<1>9. \A i \in 1 .. Len(l) : FeasibleRun(cands, l[i], n)
  BY <1>5, <1>6, <1>7, <1>8
<1>10. ASSUME NEW i \in 1 .. Len(l), NEW j \in 1 .. Len(l), i < j
       PROVE  Separate(cands, l[i], l[j])
  <2>1. i \in 1 .. k
    BY <1>1, <1>5, <1>10
  <2>2. CASE j \in 1 .. k
    BY <1>4, <1>5, <1>10, <2>1, <2>2 DEF FeasibleRuns, k
  <2>3. CASE j = k + 1
    BY <1>3, <1>4, <1>5, <2>1, <2>3 DEF Separate
  <2> QED
    BY <1>5, <1>8, <2>2, <2>3
<1>11. ASSUME NEW m \in 1 .. n, cands[m].feasible
       PROVE  Spanned(cands, l, m)
  <2>1. CASE s <= m
    <3>1. m \in At(cands, l[k + 1].first) .. At(cands, l[k + 1].last) /\ k + 1 \in 1 .. Len(l)
      BY <1>1, <1>3, <1>5, <2>1
    <3> QED
      BY <3>1 DEF Spanned
  <2>2. CASE Spanned(cands, f, m)
    <3>1. PICK i \in 1 .. k : m \in At(cands, f[i].first) .. At(cands, f[i].last)
      BY <2>2 DEF Spanned, k
    <3>2. i \in 1 .. Len(l) /\ l[i] = f[i]
      BY <1>1, <1>5
    <3> QED
      BY <3>1, <3>2 DEF Spanned
  <2> QED
    BY <1>4, <1>11, <2>1, <2>2
<1> QED
  BY <1>5, <1>9, <1>10, <1>11 DEF FeasibleRuns, l, x, f, s

LEMMA ScanStep ==
    ASSUME NEW N \in Nat, NEW cands, Apart(cands, N), NEW n \in 0 .. N - 1, NEW acc, ScannedTo(cands, acc, n)
    PROVE  ScannedTo(cands, scanned(acc, cands, n + 1), n + 1)
<1> DEFINE f == acc.found
           s == acc.start
           after == scanned(acc, cands, n + 1)
<1>1. /\ s \in 0 .. n /\ f \in Seq(Intervals(cands)) /\ acc = [start |-> s, found |-> f]
      /\ n \in 0 .. N /\ n \in Int /\ n >= 0
  BY DEF ScannedTo
<1>2. /\ FeasibleRuns(cands, f, n - 1)
      /\ s # 0 => (\A m \in s .. n : cands[m].feasible) /\ \A i \in 1 .. Len(f) : At(cands, f[i].last) + 1 < s
      /\ \A m \in 1 .. n : cands[m].feasible => (s # 0 /\ s <= m) \/ Spanned(cands, f, m)
  BY DEF ScannedTo
<1>3. FeasibleRuns(cands, f, n)
  <2>1. \A i \in 1 .. Len(f) : FeasibleRun(cands, f[i], n)
    BY <1>1, <1>2 DEF FeasibleRuns, FeasibleRun
  <2> QED
    BY <1>2, <2>1 DEF FeasibleRuns
<1>4. \A i \in 1 .. Len(f) : At(cands, f[i].last) + 1 < n + 1
  BY <1>1, <1>2 DEF FeasibleRuns, FeasibleRun
<1>5. \A m \in 1 .. n + 1 : m \in 1 .. n \/ m = n + 1
  BY <1>1
<1>6. CASE cands[n + 1].feasible
  <2> DEFINE t == IF s = 0 THEN n + 1 ELSE s
  <2>1. after = [start |-> t, found |-> f]
    BY <1>1, <1>6 DEF scanned
  <2>2. t \in 1 .. n + 1 /\ t # 0
    BY <1>1
  <2>3. \A m \in t .. n + 1 : cands[m].feasible
    BY <1>1, <1>2, <1>6
  <2>4. \A i \in 1 .. Len(f) : At(cands, f[i].last) + 1 < t
    BY <1>1, <1>2, <1>4
  <2>5. \A m \in 1 .. n + 1 : cands[m].feasible => t <= m \/ Spanned(cands, f, m)
    BY <1>1, <1>2, <1>5
  <2> HIDE DEF t, f, after, s
  <2>6. after \in [start : 0 .. n + 1, found : Seq(Intervals(cands))] /\ after.start = t /\ after.found = f
    BY <1>1, <2>1, <2>2
  <2>7. FeasibleRuns(cands, after.found, (n + 1) - 1)
    <3>1. (n + 1) - 1 = n
      BY <1>1
    <3> QED
      BY <1>3, <2>6, <3>1
  <2> QED
    BY <2>2, <2>3, <2>4, <2>5, <2>6, <2>7 DEF ScannedTo, after
<1>7. CASE ~ cands[n + 1].feasible /\ s = 0
  <2>1. after = acc
    BY <1>7 DEF scanned
  <2>2. \A m \in 1 .. n + 1 : cands[m].feasible => Spanned(cands, f, m)
    BY <1>2, <1>5, <1>7
  <2>3. acc \in [start : 0 .. n + 1, found : Seq(Intervals(cands))]
    BY <1>1
  <2>4. (n + 1) - 1 = n
    BY <1>1
  <2> HIDE DEF after
  <2> QED
    BY <1>3, <1>7, <2>1, <2>2, <2>3, <2>4 DEF ScannedTo, after
<1>8. CASE ~ cands[n + 1].feasible /\ s # 0
  <2> DEFINE l == Append(f, interval(cands, s, n))
  <2>1. after = [start |-> 0, found |-> l]
    <3>1. (n + 1) - 1 = n
      BY <1>1
    <3> QED
      BY <1>8, <3>1 DEF scanned
  <2>2. FeasibleRuns(cands, l, n) /\ \A m \in 1 .. n : cands[m].feasible => Spanned(cands, l, m)
    BY <1>1, <1>8, CloseRun
  <2> HIDE DEF l, after
  <2>3. \A m \in 1 .. n + 1 : cands[m].feasible => Spanned(cands, l, m)
    BY <1>5, <1>8, <2>2
  <2>4. after \in [start : 0 .. n + 1, found : Seq(Intervals(cands))] /\ after.start = 0 /\ after.found = l
    BY <1>1, <2>1, <2>2 DEF FeasibleRuns
  <2>5. (n + 1) - 1 = n
    BY <1>1
  <2> QED
    BY <2>2, <2>3, <2>4, <2>5 DEF ScannedTo, after
<1> QED
  BY <1>6, <1>7, <1>8

LEMMA ScanEnds ==
    ASSUME NEW N \in Nat, NEW cands, Apart(cands, N)
    PROVE  ScannedTo(cands, scanOf(cands), N)
<1>1. Len(cands) = N
  BY FunctionList DEF Apart
<1>2. PICK F : /\ scanOf(cands) = F[N] /\ F[0] = [start |-> 0, found |-> <<>>]
               /\ \A i \in 1 .. N : F[i] = scanned(F[i - 1], cands, i)
  BY <1>1, ScanRuns
<1> DEFINE S == {n \in Nat : n <= N => ScannedTo(cands, F[n], n)}
<1>3. 0 \in S
  <2>1. <<>> \in Seq(Intervals(cands)) /\ Len(<<>>) = 0
    BY EmptySeq
  <2>2. FeasibleRuns(cands, <<>>, 0 - 1)
    BY <2>1 DEF FeasibleRuns
  <2>3. F[0] \in [start : 0 .. 0, found : Seq(Intervals(cands))] /\ F[0].start = 0 /\ F[0].found = <<>>
    BY <1>2, <2>1
  <2>4. ScannedTo(cands, F[0], 0)
    BY <2>2, <2>3 DEF ScannedTo
  <2> QED
    BY <2>4
<1>4. ASSUME NEW n \in Nat, n \in S
      PROVE  n + 1 \in S
  <2> SUFFICES ASSUME n + 1 <= N
               PROVE  ScannedTo(cands, F[n + 1], n + 1)
    OBVIOUS
  <2>1. /\ n + 1 \in 1 .. N /\ (n + 1) - 1 = n /\ n \in 0 .. N - 1
        /\ ScannedTo(cands, F[n], n)
    BY <1>4
  <2>2. F[n + 1] = scanned(F[n], cands, n + 1)
    BY <1>2, <2>1
  <2> QED
    BY <2>1, <2>2, ScanStep
<1>5. Nat \subseteq S
  <2> HIDE DEF S
  <2> QED
    BY <1>3, <1>4, InductionOnSet
<1> QED
  BY <1>2, <1>5

LEMMA CollectedRuns ==
    ASSUME NEW N \in Nat, NEW cands, Apart(cands, N)
    PROVE  /\ FeasibleRuns(cands, collectIntervals(cands), N)
           /\ \A m \in 1 .. N : cands[m].feasible => Spanned(cands, collectIntervals(cands), m)
<1> DEFINE acc == scanOf(cands)
<1>1. ScannedTo(cands, acc, N)
  BY ScanEnds
<1>2. Len(cands) = N /\ N \in 0 .. N
  BY FunctionList DEF Apart
<1>3. collectIntervals(cands) = IF acc.start = 0 THEN acc.found ELSE Append(acc.found, interval(cands, acc.start, N))
  BY <1>2 DEF collectIntervals
<1> HIDE DEF acc
<1>4. CASE acc.start = 0
  <2>1. /\ FeasibleRuns(cands, acc.found, N - 1)
        /\ \A m \in 1 .. N : cands[m].feasible => Spanned(cands, acc.found, m)
    BY <1>1, <1>4 DEF ScannedTo
  <2>2. FeasibleRuns(cands, acc.found, N)
    BY <2>1 DEF FeasibleRuns, FeasibleRun
  <2> QED
    BY <1>3, <1>4, <2>1, <2>2
<1>5. CASE acc.start # 0
  BY <1>1, <1>2, <1>3, <1>5, CloseRun
<1> QED
  BY <1>4, <1>5

\* No two candidates of a search have one driver value.
LEMMA PlanFacts ==
    ASSUME NEW d, NEW s, MeasuredSearch(s), planPowerSearch(d, s) = {}
    PROVE  /\ s.samples \in Nat /\ s.samples >= 2 /\ s.from \in Magnitude /\ s.to \in Magnitude /\ s.from # s.to
           /\ Reduced(s.from) /\ Reduced(s.to) /\ s.ceiling \in Number
           /\ s.driver = "mass" \/ s.driver \in ToSet(SizeKeys)
<1> DEFINE first == (IF ~Supplied(s.ceiling) THEN {"missing"} ELSE Invalid(s.ceiling # Wrong))
                      \cup Missing(d.mission.segments # <<>>)
           sweep == [driver |-> s.driver, from |-> s.from, to |-> s.to, samples |-> s.samples,
                     subject |-> "power", case |-> ""]
<1>1. planPowerSearch(d, s) = IF first # {} THEN first ELSE PlanSweep(d, sweep)
  BY DEF planPowerSearch
<1>2. Supplied(s.ceiling) /\ s.ceiling # Wrong
  BY <1>1 DEF Invalid
<1>3. PlanSweep(d, sweep) = {}
  BY <1>1
<1>4. /\ sweep.driver = s.driver /\ sweep.from = s.from /\ sweep.to = s.to /\ sweep.samples = s.samples
  OBVIOUS
<1> HIDE DEF first, sweep
<1>5. resolveSweptDriver(d, s.driver) = {} /\ validateRange(sweep) = {}
  BY <1>3, <1>4 DEF PlanSweep
<1>6. quantity(s.from) = {} /\ quantity(s.to) = {}
  BY <1>4, <1>5 DEF validateRange
<1>7. Invalid(Supplied(s.from) => s.from # s.to) = {} /\ Invalid(s.samples \in MinSweepSamples .. MaxSweepSamples) = {}
  BY <1>4, <1>5 DEF validateRange
<1>8. s.from \in Magnitude /\ s.to \in Magnitude
  BY <1>6, ReadQuantity DEF MeasuredSearch
<1>9. Supplied(s.from)
  BY <1>8, NumberParts DEF Magnitude, Supplied, None
<1>10. s.from # s.to /\ s.samples \in 2 .. MaxSweepSamples
  BY <1>7, <1>9 DEF Invalid, MinSweepSamples
<1>11. Reduced(s.from) /\ Reduced(s.to)
  <2>1. s.from \in Number /\ s.to \in Number
    BY <1>8 DEF Magnitude
  <2>2. Q(s.from[1], s.from[2]) = s.from /\ Q(s.to[1], s.to[2]) = s.to
    BY <2>1 DEF MeasuredSearch
  <2> QED
    BY <2>1, <2>2, NumberParts, QuotientReduced
<1>12. s.ceiling \in Number
  BY <1>2 DEF MeasuredSearch, Quantity, Supplied
<1>13. s.driver = "mass" \/ s.driver \in ToSet(SizeKeys)
  BY <1>5 DEF resolveSweptDriver
<1> QED
  BY <1>8, <1>10, <1>11, <1>12, <1>13, MaxSweepSamplesAssumption

LEMMA AddWorth ==
    ASSUME NEW x, NEW n \in Int, NEW d \in Positive, Worth(x, n, d),
           NEW y, NEW m \in Int, NEW e \in Positive, Worth(y, m, e)
    PROVE  Worth(Add(x, y), n * e + m * d, d * e)
<1> DEFINE a == x[1]
           b == x[2]
           u == y[1]
           v == y[2]
<1>1. /\ a \in Int /\ b \in Positive /\ u \in Int /\ v \in Positive
      /\ a * d = n * b /\ u * e = m * v /\ d \in Int /\ e \in Int /\ b \in Int /\ v \in Int
  BY NumberParts, PositiveInt DEF Worth
<1>2. Add(x, y) = Q(a * v + u * b, b * v)
  BY DEF Add
<1> HIDE DEF a, b, u, v
<1>3. a * v \in Int /\ u * b \in Int /\ n * e \in Int /\ m * d \in Int /\ b * v \in Positive /\ d * e \in Positive
  BY <1>1, PositiveProduct
<1>4. a * v + u * b \in Int /\ n * e + m * d \in Int
  BY <1>3
<1>5. Worth(Q(a * v + u * b, b * v), a * v + u * b, b * v)
  BY <1>3, <1>4, QuotientWorth
<1>6. (a * v + u * b) * (d * e) = (n * e + m * d) * (b * v)
  <2>1. (a * v) * (d * e) = (a * d) * (v * e)
    BY <1>1
  <2>2. (n * b) * (v * e) = (n * e) * (b * v)
    BY <1>1
  <2>3. (u * b) * (d * e) = (u * e) * (b * d)
    BY <1>1
  <2>4. (m * v) * (b * d) = (m * d) * (b * v)
    BY <1>1
  <2>5. /\ (a * v + u * b) * (d * e) = (a * v) * (d * e) + (u * b) * (d * e)
        /\ (n * e + m * d) * (b * v) = (n * e) * (b * v) + (m * d) * (b * v)
    BY <1>1, <1>3
  <2> QED
    BY <1>1, <2>1, <2>2, <2>3, <2>4, <2>5
<1> QED
  BY <1>2, <1>3, <1>4, <1>5, <1>6, Through

\* The n-th of k equal steps from a/b to c/d, where w = c*b - a*d.
StepFrom(a, b, d, w, k, n) == a * ((d * b) * k) + (w * n) * b
LEMMA StepWorth ==
    ASSUME NEW s, s.from \in Magnitude, s.to \in Magnitude, s.samples \in Nat, s.samples >= 2,
           NEW n \in 0 .. s.samples - 1
    PROVE  LET a == s.from[1]
               b == s.from[2]
               c == s.to[1]
               d == s.to[2]
               k == s.samples - 1
           IN  Worth(DriverValue(s, n), StepFrom(a, b, d, c * b - a * d, k, n), b * ((d * b) * k))
<1> DEFINE a == s.from[1]
           b == s.from[2]
           c == s.to[1]
           d == s.to[2]
           k == s.samples - 1
           w == c * b - a * d
           e == (d * b) * k
<1>1. /\ a \in Positive /\ b \in Positive /\ c \in Positive /\ d \in Positive /\ k \in Positive
      /\ Worth(s.from, a, b) /\ Worth(s.to, c, d) /\ s.from \in Number /\ s.to \in Number /\ n \in 0 .. k
  BY MagnitudeWorth DEF Positive
<1>2. /\ DriverValue(s, n) = IF n <= 0 THEN s.from ELSE IF n >= k THEN s.to
                             ELSE Add(s.from, Mul(Sub(s.to, s.from), Q(n, k)))
      /\ Sub(s.to, s.from) = Q(w, d * b)
  BY DEF DriverValue, Sub
<1> DEFINE v == DriverValue(s, n)
<1> HIDE DEF a, b, c, d, k, v
<1>3. /\ a \in Int /\ b \in Int /\ c \in Int /\ d \in Int /\ k \in Int /\ n \in Int
      /\ c * b \in Int /\ a * d \in Int /\ d * b \in Positive
  BY <1>1, PositiveInt, PositiveProduct
<1>4. w \in Int /\ e \in Positive /\ d * b \in Int /\ b * e \in Positive
  BY <1>1, <1>3, PositiveInt, PositiveProduct
<1>5. CASE n = 0
  <2>1. v = s.from
    BY <1>2, <1>5 DEF v
  <2>2. StepFrom(a, b, d, w, k, n) = a * e
    <3> HIDE DEF w
    <3>1. (w * 0) * b = 0
      BY <1>3, <1>4
    <3>2. a * e \in Int
      BY <1>3, <1>4, PositiveInt
    <3> QED
      BY <1>5, <3>1, <3>2 DEF StepFrom
  <2> HIDE DEF w, e
  <2>3. a * (b * e) = (a * e) * b /\ a * e \in Int
    BY <1>3, <1>4, PositiveInt
  <2>4. Worth(v, a * e, b * e)
    BY <1>1, <1>3, <1>4, <2>1, <2>3, Through
  <2> QED
    BY <2>2, <2>4 DEF v, w, e, a, b, c, d, k
<1>6. CASE n = k
  <2>1. v = s.to
    BY <1>1, <1>2, <1>6 DEF v, Positive
  <2>2. StepFrom(a, b, d, w, k, n) = a * e + (w * k) * b
    BY <1>6 DEF StepFrom
  <2>3. (w * k) * b = (c * b - a * d) * (k * b)
    BY <1>3, <1>4
  <2>4. (c * b - a * d) * (k * b) = (c * b) * (k * b) - (a * d) * (k * b)
    BY <1>3
  <2>5. a * e = (a * d) * (k * b)
    BY <1>3, <1>4
  <2>6. (c * b) * (k * b) \in Int /\ (a * d) * (k * b) \in Int
    BY <1>3
  <2>7. StepFrom(a, b, d, w, k, n) = (c * b) * (k * b)
    <3> DEFINE y == (c * b) * (k * b)
               z == (a * d) * (k * b)
               t == (w * k) * b
    <3>1. t = y - z /\ y \in Int /\ z \in Int
      BY <2>3, <2>4, <2>6
    <3>2. StepFrom(a, b, d, w, k, n) = z + t
      BY <2>2, <2>5
    <3> HIDE DEF t, y, z
    <3>3. z + t = y
      BY <3>1
    <3> QED
      BY <3>2, <3>3 DEF y
  <2>8. c * (b * e) = ((c * b) * (k * b)) * d
    BY <1>3
  <2> DEFINE q == (c * b) * (k * b)
  <2> HIDE DEF w, e, q
  <2>9. Worth(v, q, b * e)
    BY <1>1, <1>3, <1>4, <2>1, <2>6, <2>8, Through DEF q
  <2> QED
    BY <2>7, <2>9 DEF v, w, e, a, b, c, d, k, q
<1>7. CASE n # 0 /\ n # k
  <2>1. v = Add(s.from, Mul(Q(w, d * b), Q(n, k)))
    <3>1. ~ (n <= 0) /\ ~ (n >= k)
      BY <1>1, <1>3, <1>7
    <3> QED
      BY <1>2, <3>1 DEF v
  <2> HIDE DEF w
  <2>2. Worth(Q(w, d * b), w, d * b) /\ Worth(Q(n, k), n, k)
    BY <1>1, <1>3, <1>4, QuotientWorth
  <2>3. Worth(Mul(Q(w, d * b), Q(n, k)), w * n, e) /\ w * n \in Int
    BY <1>1, <1>3, <1>4, <2>2, MulWorth
  <2>4. Worth(v, a * e + (w * n) * b, b * e)
    BY <1>1, <1>3, <1>4, <2>1, <2>3, AddWorth
  <2> QED
    BY <2>4 DEF v, w, a, b, c, d, k, StepFrom
<1> QED
  BY <1>5, <1>6, <1>7

LEMMA StepsApart ==
    ASSUME NEW s, s.from \in Magnitude, s.to \in Magnitude, s.samples \in Nat, s.samples >= 2,
           Reduced(s.from), Reduced(s.to), s.from # s.to,
           NEW i \in 0 .. s.samples - 1, NEW j \in 0 .. s.samples - 1, DriverValue(s, i) = DriverValue(s, j)
    PROVE  i = j
<1> DEFINE a == s.from[1]
           b == s.from[2]
           c == s.to[1]
           d == s.to[2]
           k == s.samples - 1
           w == c * b - a * d
           e == b * ((d * b) * k)
           v == DriverValue(s, i)
           at(n) == StepFrom(a, b, d, w, k, n)
<1>1. Worth(v, at(i), e) /\ Worth(v, at(j), e)
  BY StepWorth
<1>2. /\ a \in Positive /\ b \in Positive /\ c \in Positive /\ d \in Positive /\ k \in Positive
  BY MagnitudeWorth DEF Positive
<1> HIDE DEF v
<1>3. v[1] * e = at(i) * v[2] /\ v[1] * e = at(j) * v[2] /\ v[2] \in Positive
  BY <1>1, NumberParts DEF Worth
<1>4. /\ a \in Int /\ b \in Int /\ c \in Int /\ d \in Int /\ k \in Int /\ i \in Int /\ j \in Int
      /\ c * b \in Int /\ a * d \in Int
  <2>1. i \in Int /\ j \in Int
    OBVIOUS
  <2> HIDE DEF a, b, c, d, k
  <2>2. a \in Int /\ b \in Int /\ c \in Int /\ d \in Int /\ k \in Int
    BY <1>2, PositiveInt
  <2> QED
    BY <2>1, <2>2
<1>5. /\ w \in Int /\ a * ((d * b) * k) \in Int /\ w * i \in Int /\ w * j \in Int
      /\ (w * i) * b \in Int /\ (w * j) * b \in Int
  BY <1>4
<1>6. at(i) \in Int /\ at(j) \in Int
  <2> HIDE DEF w, a, b, c, d, k
  <2> QED
    BY <1>5 DEF StepFrom
<1>7. at(i) = at(j)
  <2> HIDE DEF at, e
  <2> QED
    BY <1>3, <1>6, Cancel
<1>8. (w * i) * b = (w * j) * b
  <2> DEFINE x == a * ((d * b) * k)
             y == (w * i) * b
             z == (w * j) * b
  <2>1. x + y = x + z /\ x \in Int /\ y \in Int /\ z \in Int
    BY <1>5, <1>7 DEF StepFrom
  <2> HIDE DEF x, y, z
  <2>2. y = z
    BY <2>1
  <2> QED
    BY <2>2 DEF y, z
<1> HIDE DEF at, a, b, c, d, k
<1>9. w * i = w * j
  <2> HIDE DEF w
  <2> QED
    BY <1>2, <1>5, <1>8, Cancel
<1>10. CASE w = 0
  <2>1. c * b = a * d
    BY <1>4, <1>10
  <2> HIDE DEF w
  <2>2. Q(a, b) = Q(c, d)
    <3>1. a * d = c * b
      BY <2>1
    <3> QED
      BY <1>2, <1>4, <3>1, SameQuotient
  <2>3. s.from = Q(a, b) /\ s.to = Q(c, d)
    BY DEF Reduced, a, b, c, d
  <2> QED
    BY <2>2, <2>3
<1>11. CASE w # 0
  <2> HIDE DEF w
  <2>1. w * (i - j) = 0
    BY <1>4, <1>5, <1>9
  <2>2. i - j = 0
    BY <1>4, <1>5, <1>11, <2>1
  <2> QED
    BY <1>4, <2>2
<1> QED
  BY <1>10, <1>11

LEMMA CandidatesApart ==
    ASSUME NEW d, NEW s, MeasuredSearch(s), planPowerSearch(d, s) = {}
    PROVE  LET r == PowerSizingSearch(d, s)
           IN  /\ Apart(r.candidates, s.samples) /\ r.intervals = collectIntervals(r.candidates)
               /\ \A i \in 1 .. s.samples : r.candidates[i] = powerCandidate(d, s, i - 1)
<1> DEFINE n == s.samples
           cands == [i \in 1 .. n |-> powerCandidate(d, s, i - 1)]
           r == PowerSizingSearch(d, s)
<1>1. /\ n \in Nat /\ n >= 2 /\ s.from \in Magnitude /\ s.to \in Magnitude /\ s.from # s.to
      /\ Reduced(s.from) /\ Reduced(s.to)
  BY PlanFacts
<1>2. r = found(cands)
  BY DEF PowerSizingSearch
<1>3. cands = [i \in 1 .. n |-> cands[i]] /\ \A i \in 1 .. n : cands[i] = powerCandidate(d, s, i - 1)
  OBVIOUS
<1> HIDE DEF cands, r
<1>4. r.candidates = cands /\ r.intervals = collectIntervals(cands)
  BY <1>2 DEF found
<1>5. \A i \in 1 .. n : cands[i].driver = DriverValue(s, i - 1)
  <2>1. \A m : powerCandidate(d, s, m).driver = DriverValue(s, m)
    BY DEF powerCandidate, candidateOf
  <2> QED
    BY <1>3, <2>1
<1>6. ASSUME NEW i \in 1 .. n, NEW j \in 1 .. n, cands[i].driver = cands[j].driver
      PROVE  i = j
  <2>1. i - 1 \in 0 .. s.samples - 1 /\ j - 1 \in 0 .. s.samples - 1
    BY <1>1
  <2>2. DriverValue(s, i - 1) = DriverValue(s, j - 1)
    BY <1>5, <1>6
  <2>3. i - 1 = j - 1
    BY <1>1, <2>1, <2>2, StepsApart
  <2> QED
    BY <1>1, <2>3
<1> QED
  BY <1>3, <1>4, <1>6 DEF Apart, r

LEMMA SearchRunsWhole ==
    ASSUME NEW d, NEW s, MeasuredSearch(s), planPowerSearch(d, s) = {}
    PROVE  LET r == PowerSizingSearch(d, s) IN WholeRuns(r, RunsOf(r), s.samples)
<1> DEFINE n     == s.samples
           r     == PowerSizingSearch(d, s)
           cands == r.candidates
           l     == r.intervals
           lo(i) == At(cands, l[i].first)
           hi(i) == At(cands, l[i].last)
           runs  == RunsOf(r)
<1>1. n \in Nat /\ Apart(cands, n) /\ l = collectIntervals(cands)
  BY PlanFacts, CandidatesApart
<1>2. /\ FeasibleRuns(cands, l, n)
      /\ \A m \in 1 .. n : cands[m].feasible => Spanned(cands, l, m)
  BY <1>1, CollectedRuns
<1>3. DOMAIN cands = 1 .. n /\ Len(cands) = n
  BY <1>1, FunctionList DEF Apart
<1>4. runs = [i \in DOMAIN l |-> lo(i) .. hi(i)]
  BY DEF RunsOf, At
<1>5. DOMAIN l = 1 .. Len(l)
  BY <1>2, LenProperties DEF FeasibleRuns
<1>6. DOMAIN runs = 1 .. Len(l) /\ \A i \in 1 .. Len(l) : runs[i] = lo(i) .. hi(i)
  BY <1>4, <1>5
<1> HIDE DEF runs, l, cands, r
<1>7. \A i \in 1 .. Len(l) : /\ lo(i) \in 1 .. n /\ hi(i) \in 1 .. n /\ lo(i) <= hi(i)
                             /\ \A m \in lo(i) .. hi(i) : cands[m].feasible
                             /\ l[i] = interval(cands, lo(i), hi(i))
  BY <1>2 DEF FeasibleRuns, FeasibleRun
<1>8. \A i, j \in 1 .. Len(l) : i < j => hi(i) + 1 < lo(j)
  BY <1>2 DEF FeasibleRuns, Separate
<1>9. \A m \in 1 .. n : cands[m].feasible => \E i \in 1 .. Len(l) : m \in lo(i) .. hi(i)
  BY <1>2 DEF Spanned
<1> HIDE DEF lo, hi
<1>10. UNION {runs[i] : i \in DOMAIN runs} = {m \in DOMAIN cands : cands[m].feasible}
  <2>1. ASSUME NEW m, m \in UNION {runs[i] : i \in DOMAIN runs}
        PROVE  m \in 1 .. n /\ cands[m].feasible
    <3>1. PICK i \in 1 .. Len(l) : m \in lo(i) .. hi(i)
      BY <1>6, <2>1
    <3> QED
      BY <1>1, <1>7, <3>1
  <2>2. ASSUME NEW m \in 1 .. n, cands[m].feasible
        PROVE  m \in UNION {runs[i] : i \in DOMAIN runs}
    <3>1. PICK i \in 1 .. Len(l) : m \in lo(i) .. hi(i)
      BY <1>9, <2>2
    <3> QED
      BY <1>6, <3>1
  <2> QED
    BY <1>3, <2>1, <2>2
<1>11. ASSUME NEW i \in DOMAIN runs, NEW j \in DOMAIN runs, i < j, NEW m \in runs[i], NEW k \in runs[j]
       PROVE  m + 1 < k
  <2>1. /\ i \in 1 .. Len(l) /\ j \in 1 .. Len(l) /\ m \in lo(i) .. hi(i) /\ k \in lo(j) .. hi(j)
    BY <1>6, <1>11
  <2> QED
    BY <1>1, <1>7, <1>8, <1>11, <2>1
<1>12. ASSUME NEW i \in DOMAIN runs
       PROVE  (l[i].openLow <=> 1 \in runs[i]) /\ (l[i].openHigh <=> n \in runs[i])
  <2>1. i \in 1 .. Len(l) /\ runs[i] = lo(i) .. hi(i)
    BY <1>6
  <2>2. /\ lo(i) \in 1 .. n /\ hi(i) \in 1 .. n /\ lo(i) <= hi(i) /\ l[i] = interval(cands, lo(i), hi(i))
    BY <1>7, <2>1
  <2>3. l[i].openLow = (lo(i) = 1) /\ l[i].openHigh = (hi(i) = n)
    BY <1>3, <2>2 DEF interval
  <2>4. (lo(i) = 1) <=> 1 \in lo(i) .. hi(i)
    BY <1>1, <2>2
  <2>5. (hi(i) = n) <=> n \in lo(i) .. hi(i)
    BY <1>1, <2>2
  <2> QED
    BY <2>1, <2>3, <2>4, <2>5
<1> QED
  BY <1>10, <1>11, <1>12 DEF WholeRuns, runs, l, cands, r

-----------------------------------------------------------------------------
(***************************************************************************)
(* A candidate is the design the command would make.                       *)
(***************************************************************************)
LEMMA CandidateIsEdit ==
    ASSUME NEW s, s.driver = "mass" \/ s.driver \in ToSet(SizeKeys), NEW n
    PROVE  /\ apply(Design, Adopting(s, DriverValue(s, n))) = Candidate(Design, s, n)
           /\ Adopting(s, DriverValue(s, n)).op \in Ops \ PutOps
<1> DEFINE v == DriverValue(s, n)
           c == Adopting(s, v)
<1>1. CASE s.driver = "mass"
  <2>1. c = [op |-> "SetMass", v |-> v, basis |-> Design.massBasis]
    BY <1>1 DEF Adopting
  <2> HIDE DEF v, c
  <2>2. c.op = "SetMass" /\ c.v = v /\ c.basis = Design.massBasis
    BY <2>1
  <2>3. apply(Design, c) = SetMass(Design, v, Design.massBasis)
    BY <2>2 DEF apply
  <2>4. Candidate(Design, s, n) = SetMass(Design, v, Design.massBasis)
    BY <1>1 DEF Candidate, v
  <2> QED
    BY <2>2, <2>3, <2>4 DEF c, v, Ops, PutOps
<1>2. CASE s.driver # "mass"
  <2>1. c = [op |-> "SetDriver", key |-> s.driver, v |-> v]
    BY <1>2 DEF Adopting
  <2> HIDE DEF v, c
  <2>2. c.op = "SetDriver" /\ c.key = s.driver /\ c.v = v
    BY <2>1
  <2>3. apply(Design, c) = SetDriver(Design, s.driver, v)
    BY <2>2 DEF apply
  <2>4. Candidate(Design, s, n) = SetDriver(Design, s.driver, v)
    BY <1>2 DEF Candidate, v
  <2> QED
    BY <2>2, <2>3, <2>4 DEF c, v, Ops, PutOps
<1> QED
  BY <1>1, <1>2

LEMMA CandidateMeasured ==
    ASSUME NEW start, Sound(Design, start), Measured(Design),
           NEW s, MeasuredSearch(s), planPowerSearch(Design, s) = {}, NEW n \in 0 .. s.samples - 1,
           Candidate(Design, s, n).issues = {}
    PROVE  Formed(Candidate(Design, s, n).v) /\ Measured(Candidate(Design, s, n).v)
<1> DEFINE c == Adopting(s, DriverValue(s, n))
<1>1. apply(Design, c) = Candidate(Design, s, n) /\ c.op \in Ops /\ c.op \notin PutOps
  BY PlanFacts, CandidateIsEdit
<1>2. DriverValue(s, n) \in Number
  BY PlanFacts, StepWorth DEF Worth
<1>3. c.v = DriverValue(s, n) /\ c.op \in {"SetMass", "SetDriver"}
  BY DEF Adopting
<1> HIDE DEF c
<1>4. MeasuredCommand(c)
  BY <1>2, <1>3 DEF MeasuredCommand, Quantity
<1>5. Sound(apply(Design, c).v, start) /\ Measured(apply(Design, c).v)
  BY <1>1, <1>4, ApplySound, ApplyMeasured
<1> QED
  BY <1>1, <1>5 DEF Sound

-----------------------------------------------------------------------------
(***************************************************************************)
(* The electrical figure of a segment whose energy is known is a positive  *)
(* number, through whichever model it was resolved.                        *)
(***************************************************************************)
LEMMA LoadFigure ==
    ASSUME NEW a, MeasuredLoad(a), auxiliaryContribution(a).known
    PROVE  auxiliaryContribution(a).continuous \in Quantity
<1> DEFINE x == packSide(a, a.continuous)
           y == IF Supplied(a.peak) THEN packSide(a, a.peak) ELSE Ok(None)
           draw == Together(<<x, y>>)
<1>1. auxiliaryContribution(a) = loadOf(a, draw)
  BY DEF auxiliaryContribution
<1>2. draw.v[1] = x.v /\ (draw.issues = {} => x.issues = {})
  BY TogetherPair
<1> HIDE DEF x, y, draw
<1>3. x.issues = {} /\ auxiliaryContribution(a).continuous = x.v
  <2> DEFINE known == Supplied(a.continuous) /\ a.side # "unknown" /\ draw.issues = {}
             r == auxiliaryContribution(a)
  <2>1. r = [name |-> a.name, known |-> known, continuous |-> IF known THEN draw.v[1] ELSE None,
             peak |-> IF known THEN draw.v[2] ELSE None]
    BY <1>1 DEF loadOf
  <2>2. known => draw.issues = {}
    OBVIOUS
  <2> HIDE DEF known, r
  <2>3. r.known = known /\ r.continuous = IF known THEN draw.v[1] ELSE None
    BY <2>1
  <2>4. known
    BY <2>3 DEF r
  <2> QED
    BY <1>2, <2>2, <2>3, <2>4 DEF r
<1>4. CASE a.side = "load"
  <2> DEFINE issues == quantity(a.continuous) \cup scalar(a.eta) \cup Invalid(Leq(a.eta, One))
             v == Div(a.continuous, a.eta)
  <2>1. x = finish(issues, v)
    BY <1>4 DEF x, packSide, AuxiliaryPackSideDraw
  <2> HIDE DEF v
  <2>2. issues = {}
    BY <1>3, <2>1, Finished
  <2>3. quantity(a.continuous) = {} /\ scalar(a.eta) = {}
    BY <2>2
  <2>4. a.continuous \in Magnitude /\ a.eta \in Magnitude
    BY <2>3, ReadQuantity, ReadScalar DEF MeasuredLoad
  <2>5. v \in Number
    BY <2>4, QuotientNumber DEF Magnitude, v
  <2>6. x.v \in Magnitude
    BY <1>3, <2>1, <2>5, FinishedNumber
  <2> QED
    BY <1>3, <2>6, MagnitudeIsQuantity
<1>5. CASE a.side # "load"
  BY <1>3, <1>5, OkFacts DEF x, packSide, MeasuredLoad
<1> QED
  BY <1>4, <1>5

LEMMA AuxiliaryFigure ==
    ASSUME NEW d, Formed(d), Measured(d), ElectricalBudget(d).status = "computed"
    PROVE  ElectricalBudget(d).continuous \in Number
<1> DEFINE n      == Len(d.auxiliary)
           loads  == [i \in 1 .. n |-> auxiliaryContribution(d.auxiliary[i])]
           known  == {i \in DOMAIN loads : loads[i].known}
           stated == {i \in known : Supplied(loads[i].continuous)}
           parts  == [i \in DOMAIN loads |-> IF i \in stated THEN loads[i].continuous ELSE Zero]
<1>1. ElectricalBudget(d).continuous = SumQ(parts) /\ \A i \in stated : loads[i].continuous # Wrong
  BY DEF ElectricalBudget, budgetOf
<1>2. n \in Nat /\ DOMAIN d.auxiliary = 1 .. n
  BY NamedListFacts DEF Formed, Lists
<1>3. \A i \in 1 .. n : MeasuredLoad(d.auxiliary[i])
  BY <1>2 DEF Measured, MeasuredPower, ToSet
<1>4. DOMAIN loads = 1 .. n /\ \A i \in 1 .. n : loads[i] = auxiliaryContribution(d.auxiliary[i])
  OBVIOUS
<1> HIDE DEF loads, n
<1>5. \A i \in stated : loads[i].continuous \in Quantity
  BY <1>3, <1>4, LoadFigure
<1>6. parts = [i \in 1 .. n |-> parts[i]] /\ \A i \in 1 .. n : parts[i] = IF i \in stated THEN loads[i].continuous ELSE Zero
  BY <1>4
<1> HIDE DEF stated, parts
<1>7. \A i \in 1 .. n : parts[i] \in Number
  BY <1>1, <1>5, <1>6, ConstantNumbers DEF stated, Quantity, Supplied
<1>8. Len(parts) = n
  BY <1>2, <1>6, FunctionList
<1>9. SumQ(parts) \in Number
  BY <1>2, <1>7, <1>8, SumNumber
<1> QED
  BY <1>1, <1>9

\* The sine and the cosine of a flight path, and the efficiency of the chain.
LEMMA PathNumbers ==
    /\ \A a : cosOf(a) \in Number /\ sinOf(a) \in Number
    /\ Pi \in Magnitude /\ StandardGravity \in Magnitude
<1>1. Q(4, 5) \in Number /\ Q(3, 5) \in Number /\ Q(-3, 5) \in Number
  <2>1. 4 \in Int /\ 3 \in Int /\ -3 \in Int /\ 5 \in Positive
    BY DEF Positive
  <2> QED
    BY <2>1, QuotientWorth DEF Worth
<1>2. One \in Number /\ Zero \in Number
  BY ConstantNumbers DEF Magnitude
<1>3. ASSUME NEW a
      PROVE  cosOf(a) \in Number /\ sinOf(a) \in Number
  BY <1>1, <1>2 DEF cosOf, sinOf
<1>4. Pi \in Magnitude
  <2>1. 22 \in Positive /\ 7 \in Positive
    BY DEF Positive
  <2> QED
    BY <2>1, ConstantNumbers DEF Pi
<1>5. StandardGravity \in Magnitude
  BY ConstantNumbers DEF StandardGravity, Positive
<1> QED
  BY <1>3, <1>4, <1>5

LEMMA LiftFigures ==
    ASSUME NEW fc, MeasuredCase(fc), NEW v \in Quantity, NEW m \in Quantity, NEW a
    PROVE  /\ DynamicPressure(fc, v).issues = {} => DynamicPressure(fc, v).v \in Magnitude
           /\ SegmentLift(m, fc.load, a).issues = {} => SegmentLift(m, fc.load, a).v \in Magnitude
<1>1. ASSUME DynamicPressure(fc, v).issues = {}
      PROVE  DynamicPressure(fc, v).v \in Magnitude
  <2> DEFINE issues == density(fc) \cup quantity(v)
             x == Half(Mul(fc.density, Sq(v)))
  <2>1. DynamicPressure(fc, v) = finish(issues, x)
    BY DEF DynamicPressure
  <2> HIDE DEF x
  <2>2. density(fc) = {} /\ quantity(v) = {}
    <3>1. issues = {}
      BY <1>1, <2>1, Finished
    <3> QED
      BY <3>1
  <2>3. fc.density \in Number /\ v \in Number
    BY <2>2, CaseRead, ReadQuantity DEF Magnitude
  <2>4. x \in Number
    BY <2>3, NumberOperations DEF x
  <2> QED
    BY <1>1, <2>1, <2>4, FinishedNumber
<1>2. ASSUME SegmentLift(m, fc.load, a).issues = {}
      PROVE  SegmentLift(m, fc.load, a).v \in Magnitude
  <2> DEFINE issues == quantity(m) \cup scalar(fc.load) \cup angle(a)
                         \cup (IF cosOf(a)[1] > 0 THEN {} ELSE {"unsupported"})
             x == Mul(Mul(fc.load, m), Mul(StandardGravity, cosOf(a)))
  <2>1. SegmentLift(m, fc.load, a) = finish(issues, x)
    BY DEF SegmentLift
  <2> HIDE DEF x
  <2>2. quantity(m) = {}
    <3>1. issues = {}
      BY <1>2, <2>1, Finished
    <3> QED
      BY <3>1
  <2>3. m \in Number /\ fc.load \in Number /\ StandardGravity \in Number /\ cosOf(a) \in Number
    BY <2>2, ReadQuantity, PathNumbers DEF MeasuredCase, Magnitude
  <2>4. x \in Number
    BY <2>3, NumberOperations DEF x
  <2> QED
    BY <1>2, <2>1, <2>4, FinishedNumber
<1> QED
  BY <1>1, <1>2

LEMMA DragFigures ==
    ASSUME NEW p, MeasuredPolar(p), NEW l \in Number, NEW q \in Number, NEW area \in Magnitude, NEW aspect \in Number
    PROVE  /\ SegmentLiftCoefficient(l, q, area).issues = {} => SegmentLiftCoefficient(l, q, area).v \in Magnitude
           /\ \A cl \in Number : DragCoefficient(aspect, p, cl).issues = {} => DragCoefficient(aspect, p, cl).v \in Magnitude
           /\ \A cd \in Number : DragForce(q, area, cd).issues = {} => DragForce(q, area, cd).v \in Magnitude
<1>0. Number \subseteq Quantity /\ Magnitude \subseteq Number
  BY DEF Quantity, Magnitude
<1>1. ASSUME SegmentLiftCoefficient(l, q, area).issues = {}
      PROVE  SegmentLiftCoefficient(l, q, area).v \in Magnitude
  <2> DEFINE issues == quantity(l) \cup quantity(q) \cup quantity(area)
             x == Div(l, Mul(q, area))
  <2>1. SegmentLiftCoefficient(l, q, area) = finish(issues, x)
    BY DEF SegmentLiftCoefficient
  <2> HIDE DEF x
  <2>2. quantity(q) = {}
    <3>1. issues = {}
      BY <1>1, <2>1, Finished
    <3> QED
      BY <3>1
  <2>3. Mul(q, area) \in Magnitude
    BY <1>0, <2>2, ReadQuantity, MagnitudeOperations
  <2>4. x \in Number
    BY <2>3, QuotientNumber DEF x
  <2> QED
    BY <1>1, <2>1, <2>4, FinishedNumber
<1>2. ASSUME NEW cl \in Number, DragCoefficient(aspect, p, cl).issues = {}
      PROVE  DragCoefficient(aspect, p, cl).v \in Magnitude
  <2> DEFINE k == InducedDragFactor(aspect, p)
             given == scalar(p.cd0) \cup (IF covers(p, cl) THEN {} ELSE {"unsupported"})
             x == Add(p.cd0, Mul(k.v, Sq(cl)))
             c == DragCoefficient(aspect, p, cl)
  <2>1. c = IF k.issues # {} THEN Fail(k.issues) ELSE finish(given, x)
    BY DEF DragCoefficient, Then
  <2> HIDE DEF k, given, x, c
  <2>2. k.issues = {} /\ c = finish(given, x)
    BY <1>2, <2>1 DEF Fail, c
  <2>3. k.v \in Magnitude
    <3> DEFINE issues == scalar(aspect) \cup scalar(p.oswald)
               y == Div(One, Mul(Pi, Mul(aspect, p.oswald)))
    <3>1. k = finish(issues, y)
      BY DEF k, InducedDragFactor
    <3> HIDE DEF y
    <3>2. scalar(aspect) = {} /\ scalar(p.oswald) = {}
      <4>1. issues = {}
        BY <2>2, <3>1, Finished
      <4> QED
        BY <4>1
    <3>3. aspect \in Magnitude /\ p.oswald \in Magnitude
      BY <3>2, ReadScalar DEF MeasuredPolar
    <3>4. Mul(Pi, Mul(aspect, p.oswald)) \in Magnitude
      BY <3>3, PathNumbers, MagnitudeOperations
    <3>5. y \in Number
      BY <1>0, <3>4, ConstantNumbers, QuotientNumber DEF y
    <3> QED
      BY <2>2, <3>1, <3>5, FinishedNumber
  <2>4. x \in Number
    BY <1>0, <2>3, NumberOperations DEF MeasuredPolar, x
  <2> QED
    BY <1>2, <2>2, <2>4, FinishedNumber DEF c
<1>3. ASSUME NEW cd \in Number, DragForce(q, area, cd).issues = {}
      PROVE  DragForce(q, area, cd).v \in Magnitude
  <2> DEFINE issues == quantity(q) \cup quantity(area) \cup scalar(cd)
             x == Mul(Mul(q, area), cd)
  <2>1. DragForce(q, area, cd) = finish(issues, x)
    BY DEF DragForce
  <2>2. x \in Number
    BY <1>0, NumberOperations
  <2> HIDE DEF x, issues
  <2> QED
    BY <1>3, <2>1, <2>2, FinishedNumber
<1> QED
  BY <1>1, <1>2, <1>3

LEMMA ThrustFigure ==
    ASSUME NEW drag \in Number, NEW m \in Quantity, NEW a, RequiredThrust(drag, m, a).issues = {}
    PROVE  RequiredThrust(drag, m, a).v \in Number
<1> DEFINE issues == quantity(drag) \cup quantity(m) \cup angle(a)
           x == Add(drag, Mul(Mul(m, StandardGravity), sinOf(a)))
<1>1. RequiredThrust(drag, m, a) = IF issues # {} THEN Fail(issues) ELSE Ok(x)
  BY DEF RequiredThrust, finishSigned
<1> HIDE DEF x
<1>2. issues = {} /\ RequiredThrust(drag, m, a).v = x
  BY <1>1, OkFacts DEF Fail
<1>3. quantity(m) = {}
  BY <1>2
<1>4. m \in Number /\ StandardGravity \in Number /\ sinOf(a) \in Number
  BY <1>3, ReadQuantity, PathNumbers DEF Magnitude
<1>5. x \in Number
  BY <1>4, NumberOperations DEF x
<1> QED
  BY <1>2, <1>5

\* What a resolved powered segment is.
PoweredBy(r, u) == DOMAIN r = {"status", "thrust", "propulsion", "electrical"} /\ r.propulsion = u /\ u \in Number
LEMMA PoweredFigure ==
    ASSUME NEW d, Measured(d), NEW s, MeasuredSegment(s), NEW thrust \in Number, powered(d, s, thrust).issues = {}
    PROVE  \E u : PoweredBy(powered(d, s, thrust).v, u)
<1> DEFINE a       == PropulsivePower(thrust, s.speed)
           eta     == chainEfficiency(d, s)
           draw(u) == RequiredElectricalPower(u, eta, Zero)
           done(u) == Ok([NoPower("computed") EXCEPT !.thrust = thrust, !.propulsion = u])
           paid(u) == Then(draw(u), LAMBDA w : done(w))
           r       == powered(d, s, thrust)
<1>1. r = IF a.issues # {} THEN Fail(a.issues) ELSE paid(a.v)
  BY DEF powered, Then
<1>2. paid(a.v) = IF draw(a.v).issues # {} THEN Fail(draw(a.v).issues) ELSE done(draw(a.v).v)
  BY DEF Then
<1>3. \A u : done(u) = Ok([status |-> "computed", thrust |-> thrust, propulsion |-> u, electrical |-> None])
  <2> TAKE u
  <2> DEFINE x == [status |-> "computed", thrust |-> thrust, propulsion |-> None, electrical |-> None]
             y == [status |-> "computed", thrust |-> thrust, propulsion |-> u, electrical |-> None]
  <2>1. [NoPower("computed") EXCEPT !.thrust = thrust] = x
    BY DEF NoPower
  <2>2. [x EXCEPT !.propulsion = u] = y
    OBVIOUS
  <2>3. done(u) = Ok([[NoPower("computed") EXCEPT !.thrust = thrust] EXCEPT !.propulsion = u])
    OBVIOUS
  <2> HIDE DEF x, y, done
  <2>4. done(u) = Ok(y)
    BY <2>1, <2>2, <2>3
  <2> QED
    BY <2>4 DEF y
<1> HIDE DEF a, draw, done, paid, r, eta
<1>4. a.issues = {} /\ draw(a.v).issues = {} /\ r = done(draw(a.v).v)
  BY <1>1, <1>2 DEF Fail, r
<1>5. a.v \in Magnitude
  <2> DEFINE issues == quantity(thrust) \cup quantity(s.speed)
             x == Mul(thrust, s.speed)
  <2>1. a = finish(issues, x)
    BY DEF a, PropulsivePower
  <2> HIDE DEF x
  <2>2. quantity(s.speed) = {}
    <3>1. issues = {}
      BY <1>4, <2>1, Finished
    <3> QED
      BY <3>1
  <2>3. s.speed \in Number
    BY <2>2, ReadQuantity DEF MeasuredSegment, SegmentFields, Magnitude
  <2>4. x \in Number
    BY <2>3, NumberOperations DEF x
  <2> QED
    BY <1>4, <2>1, <2>4, FinishedNumber
<1>6. draw(a.v).v \in Magnitude
  <2> DEFINE issues == quantity(a.v) \cup scalar(eta) \cup signedQuantity(Zero)
                         \cup Invalid(Leq(eta, One)) \cup Invalid(Zero[1] >= 0)
             x == Add(Div(a.v, eta), Zero)
  <2>1. draw(a.v) = finish(issues, x)
    BY DEF draw, RequiredElectricalPower
  <2> HIDE DEF x
  <2>2. scalar(eta) = {}
    <3>1. issues = {}
      BY <1>4, <2>1, Finished
    <3> QED
      BY <3>1
  <2>3. eta \in Number
    BY ConstantNumbers DEF eta, chainEfficiency, MeasuredSegment, Measured, MeasuredPower
  <2>4. eta \in Magnitude
    BY <2>2, <2>3, ReadScalar
  <2>5. Div(a.v, eta) \in Number /\ Zero \in Number
    BY <1>5, <2>4, QuotientNumber, ConstantNumbers DEF Magnitude
  <2>6. x \in Number
    BY <2>5, NumberOperations DEF x
  <2> QED
    BY <1>4, <2>1, <2>6, FinishedNumber
<1> DEFINE w == draw(a.v).v
<1> HIDE DEF w
<1>7. w \in Number /\ r.v = [status |-> "computed", thrust |-> thrust, propulsion |-> w, electrical |-> None]
  BY <1>3, <1>4, <1>6, OkFacts DEF w, Magnitude
<1>8. PoweredBy(r.v, w)
  BY <1>7 DEF PoweredBy
<1> QED
  BY <1>8 DEF r

LEMMA BalanceFigure ==
    ASSUME NEW d, Measured(d), NEW s, MeasuredSegment(s), NEW fc, MeasuredCase(fc),
           NEW ctx, ctx.mass.v \in Quantity, ctx.area \in Magnitude, ctx.aspect \in Number,
           balance(d, s, fc, ctx).issues = {}, balance(d, s, fc, ctx).v.status = "computed"
    PROVE  \E u : PoweredBy(balance(d, s, fc, ctx).v, u)
<1> DEFINE press == DynamicPressure(fc, s.speed)
           lift  == SegmentLift(ctx.mass.v, fc.load, s.climb)
           one   == Together([q |-> press, lift |-> lift])
           coefficient(a)    == SegmentLiftCoefficient(a.lift, a.q, ctx.area)
           drag(cl)          == Provided(envelopeCheck(fc, d.polar, cl), DragCoefficient(ctx.aspect, d.polar, cl))
           two(a, cl, cd)    == Together([ratio |-> LiftToDrag(cl, cd), drag |-> DragForce(a.q, ctx.area, cd)])
           pull(b)           == RequiredThrust(b.drag, ctx.mass.v, s.climb)
           last(t)           == IF t[1] <= 0 THEN Ok([NoPower("invalid") EXCEPT !.thrust = t]) ELSE powered(d, s, t)
           after4(b)         == Then(pull(b), LAMBDA t : last(t))
           after3(a, cl, cd) == Then(two(a, cl, cd), LAMBDA b : after4(b))
           after2(a, cl)     == Then(drag(cl), LAMBDA cd : after3(a, cl, cd))
           after1(a)         == Then(coefficient(a), LAMBDA cl : after2(a, cl))
           r                 == balance(d, s, fc, ctx)
<1>1. r = IF one.issues # {} THEN Fail(one.issues) ELSE after1(one.v)
  BY DEF balance, Then
<1>2. \A a : after1(a) = IF coefficient(a).issues # {} THEN Fail(coefficient(a).issues)
                         ELSE after2(a, coefficient(a).v)
  BY DEF Then
<1>3. \A a, cl : after2(a, cl) = IF drag(cl).issues # {} THEN Fail(drag(cl).issues) ELSE after3(a, cl, drag(cl).v)
  BY DEF Then
<1>4. \A a, cl, cd : after3(a, cl, cd) = IF two(a, cl, cd).issues # {} THEN Fail(two(a, cl, cd).issues)
                                         ELSE after4(two(a, cl, cd).v)
  BY DEF Then
<1>5. \A b : after4(b) = IF pull(b).issues # {} THEN Fail(pull(b).issues) ELSE last(pull(b).v)
  BY DEF Then
<1> HIDE DEF after1, after2, after3, after4, r, last
<1> DEFINE a  == one.v
           cl == coefficient(a).v
           cd == drag(cl).v
           b  == two(a, cl, cd).v
           t  == pull(b).v
<1> HIDE DEF one, coefficient, drag, two, pull
<1>6. /\ one.issues = {} /\ coefficient(a).issues = {} /\ drag(cl).issues = {} /\ two(a, cl, cd).issues = {}
      /\ pull(b).issues = {} /\ r = last(t)
  <2> HIDE DEF a, cl, cd, b, t
  <2>1. one.issues = {} /\ r = after1(a)
    BY <1>1 DEF r, Fail, a
  <2>2. coefficient(a).issues = {} /\ r = after2(a, cl)
    BY <1>2, <2>1 DEF r, Fail, cl
  <2>3. drag(cl).issues = {} /\ r = after3(a, cl, cd)
    BY <1>3, <2>2 DEF r, Fail, cd
  <2>4. two(a, cl, cd).issues = {} /\ r = after4(b)
    BY <1>4, <2>3 DEF r, Fail, b
  <2>5. pull(b).issues = {} /\ r = last(t)
    BY <1>5, <2>4 DEF r, Fail, t
  <2> QED
    BY <2>1, <2>2, <2>3, <2>4, <2>5
<1>7. press.issues = {} /\ lift.issues = {} /\ a.q = press.v /\ a.lift = lift.v
  <2>1. one = [v |-> [k \in {"q", "lift"} |-> [q |-> press, lift |-> lift][k].v],
               issues |-> UNION {[q |-> press, lift |-> lift][k].issues : k \in {"q", "lift"}}]
    BY DEF one, Together
  <2>2. one.v.q = press.v /\ one.v.lift = lift.v /\ one.issues = press.issues \cup lift.issues
    BY <2>1
  <2> HIDE DEF press, lift
  <2> QED
    BY <1>6, <2>2
<1>8. s.speed \in Quantity
  BY DEF MeasuredSegment, SegmentFields
<1>9. a.q \in Number /\ a.lift \in Number
  BY <1>7, <1>8, LiftFigures DEF Magnitude
<1> HIDE DEF a, press, lift
<1>10. MeasuredPolar(d.polar)
  BY DEF Measured, MeasuredPower
<1>11. cl \in Number
  BY <1>6, <1>9, <1>10, DragFigures DEF coefficient, Magnitude
<1> HIDE DEF cl
<1>12. cd \in Number
  <2>1. drag(cl) = DragCoefficient(ctx.aspect, d.polar, cl)
    BY <1>6 DEF drag, Provided, Fail
  <2> QED
    BY <1>6, <1>10, <1>11, <2>1, <1>9, DragFigures DEF Magnitude
<1> HIDE DEF cd
<1>13. b.drag \in Number
  <2> DEFINE x == LiftToDrag(cl, cd)
             y == DragForce(a.q, ctx.area, cd)
  <2>1. two(a, cl, cd) = [v |-> [k \in {"ratio", "drag"} |-> [ratio |-> x, drag |-> y][k].v],
                          issues |-> UNION {[ratio |-> x, drag |-> y][k].issues : k \in {"ratio", "drag"}}]
    BY DEF two, Together
  <2> HIDE DEF x, y
  <2>2. b.drag = y.v /\ two(a, cl, cd).issues = x.issues \cup y.issues
    BY <2>1
  <2>3. y.issues = {}
    BY <1>6, <2>2
  <2> QED
    BY <1>9, <1>10, <1>12, <2>2, <2>3, DragFigures DEF y, Magnitude
<1> HIDE DEF b
<1>14. t \in Number
  BY <1>6, <1>13, ThrustFigure DEF pull
<1> HIDE DEF t
<1>15. ~ (t[1] <= 0) /\ r = powered(d, s, t)
  <2>1. t[1] <= 0 => r.v.status = "invalid"
    BY <1>6, OkFacts DEF last, NoPower
  <2> QED
    BY <1>6, <2>1 DEF last, r
<1>16. \E u : PoweredBy(r.v, u)
  BY <1>14, <1>15, PoweredFigure DEF r
<1> QED
  BY <1>16 DEF r

LEMMA SegmentFigure ==
    ASSUME NEW d, Formed(d), Measured(d), NEW s, MeasuredSegment(s),
           NEW ctx, ctx.mass.v \in Quantity, ctx.geometry => ctx.area \in Magnitude /\ ctx.aspect \in Number,
           NEW aux, aux.status = "computed" => aux.continuous \in Number,
           segmentPower(d, s, ctx, aux).status = "computed"
    PROVE  segmentPower(d, s, ctx, aux).electrical \in Number
<1> DEFINE p == segmentPower(d, s, ctx, aux)
<1>1. ASSUME NEW r, NEW u, PoweredBy(r, u), aux.continuous \in Number, withAuxiliary(r, aux).status = "computed"
      PROVE  withAuxiliary(r, aux).electrical \in Number
  <2>1. Add(r.propulsion, aux.continuous) \in Number /\ "electrical" \in DOMAIN r
    BY <1>1, NumberOperations DEF PoweredBy
  <2>2. r.status = "computed"
    BY <1>1 DEF withAuxiliary
  <2>3. withAuxiliary(r, aux).electrical = Add(r.propulsion, aux.continuous)
    BY <2>1, <2>2 DEF withAuxiliary
  <2> QED
    BY <2>1, <2>3
<1>2. \A st : NoPower(st).status = st
  BY DEF NoPower
<1>3. aux.status = "computed" /\ aux.continuous \in Number
  <2>1. aux.status # "computed" => p = NoPower(aux.status)
    BY DEF segmentPower
  <2> QED
    BY <1>2, <2>1
<1>4. CASE s.model = "entered"
  <2>1. p = enteredSegmentPower(s, aux)
    BY <1>3, <1>4 DEF segmentPower
  <2> DEFINE r == [NoPower("computed") EXCEPT !.propulsion = s.entered]
  <2>2. r = [status |-> "computed", thrust |-> None, propulsion |-> s.entered, electrical |-> None]
    BY DEF NoPower
  <2> HIDE DEF p
  <2>3. /\ ~Supplied(s.entered) \/ s.entered = Wrong => p \in {NoPower("missing"), NoPower("invalid")}
        /\ Supplied(s.entered) /\ s.entered # Wrong => p = withAuxiliary(r, aux)
    BY <2>1 DEF enteredSegmentPower
  <2> HIDE DEF r
  <2>4. Supplied(s.entered) /\ s.entered # Wrong /\ p = withAuxiliary(r, aux)
    <3>1. p.status = "computed"
      BY DEF p
    <3>2. NoPower("missing").status # "computed" /\ NoPower("invalid").status # "computed"
      BY <1>2
    <3> QED
      BY <2>3, <3>1, <3>2
  <2>5. s.entered \in Number
    BY <2>4 DEF MeasuredSegment, SegmentFields, Quantity, Supplied
  <2>6. PoweredBy(r, s.entered)
    BY <2>2, <2>5 DEF PoweredBy
  <2> QED
    BY <1>1, <1>3, <2>4, <2>6 DEF p
<1>5. CASE s.model = "polar"
  <2>1. p = polarSegmentPower(d, s, ctx, aux)
    BY <1>3, <1>5 DEF segmentPower
  <2> DEFINE fc == Get(d.cases, s.case)
             x  == balance(d, s, fc, ctx)
             r  == resolveSegmentBalance(d, s, fc, ctx)
  <2>2. /\ ~Named(d.cases, s.case) \/ d.polar = NoPolar => p = NoPower("missing")
        /\ Named(d.cases, s.case) /\ d.polar # NoPolar /\ ~ctx.geometry => p = NoPower("invalid")
        /\ Named(d.cases, s.case) /\ d.polar # NoPolar /\ ctx.geometry =>
             /\ ctx.mass.status # "computed" => p = NoPower(ctx.mass.status)
             /\ ctx.mass.status = "computed" /\ chainEfficiency(d, s) = Zero => p = NoPower("missing")
             /\ ctx.mass.status = "computed" /\ chainEfficiency(d, s) # Zero => p = withAuxiliary(r, aux)
    BY <2>1 DEF polarSegmentPower
  <2> HIDE DEF r, p
  <2>3. Named(d.cases, s.case) /\ ctx.geometry /\ p = withAuxiliary(r, aux)
    <3>1. p.status = "computed"
      BY DEF p
    <3>2. /\ NoPower("missing").status # "computed" /\ NoPower("invalid").status # "computed"
          /\ NoPower(ctx.mass.status).status = ctx.mass.status
      BY <1>2
    <3> QED
      BY <2>2, <3>1, <3>2
  <2>4. MeasuredCase(fc)
    <3>1. NamedList(d.cases)
      BY DEF Formed, Lists
    <3>2. Place(d.cases, s.case) \in DOMAIN d.cases
      BY <2>3, <3>1, PlaceIsThere, NamedListFacts
    <3>3. fc \in ToSet(d.cases)
      BY <3>2 DEF Get, ToSet
    <3> QED
      BY <3>3 DEF Measured
  <2> HIDE DEF fc, x
  <2>5. r.status = "computed"
    <3>1. r.status # "computed" => p = r
      BY <2>3 DEF withAuxiliary
    <3> QED
      BY <3>1 DEF p
  <2>6. x.issues = {} /\ r = x.v
    <3>1. r = IF x.issues # {} THEN NoPower(statusForError(x.issues)) ELSE x.v
      BY DEF r, x, resolveSegmentBalance, balanced
    <3>2. NoPower(statusForError(x.issues)).status # "computed"
      BY <1>2, ErrorStatus
    <3> QED
      BY <2>5, <3>1, <3>2
  <2>7. \E u : PoweredBy(x.v, u)
    BY <2>3, <2>4, <2>5, <2>6, BalanceFigure DEF x
  <2>8. PICK u : PoweredBy(r, u)
    BY <2>6, <2>7
  <2> QED
    BY <1>1, <1>3, <2>3, <2>8 DEF p
<1>6. CASE s.model \notin {"entered", "polar"}
  <2>1. p = NoPower("missing")
    BY <1>3, <1>6 DEF segmentPower
  <2> QED
    BY <1>2, <2>1
<1> QED
  BY <1>4, <1>5, <1>6

LEMMA EnergyNeedsPower ==
    ASSUME NEW d, NEW s, NEW t, NEW power, power.status = "computed" => power.electrical \in Number,
           quantity(segmentOf(d, s, t, power).energy) = {}
    PROVE  segmentOf(d, s, t, power).power.electrical \in Magnitude
<1> DEFINE used  == SegmentEnergy(power.electrical, t.duration)
           avail == checkAvailability(d, s, power)
           out(st, e, p, a) == [name |-> s.name, status |-> st, energy |-> e, duration |-> t.duration,
                                distance |-> t.distance, power |-> p, availability |-> a]
           x == segmentOf(d, s, t, power)
<1>1. /\ t.status # "computed" => x = out(t.status, None, NoPower("missing"), "unknown")
      /\ t.status = "computed" /\ power.status # "computed" => x = out(power.status, None, power, avail)
      /\ t.status = "computed" /\ power.status = "computed" =>
           x = out(IF used.issues = {} THEN "computed" ELSE statusForError(used.issues), used.v, power, avail)
  BY DEF segmentOf
<1>2. \A st, e, p, a : out(st, e, p, a).energy = e /\ out(st, e, p, a).power = p
  OBVIOUS
<1>3. quantity(None) # {}
  BY DEF quantity, Supplied
<1> HIDE DEF out, x, used, avail
<1>4. power.status = "computed" /\ x.energy = used.v /\ x.power = power
  BY <1>1, <1>2, <1>3 DEF x
<1>5. used.issues = {}
  <2> DEFINE issues == quantity(power.electrical) \cup quantity(t.duration)
             v == Mul(power.electrical, t.duration)
  <2>1. used = finish(issues, v)
    BY DEF used, SegmentEnergy
  <2> HIDE DEF issues, v
  <2>2. used.issues # {} => used.v = None
    BY <2>1 DEF finish, Fail, Ok
  <2> QED
    BY <1>3, <1>4, <2>2 DEF x
<1>6. quantity(power.electrical) = {}
  <2> DEFINE issues == quantity(power.electrical) \cup quantity(t.duration)
             v == Mul(power.electrical, t.duration)
  <2>1. used = finish(issues, v)
    BY DEF used, SegmentEnergy
  <2> HIDE DEF v
  <2>2. issues = {}
    BY <1>5, <2>1, Finished
  <2> QED
    BY <2>2
<1>7. power.electrical \in Magnitude
  BY <1>4, <1>6, ReadQuantity DEF Quantity
<1> QED
  BY <1>4, <1>7 DEF x

\* A mission that is computed and whole has an electrical figure for every segment.
LEMMA MissionFigures ==
    ASSUME NEW d, Formed(d), Measured(d), MissionAnalysis(d, SolveWing(d.wing)).status = "computed",
           MissionAnalysis(d, SolveWing(d.wing)).complete
    PROVE  LET m == MissionAnalysis(d, SolveWing(d.wing))
           IN  /\ Len(m.segments) \in Nat \ {0} /\ DOMAIN m.segments = 1 .. Len(m.segments)
               /\ \A i \in DOMAIN m.segments : m.segments[i].power.electrical \in Magnitude
<1> DEFINE wing  == SolveWing(d.wing)
           m     == MissionAnalysis(d, wing)
           n     == Len(d.mission.segments)
           aux   == ElectricalBudget(d)
           ctx   == powerContext(d, wing)
           at(i) == evaluateSegment(d, d.mission.segments[i], ctx, aux)
           parts == segmentsOf(d, ctx, aux)
           done  == Computed(parts)
           sums  == finishSums(done)
           judge == applyEnergyBudget(d, sums, parts # <<>> /\ done = parts)
<1>1. m = missionOf(parts, done, sums, judge)
  BY DEF MissionAnalysis, analysed, summed
<1>2. parts = [i \in 1 .. n |-> at(i)]
  BY DEF segmentsOf
<1>3. n \in Nat /\ DOMAIN d.mission.segments = 1 .. n
  BY NamedListFacts DEF Formed
<1>4. \A i \in 1 .. n : MeasuredSegment(d.mission.segments[i])
  BY <1>3 DEF Measured, MeasuredPower, ToSet
<1>5. aux.status = "computed" => aux.continuous \in Number
  BY AuxiliaryFigure
<1>6. ctx.mass.v \in Quantity /\ (ctx.geometry => ctx.area \in Magnitude /\ ctx.aspect \in Number)
  <2>1. /\ ctx.mass = massReading(d) /\ ctx.geometry = (wing.issues = {})
        /\ wing.issues = {} => ctx.area = wing.v.projected.area /\ ctx.aspect = wing.v.aspect
    BY DEF powerContext
  <2>2. wing.issues = {} => /\ wing.v.projected.span \in Magnitude /\ wing.v.projected.area \in Magnitude
                            /\ wing.v.aspect = Div(Sq(wing.v.projected.span), wing.v.projected.area)
    BY WingSolved DEF Measured
  <2> HIDE DEF wing, ctx
  <2>3. wing.issues = {} => wing.v.aspect \in Number
    <3>1. wing.issues = {} => Sq(wing.v.projected.span) \in Number
      BY <2>2, NumberOperations DEF Magnitude
    <3> QED
      BY <2>2, <3>1, QuotientNumber
  <2> QED
    BY <2>1, <2>2, <2>3, MassRead
<1> HIDE DEF m, wing, n, aux, ctx, at, parts, done, sums, judge
<1>7. /\ m.segments = parts /\ m.complete = (parts # <<>> /\ done = parts) /\ m.status = sums.status
  BY <1>1 DEF missionOf
<1>8. parts # <<>> /\ done = parts /\ sums.status = "computed"
  BY <1>7 DEF m, wing
<1>9. parts = [i \in 1 .. n |-> parts[i]] /\ \A i \in 1 .. n : parts[i] = at(i)
  BY <1>2
<1>10. Len(parts) = n /\ DOMAIN parts = 1 .. n
  BY <1>3, <1>9, FunctionList
<1>11. n # 0
  BY <1>8, <1>9, <1>10
<1> DEFINE e == sumSegments(parts, "energy")
<1>12. e.issues = {}
  <2> DEFINE t == sumSegments(parts, "duration")
             l == sumSegments(parts, "distance")
  <2>1. sums = sumsOf(e, t, l)
    BY <1>8 DEF finishSums, sums
  <2> HIDE DEF e, t, l
  <2> QED
    BY <1>8, <2>1, SumsComputed
<1>13. ASSUME NEW i \in 1 .. n
       PROVE  quantity(parts[i].energy) = {}
  <2> DEFINE of  == [j \in 1 .. Len(parts) |-> parts[j].energy]
             bad == UNION {quantity(of[j]) : j \in DOMAIN of}
  <2>1. e = IF bad # {} THEN Fail(bad) ELSE finish({}, SumQ(of))
    BY DEF sumSegments
  <2>2. i \in DOMAIN of /\ of[i] = parts[i].energy
    BY <1>10, <1>13
  <2> HIDE DEF of
  <2>3. bad = {}
    BY <1>12, <2>1 DEF Fail
  <2> QED
    BY <2>2, <2>3
<1>14. ASSUME NEW i \in 1 .. n
       PROVE  parts[i].power.electrical \in Magnitude
  <2> DEFINE s == d.mission.segments[i]
             t == timeSegment(s)
             power == segmentPower(d, s, ctx, aux)
  <2>1. parts[i] = segmentOf(d, s, t, power)
    BY <1>9 DEF at, evaluateSegment
  <2>2. MeasuredSegment(s)
    BY <1>4
  <2> HIDE DEF s, t
  <2>3. power.status = "computed" => power.electrical \in Number
    BY <1>5, <1>6, <2>2, SegmentFigure
  <2> HIDE DEF power
  <2> QED
    BY <1>13, <2>1, <2>3, EnergyNeedsPower
<1> QED
  BY <1>3, <1>7, <1>10, <1>11, <1>14 DEF m, wing

LEMMA FeasibleIsWithin ==
    ASSUME NEW d, Formed(d), Measured(d), NEW c \in Number
    PROVE  feasibleWithin(d, c) <=> Within(EvaluateDesign(d), c)
<1> DEFINE m    == MissionAnalysis(d, SolveWing(d.wing))
           segs == m.segments
           x    == readPowerSubject(d, "power", m)
           qs   == [i \in DOMAIN segs |-> segs[i].power.electrical]
           e    == EvaluateDesign(d)
           all  == \A i \in DOMAIN segs : Leq(segs[i].power.electrical, c)
<1>1. e.mission = m /\ e.aggregate = Aggregate(Assess(d))
  BY DEF EvaluateDesign, evaluateWing, evaluationOf
<1>2. /\ m.status # "computed" => x = Reading(m.status, None)
      /\ m.status = "computed" /\ ~m.complete => x = Reading("missing", None)
      /\ m.status = "computed" /\ m.complete => x = Reading("computed", m.peak)
  BY DEF readPowerSubject
<1>3. m.status = "computed" /\ m.complete =>
        /\ Len(segs) \in Nat \ {0} /\ DOMAIN segs = 1 .. Len(segs)
        /\ \A i \in DOMAIN segs : segs[i].power.electrical \in Magnitude
        /\ m.peak = Most(qs)
  BY MissionFigures, MissionTotals
<1>4. feasibleWithin(d, c) <=> within(x, c) /\ Aggregate(Assess(d)) \in {"none", "met"}
  BY DEF feasibleWithin
<1>5. Within(e, c) <=> m.status = "computed" /\ m.complete /\ Aggregate(Assess(d)) \in {"none", "met"} /\ all
  BY <1>1 DEF Within
<1> HIDE DEF m, x, e, all
<1>6. m.status = "computed" /\ m.complete => (Leq(m.peak, c) <=> all)
  <2> SUFFICES ASSUME m.status = "computed", m.complete
               PROVE  Leq(m.peak, c) <=> all
    OBVIOUS
  <2> DEFINE n == Len(segs)
  <2>1. /\ n \in Nat \ {0} /\ DOMAIN segs = 1 .. n /\ m.peak = Most(qs)
        /\ \A i \in 1 .. n : segs[i].power.electrical \in Magnitude
    BY <1>3
  <2>2. qs = [i \in 1 .. n |-> qs[i]] /\ \A i \in 1 .. n : qs[i] = segs[i].power.electrical
    BY <2>1
  <2> HIDE DEF n, qs, segs
  <2>3. Len(qs) = n
    BY <2>1, <2>2, FunctionList
  <2>4. \A i \in 1 .. n : qs[i] \in Number /\ ~ (qs[i][1] < 0)
    BY <2>1, <2>2 DEF Magnitude, Number
  <2>5. Leq(Most(qs), c) <=> \A i \in 1 .. n : Leq(qs[i], c)
    BY <2>1, <2>3, <2>4, MostBounds
  <2> QED
    BY <2>1, <2>2, <2>5 DEF all
<1>7. within(x, c) <=> m.status = "computed" /\ m.complete /\ Leq(m.peak, c)
  BY <1>2, ReadingFacts DEF within
<1> QED
  BY <1>4, <1>5, <1>6, <1>7 DEF e

LEMMA SearchHolds ==
    ASSUME NEW start, Sound(Design, start), Measured(Design),
           NEW s, MeasuredSearch(s), planPowerSearch(Design, s) = {},
           NEW c \in ToSet(PowerSizingSearch(Design, s).candidates)
    PROVE  LET adopted == apply(Design, Adopting(s, c.driver))
           IN  c.feasible <=> adopted.issues = {} /\ Within(EvaluateDesign(adopted.v), s.ceiling)
<1> DEFINE cands == PowerSizingSearch(Design, s).candidates
<1>1. /\ s.samples \in Nat /\ s.ceiling \in Number /\ DOMAIN cands = 1 .. s.samples
      /\ \A i \in 1 .. s.samples : cands[i] = powerCandidate(Design, s, i - 1)
  <2>1. Apart(cands, s.samples) /\ \A i \in 1 .. s.samples : cands[i] = powerCandidate(Design, s, i - 1)
    BY CandidatesApart
  <2>2. s.samples \in Nat /\ s.ceiling \in Number
    BY PlanFacts
  <2> HIDE DEF cands
  <2>3. DOMAIN cands = 1 .. s.samples
    BY <2>1, <2>2, FunctionList DEF Apart
  <2> QED
    BY <2>1, <2>2, <2>3
<1>2. PICK i \in 1 .. s.samples : c = powerCandidate(Design, s, i - 1)
  BY <1>1 DEF ToSet
<1> DEFINE n == i - 1
           x == Candidate(Design, s, n)
<1>3. n \in 0 .. s.samples - 1
  BY <1>1
<1>4. c.driver = DriverValue(s, n) /\ (c.feasible <=> x.issues = {} /\ feasibleWithin(x.v, s.ceiling))
  BY <1>2 DEF powerCandidate, candidateOf
<1> HIDE DEF n
<1>5. apply(Design, Adopting(s, c.driver)) = x
  BY <1>4, PlanFacts, CandidateIsEdit
<1>6. x.issues = {} => Formed(x.v) /\ Measured(x.v)
  BY <1>3, CandidateMeasured
<1> HIDE DEF x
<1>7. x.issues = {} => (feasibleWithin(x.v, s.ceiling) <=> Within(EvaluateDesign(x.v), s.ceiling))
  BY <1>1, <1>6, FeasibleIsWithin
<1> QED
  BY <1>4, <1>5, <1>7

LEMMA MeasuredSearches == MeasuredInv => SearchIntervals
<1> SUFFICES ASSUME MeasuredInv, NEW s \in scenario.searches, planPowerSearch(Design, s) = {}
             PROVE  LET r == PowerSizingSearch(Design, s)
                    IN  /\ WholeRuns(r, RunsOf(r), s.samples)
                        /\ \A c \in ToSet(r.candidates) : \A adopted \in {apply(Design, Adopting(s, c.driver))} :
                             c.feasible <=> adopted.issues = {} /\ Within(EvaluateDesign(adopted.v), s.ceiling)
  BY DEF SearchIntervals
<1>1. Sound(Design, scenario.start) /\ Measured(Design) /\ MeasuredSearch(s)
  BY ScenariosAssumption DEF MeasuredInv, HistoryInv, Design
<1> QED
  BY <1>1, SearchRunsWhole, SearchHolds

\* What a power search answers with is so (powersearch.go): its intervals are the feasible
\* candidates, all of them and no other, in runs that cannot be extended; and a candidate is
\* feasible exactly when the command it stands for makes a design within the ceiling.
THEOREM SearchIntervalsAlways == Spec => []SearchIntervals
<1>1. Init => MeasuredInv
  BY InitMeasured
<1>2. MeasuredInv /\ [Next]_vars => MeasuredInv'
  BY NextMeasured
<1>3. MeasuredInv => SearchIntervals
  BY MeasuredSearches
<1> QED
  BY <1>1, <1>2, <1>3, PTL DEF Spec
=============================================================================
