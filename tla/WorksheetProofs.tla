--------------------------- MODULE WorksheetProofs ---------------------------
(***************************************************************************)
(* Proofs about the worksheet in front of the design service, for every    *)
(* design, edit, sweep and search, and whatever the calculator computes.   *)
(*                                                                         *)
(* The thread of the argument: the identity a page waits for was minted    *)
(* for one call, which left with the design that is still on the bench,    *)
(* since every change of the design retires what is waited for (Waits).    *)
(* An answer that carries the identity is therefore about that design, and *)
(* the service answers about the design it was given (HandleAnswers).  The *)
(* design an apply answers with is the one its result is about as far as   *)
(* encoding it tells (EncodedTold), and so are their snapshots             *)
(* (SnapshotsTold).                                                        *)
(***************************************************************************)
EXTENDS Worksheet, TLAPS

-----------------------------------------------------------------------------
(* The service. *)

Failures == {"malformed", "invalid", "not-found", "unsupported", "too-large", "cancelled"}

LEMMA RefusalsFail == \A c, kind : kind \in Failures => fail(c, kind).status # 200
  BY DEF fail, statusOf, Failures

LEMMA KindsFail ==
    /\ \A issues : worstKind(issues) \in Failures /\ coreFailureKind(issues) \in Failures
    /\ \A body : decodeBody(body) \subseteq Failures
<1>1. \A issues : worstKind(issues) \in Failures /\ coreFailureKind(issues) \in Failures
  BY DEF worstKind, coreFailureKind, Failures
<1>2. ASSUME NEW body PROVE decodeBody(body) \subseteq Failures
  <2>1. decodeFailure(body) \in Failures
    BY DEF decodeFailure, Failures
  <2> QED
    BY <2>1 DEF decodeBody, Failures
<1> QED
  BY <1>1, <1>2

\* What is read before a call is answered can only refuse it.
LEMMA ReadFacts ==
    ASSUME NEW c, NEW issues, NEW then, Read(c, issues, then).status = 200
    PROVE  Read(c, issues, then) = then
  BY RefusalsFail, KindsFail DEF Read, Failures

LEMMA OutcomeFacts ==
    ASSUME NEW c, NEW r, outcome(c, r).status = 200
    PROVE  r.issues = {} /\ outcome(c, r) = answered(c, r.v)
  BY RefusalsFail, KindsFail DEF outcome

LEMMA AnsweredFacts ==
    \A c, d : /\ answered(c, d).seq = c.seq /\ answered(c, d).snapshot = Snapshot(d)
              /\ answered(c, d).design = encodeDesign(d)
  BY DEF answered

LEMMA ToldItself == \A d : Told(d, d)
  BY DEF Told

\* Encoding keeps every field but a mission that is not sent, which reads as none.
LEMMA EncodedTold == ASSUME NEW d PROVE Told(d, encodeDesign(d).design)
<1> DEFINE e == [d EXCEPT !.mission = encodeMission(@)]
<1>1. encodeDesign(d).design = e
  BY DEF encodeDesign
<1>2. DOMAIN e = DOMAIN d /\ \A k \in DOMAIN d : k # "mission" => e[k] = d[k]
  OBVIOUS
<1>3. "mission" \in DOMAIN d => e["mission"] = encodeMission(d["mission"])
  OBVIOUS
<1>4. \A m : /\ missionSupplied(m) => encodeMission(m) = m
             /\ ~missionSupplied(m) => ~missionSupplied(encodeMission(m))
  BY DEF encodeMission, missionSupplied
<1> HIDE DEF e
<1> QED
  BY <1>1, <1>2, <1>3, <1>4 DEF Told

\* A snapshot is the design with its lists as sets.
LEMMA SnapshotFields ==
    ASSUME NEW d
    PROVE  /\ DOMAIN Snapshot(d) = DOMAIN d
           /\ \A k \in DOMAIN d :
                Snapshot(d)[k] = IF k \in {"components", "capabilities", "targets", "auxiliary", "cases", "reqs"}
                                 THEN ToSet(d[k]) ELSE d[k]
  BY DEF Snapshot

LEMMA SnapshotsTold == ASSUME NEW d, NEW e, Told(d, e) PROVE Told(Snapshot(d), Snapshot(e))
<1>1. DOMAIN Snapshot(e) = DOMAIN Snapshot(d) /\ DOMAIN Snapshot(d) = DOMAIN d /\ DOMAIN e = DOMAIN d
  BY SnapshotFields DEF Told
<1>2. ASSUME NEW k \in DOMAIN d
      PROVE  IF k = "mission" /\ ~missionSupplied(Snapshot(d)[k])
             THEN ~missionSupplied(Snapshot(e)[k]) ELSE Snapshot(e)[k] = Snapshot(d)[k]
  <2>1. CASE k = "mission"
    <3>1. Snapshot(d)[k] = d[k] /\ Snapshot(e)[k] = e[k]
      BY <1>1, <2>1, SnapshotFields
    <3> QED
      BY <2>1, <3>1 DEF Told
  <2>2. CASE k # "mission"
    <3>1. e[k] = d[k]
      BY <2>2 DEF Told
    <3> QED
      BY <1>1, <2>2, <3>1, SnapshotFields
  <2> QED
    BY <2>1, <2>2
<1> QED
  BY <1>1, <1>2 DEF Told

LEMMA SignedFacts == \A issues, v : finishSigned(issues, v).issues = {} => finishSigned(issues, v).v = v
  BY DEF finishSigned, Fail, Ok

\* An answer carries the identity of its call.  An evaluation, a sweep and a search are
\* about the design they were given, and an apply answers with the whole edit.
LEMMA HandleAnswers ==
    ASSUME NEW c, c.op \in {"evaluate", "apply", "preview", "sweep", "search"}, handle(c).status = 200
    PROVE  /\ handle(c).seq = c.seq
           /\ c.op \in {"evaluate", "sweep", "search"} => handle(c).snapshot = Snapshot(c.design.design)
           /\ c.op = "apply" =>
                /\ applyAll(c.design.design, c.commands).issues = {}
                /\ handle(c).design = encodeDesign(applyAll(c.design.design, c.commands).v)
                /\ handle(c).snapshot = Snapshot(applyAll(c.design.design, c.commands).v)
<1>1. decodeBody(c.body) = {}
  <2> SUFFICES ASSUME decodeBody(c.body) # {} PROVE FALSE
    OBVIOUS
  <2>1. (CHOOSE kind \in decodeBody(c.body) : TRUE) \in Failures
    BY KindsFail
  <2>2. handle(c) = fail(c, CHOOSE kind \in decodeBody(c.body) : TRUE)
    BY DEF handle
  <2> QED
    BY <2>1, <2>2, RefusalsFail
<1>2. CASE c.op = "evaluate"
  <2>1. handle(c) = Evaluate(c)
    BY <1>1, <1>2 DEF handle
  <2>2. Evaluate(c) = answered(c, c.design.design)
    BY <2>1, ReadFacts DEF Evaluate
  <2> QED
    BY <1>2, <2>1, <2>2, AnsweredFacts
<1>3. CASE c.op = "apply"
  <2>1. handle(c) = Apply(c)
    BY <1>1, <1>3 DEF handle
  <2>2. Apply(c) = outcome(c, applyAll(c.design.design, c.commands))
    BY <2>1, ReadFacts, RefusalsFail DEF Apply, Failures
  <2> QED
    BY <1>3, <2>1, <2>2, OutcomeFacts, AnsweredFacts
<1>4. CASE c.op = "preview"
  <2>1. handle(c) = PreviewCommand(c)
    BY <1>1, <1>4 DEF handle
  <2>2. PreviewCommand(c) = outcome(c, apply(c.design.design, c.commands[1].command))
    BY <2>1, ReadFacts DEF PreviewCommand
  <2> QED
    BY <1>4, <2>1, <2>2, OutcomeFacts, AnsweredFacts
<1>5. CASE c.op = "sweep"
  <2>1. handle(c) = SweepDesign(c)
    BY <1>1, <1>5 DEF handle
  <2>2. SweepDesign(c) = outcome(c, finishSigned(PlanSweep(c.design.design, c.settings), c.design.design))
    BY <2>1, ReadFacts DEF SweepDesign
  <2> QED
    BY <1>5, <2>1, <2>2, OutcomeFacts, AnsweredFacts, SignedFacts
<1>6. CASE c.op = "search"
  <2>1. handle(c) = PowerSearch(c)
    BY <1>1, <1>6 DEF handle
  <2>2. PowerSearch(c) = outcome(c, finishSigned(planPowerSearch(c.design.design, c.settings), c.design.design))
    BY <2>1, ReadFacts DEF PowerSearch
  <2> QED
    BY <1>6, <2>1, <2>2, OutcomeFacts, AnsweredFacts, SignedFacts
<1> QED
  BY <1>2, <1>3, <1>4, <1>5, <1>6

-----------------------------------------------------------------------------
(* The inductive invariant. *)

IsSeq(s) == s \in Seq({s[i] : i \in DOMAIN s})

\* The two counters of useWorksheet.ts agree, and the history goes with its edits.
Steady ==
  /\ minted \in Nat /\ nextSequence = minted /\ revision \in Nat
  /\ IsSeq(history) /\ IsSeq(made) /\ Len(made) = Len(history) /\ cursor \in 1 .. Len(history)
  /\ asked = [p \in Panels |-> asked[p]] /\ shown = [p \in Panels |-> shown[p]]

\* Every call but the first carries an identity that was minted.
Operations == {"evaluate", "apply", "preview", "sweep", "search"}
Numbered == \A c \in calls : c = discover \/ (c.seq \in 1 .. minted /\ c.op \in Operations)

\* What is waited for was asked about the design on the bench.
AboutDesign(request) ==
  request # Nothing =>
    /\ request.seq \in 1 .. minted /\ request.revision = revision
    /\ \A c \in calls : c.seq = request.seq => c.design = Design
Waits == AboutDesign(pending) /\ \A p \in Panels : AboutDesign(asked[p])

\* What is shown is of this revision and true, or of an earlier one; the result may
\* have come with a design that was encoded since.
ToldOrOld(r) ==
  r # Nothing =>
    /\ r.revision \in Nat /\ r.revision <= revision
    /\ r.revision = revision => Told(r.snapshot, Snapshot(Design.design))
TrueOrOld(r) ==
  r # Nothing =>
    /\ r.revision \in Nat /\ r.revision <= revision
    /\ r.revision = revision => r.snapshot = Snapshot(Design.design)
Shows == ToldOrOld(current) /\ \A p \in Panels : TrueOrOld(shown[p])

SheetInv == Steady /\ Numbered /\ Waits /\ Shows /\ EditIsWhole

-----------------------------------------------------------------------------
(* Histories. *)

LEMMA ListIsSeq == ASSUME NEW R, NEW n \in Nat, NEW t \in [1 .. n -> R] PROVE t \in Seq(R)
  OBVIOUS

LEMMA SeqIsSeq == ASSUME NEW S, NEW t \in Seq(S) PROVE IsSeq(t)
<1> DEFINE R == {t[i] : i \in DOMAIN t}
<1>1. Len(t) \in Nat /\ t \in [1 .. Len(t) -> R]
  OBVIOUS
<1>2. t \in Seq(R)
  <2> HIDE DEF R
  <2> QED
    BY <1>1, ListIsSeq
<1> QED
  BY <1>2 DEF IsSeq

\* A new entry after the cursor: what came before it stays.
LEMMA NewEntry ==
    ASSUME NEW s, IsSeq(s), NEW n \in 1 .. Len(s), NEW d
    PROVE  LET t == Append(SubSeq(s, 1, n), d) IN
           IsSeq(t) /\ Len(t) = n + 1 /\ t[n + 1] = d /\ \A i \in 1 .. n : t[i] = s[i]
<1> DEFINE S == {s[i] : i \in DOMAIN s} \cup {d}
           u == SubSeq(s, 1, n)
           t == Append(u, d)
<1>1. s \in Seq(S) /\ Len(s) \in Nat /\ d \in S
  BY DEF IsSeq
<1> HIDE DEF S
<1>2. u \in Seq(S) /\ Len(u) = n /\ \A i \in 1 .. n : u[i] = s[i]
  BY <1>1
<1>3. t \in Seq(S) /\ Len(t) = n + 1 /\ t[n + 1] = d /\ \A i \in 1 .. n : t[i] = u[i]
  BY <1>1, <1>2
<1>4. IsSeq(t)
  <2> HIDE DEF t
  <2> QED
    BY <1>3, SeqIsSeq
<1> QED
  BY <1>2, <1>3, <1>4

LEMMA CommitFacts ==
    ASSUME Steady, EditIsWhole, NEW d, NEW how, commitDesign(d, how),
           how # <<>> => Edited(Design, how, d)
    PROVE  /\ IsSeq(history') /\ IsSeq(made') /\ Len(made') = Len(history') /\ cursor' \in 1 .. Len(history')
           /\ revision' = revision + 1 /\ Design' = d /\ EditIsWhole'
           /\ pending' = Nothing /\ asked' = [p \in Panels |-> Nothing]
<1>1. /\ history' = Append(SubSeq(history, 1, cursor), d) /\ made' = Append(SubSeq(made, 1, cursor), how)
      /\ cursor' = cursor + 1 /\ revision' = revision + 1
      /\ pending' = Nothing /\ asked' = [p \in Panels |-> Nothing]
  BY DEF commitDesign, retire
<1>2. /\ IsSeq(history) /\ IsSeq(made) /\ cursor \in 1 .. Len(history) /\ Len(history) \in Nat
      /\ Len(made) = Len(history)
  BY DEF Steady, IsSeq
<1>3. /\ IsSeq(history') /\ Len(history') = cursor + 1 /\ history'[cursor + 1] = d
      /\ \A i \in 1 .. cursor : history'[i] = history[i]
  BY <1>1, <1>2, NewEntry
<1>4. /\ IsSeq(made') /\ Len(made') = cursor + 1 /\ made'[cursor + 1] = how
      /\ \A i \in 1 .. cursor : made'[i] = made[i]
  BY <1>1, <1>2, NewEntry
<1>5. Design' = d
  BY <1>1, <1>3 DEF Design
<1>6. ASSUME NEW i \in 2 .. Len(history'), made'[i] # <<>>
      PROVE  Edited(history'[i - 1], made'[i], history'[i])
  <2>1. CASE i = cursor + 1
    BY <1>2, <1>3, <1>4, <1>6, <2>1 DEF Design
  <2>2. CASE i # cursor + 1
    <3>1. i \in 2 .. Len(history) /\ i \in 1 .. cursor /\ i - 1 \in 1 .. cursor
      BY <1>2, <1>3, <2>2
    <3> QED
      BY <1>3, <1>4, <1>6, <3>1 DEF EditIsWhole
  <2> QED
    BY <2>1, <2>2
<1> QED
  BY <1>1, <1>2, <1>3, <1>4, <1>5, <1>6 DEF EditIsWhole

\* Only the design, its revision and the calls matter to what is waited for and shown.
LEMMA Retired ==
    ASSUME Steady, Shows, revision' = revision + 1, pending' = Nothing, asked' = [p \in Panels |-> Nothing],
           ToldOrOld(current)' \/ current' = current \/ current' = Nothing,
           shown' = shown \/ shown' = [p \in Panels |-> Nothing]
    PROVE  Waits' /\ Shows'
<1>1. Waits'
  BY DEF Waits, AboutDesign
<1>2. ASSUME NEW r, TrueOrOld(r) \/ ToldOrOld(r) PROVE r # Nothing => r.revision \in Nat /\ r.revision < revision'
  BY <1>2 DEF TrueOrOld, ToldOrOld, Steady
<1>3. ToldOrOld(current)'
  BY <1>2 DEF Shows, ToldOrOld, Steady
<1>4. ASSUME NEW p \in Panels PROVE TrueOrOld(shown[p])'
  BY <1>2, <1>4 DEF Shows, TrueOrOld, Steady
<1> QED
  BY <1>1, <1>3, <1>4 DEF Shows

\* While the design stays, what was waited for before a call leaves is waited for after.
LEMMA StillWaits ==
    ASSUME NEW request, AboutDesign(request), UNCHANGED sheet, minted \in Nat, minted' >= minted, minted' \in Nat,
           \A c \in calls' : c \in calls \/ c.seq > minted
    PROVE  request # Nothing =>
             /\ request.seq \in 1 .. minted' /\ request.revision = revision'
             /\ \A c \in calls' : c.seq = request.seq => c.design = Design'
  BY DEF AboutDesign, sheet, Design

-----------------------------------------------------------------------------
(* What leaves the worksheet. *)

LEMMA CallFields ==
    \A n, op, d, commands, s : LET c == Call(n, op, d, commands, s) IN
      c.seq = n /\ c.op = op /\ c.design = d /\ c.commands = commands
  BY DEF Call

\* A call goes out; at most one request, for it, is recorded.
LEMMA Sends ==
    ASSUME SheetInv, NEW op \in Operations, NEW commands, NEW s, Send(op, commands, s),
           nextSequence' = minted', UNCHANGED <<sheet, current>>,
           pending' = pending \/ (pending'.seq = minted' /\ pending'.revision = revision),
           asked' = [p \in Panels |-> asked'[p]], shown' = [p \in Panels |-> shown'[p]],
           \A p \in Panels : /\ asked'[p] = asked[p] \/ (asked'[p].seq = minted' /\ asked'[p].revision = revision)
                             /\ shown'[p] = shown[p]
    PROVE  SheetInv'
<1> DEFINE c == Call(minted + 1, op, Design, commands, s)
<1>1. /\ minted' = minted + 1 /\ minted \in Nat /\ minted' \in Nat /\ calls' = calls \cup {c}
      /\ history' = history /\ cursor' = cursor /\ revision' = revision /\ made' = made /\ current' = current
  BY DEF Send, SheetInv, Steady, sheet
<1>2. c.seq = minted' /\ c.op = op /\ c.design = Design /\ Design' = Design
  BY <1>1, CallFields DEF Design
<1> HIDE DEF c
<1>3. discover' = discover /\ discover.seq = 0
  BY CallFields DEF discover
<1>4. Steady'
  BY <1>1 DEF SheetInv, Steady
<1>5. Numbered'
  BY <1>1, <1>2, <1>3 DEF SheetInv, Numbered
<1>6. \A x \in calls' : x \in calls \/ x.seq > minted
  BY <1>1, <1>2
<1>7. ASSUME NEW request, AboutDesign(request) PROVE AboutDesign(request)'
  BY <1>1, <1>6, <1>7, StillWaits DEF AboutDesign, sheet
<1>8. ASSUME NEW request, request.seq = minted', request.revision = revision
      PROVE  /\ request.seq \in 1 .. minted' /\ request.revision = revision'
             /\ \A x \in calls' : x.seq = request.seq => x.design = Design'
  <2>1. \A x \in calls' : x.seq = minted' => x = c
    BY <1>1, <1>3 DEF SheetInv, Numbered
  <2> QED
    BY <1>1, <1>2, <1>8, <2>1
<1>9. AboutDesign(pending)'
  BY <1>7, <1>8 DEF SheetInv, Waits, AboutDesign
<1>10. ASSUME NEW p \in Panels PROVE AboutDesign(asked[p])'
  BY <1>7, <1>8, <1>10 DEF SheetInv, Waits, AboutDesign
<1>11. Shows'
  BY <1>1, <1>2 DEF SheetInv, Shows, TrueOrOld, ToldOrOld
<1>12. EditIsWhole'
  BY <1>1 DEF SheetInv, EditIsWhole
<1> QED
  BY <1>4, <1>5, <1>9, <1>10, <1>11, <1>12 DEF SheetInv, Waits

LEMMA RequestKeeps ==
    ASSUME SheetInv, NEW op \in Operations, NEW commands, Send(op, commands, NoSettings), requestStarted,
           UNCHANGED <<sheet, current, asked, shown>>
    PROVE  SheetInv'
<1>1. minted' = minted + 1 /\ nextSequence' = minted'
  BY DEF Send, requestStarted, SheetInv, Steady
<1>2. pending'.seq = minted' /\ pending'.revision = revision
  BY <1>1 DEF requestStarted
<1> QED
  BY <1>1, <1>2, Sends DEF SheetInv, Steady

LEMMA PanelKeeps ==
    ASSUME SheetInv, NEW panel \in Panels, NEW s, runPanel(panel, s)
    PROVE  SheetInv'
<1>1. /\ Send(panel, <<>>, s) /\ nextSequence' = minted' /\ pending' = pending /\ shown' = shown
      /\ asked' = [asked EXCEPT ![panel] = [seq |-> minted', revision |-> revision, settings |-> s]]
      /\ UNCHANGED <<sheet, current>>
  BY DEF runPanel, sheet
<1>2. panel \in Operations
  BY DEF Panels, Operations
<1>3. asked = [p \in Panels |-> asked[p]] /\ shown = [p \in Panels |-> shown[p]]
  BY DEF SheetInv, Steady
<1>4. asked' = [p \in Panels |-> asked'[p]]
  BY <1>1, <1>3
<1>5. \A p \in Panels : asked'[p] = asked[p] \/ (asked'[p].seq = minted' /\ asked'[p].revision = revision)
  BY <1>1, <1>3
<1> QED
  BY <1>1, <1>2, <1>3, <1>4, <1>5, Sends

LEMMA PreviewKeeps ==
    ASSUME SheetInv, NEW edit, previewCommand(edit)
    PROVE  SheetInv'
<1>1. /\ Send("preview", edit, NoSettings) /\ nextSequence' = minted' /\ pending' = pending
      /\ asked' = asked /\ shown' = shown /\ UNCHANGED <<sheet, current>>
  BY DEF previewCommand, previewStarted, sheet
<1> QED
  BY <1>1, Sends DEF SheetInv, Steady, Operations

-----------------------------------------------------------------------------
(* Changes of the design. *)

LEMMA StepKeeps ==
    ASSUME SheetInv, NEW n \in 1 .. Len(history), cursor' = n, revision' = revision + 1, retire,
           UNCHANGED <<history, made, minted, nextSequence, current, shown, calls>>
    PROVE  SheetInv'
<1>1. pending' = Nothing /\ asked' = [p \in Panels |-> Nothing]
  BY DEF retire
<1>2. Steady'
  BY <1>1 DEF SheetInv, Steady
<1>3. Numbered' /\ EditIsWhole'
  BY DEF SheetInv, Numbered, EditIsWhole, discover
<1>4. Waits' /\ Shows'
  BY <1>1, Retired DEF SheetInv
<1> QED
  BY <1>2, <1>3, <1>4 DEF SheetInv

LEMMA LoadKeeps ==
    ASSUME SheetInv, NEW d, loadDraft(d)
    PROVE  SheetInv'
<1>1. /\ commitDesign(d, <<>>) /\ current' = Nothing /\ shown' = [p \in Panels |-> Nothing]
      /\ minted' = minted /\ nextSequence' = nextSequence /\ calls' = calls
  BY DEF loadDraft
<1>2. /\ IsSeq(history') /\ IsSeq(made') /\ Len(made') = Len(history') /\ cursor' \in 1 .. Len(history')
      /\ revision' = revision + 1 /\ EditIsWhole'
      /\ pending' = Nothing /\ asked' = [p \in Panels |-> Nothing]
  BY <1>1, CommitFacts DEF SheetInv
<1>3. Steady' /\ Numbered'
  BY <1>1, <1>2 DEF SheetInv, Steady, Numbered, discover
<1>4. Waits' /\ Shows'
  BY <1>1, <1>2, Retired DEF SheetInv
<1> QED
  BY <1>2, <1>3, <1>4 DEF SheetInv

LEMMA DiscardKeeps ==
    ASSUME SheetInv, NEW panel \in Panels, discard(panel)
    PROVE  SheetInv'
<1>1. /\ asked' = [asked EXCEPT ![panel] = Nothing] /\ shown' = [shown EXCEPT ![panel] = Nothing]
      /\ minted' = minted /\ nextSequence' = nextSequence /\ pending' = pending /\ current' = current
      /\ calls' = calls /\ history' = history /\ cursor' = cursor /\ revision' = revision /\ made' = made
  BY DEF discard, sheet
<1>2. asked = [p \in Panels |-> asked[p]] /\ shown = [p \in Panels |-> shown[p]]
  BY DEF SheetInv, Steady
<1>3. /\ asked' = [p \in Panels |-> asked'[p]] /\ shown' = [p \in Panels |-> shown'[p]]
      /\ \A p \in Panels : /\ asked'[p] = asked[p] \/ asked'[p] = Nothing
                           /\ shown'[p] = shown[p] \/ shown'[p] = Nothing
  BY <1>1, <1>2
<1>4. Steady' /\ Numbered' /\ EditIsWhole'
  BY <1>1, <1>3 DEF SheetInv, Steady, Numbered, EditIsWhole, discover
<1>5. Waits'
  BY <1>1, <1>3 DEF SheetInv, Waits, AboutDesign, Design
<1>6. Shows'
  BY <1>1, <1>3 DEF SheetInv, Shows, TrueOrOld, ToldOrOld, Design
<1> QED
  BY <1>4, <1>5, <1>6 DEF SheetInv

-----------------------------------------------------------------------------
(* What comes back. *)

LEMMA ResultFields ==
    \A a, rev : result(a, rev).revision = rev /\ result(a, rev).snapshot = a.snapshot
  BY DEF result

\* An answer or failure that leaves the design alone, and waits for nothing more than before.
LEMMA AnswerKeeps ==
    ASSUME SheetInv, NEW c \in calls, calls' = calls \ {c}, UNCHANGED <<minted, nextSequence, sheet>>,
           pending' = pending \/ pending' = Nothing, ToldOrOld(current'),
           asked' = [p \in Panels |-> asked'[p]], shown' = [p \in Panels |-> shown'[p]],
           \A p \in Panels : (asked'[p] = asked[p] \/ asked'[p] = Nothing) /\ TrueOrOld(shown'[p])
    PROVE  SheetInv'
<1>1. /\ minted' = minted /\ nextSequence' = nextSequence /\ history' = history /\ cursor' = cursor
      /\ revision' = revision /\ made' = made /\ Design' = Design /\ calls' \subseteq calls
  BY DEF sheet, Design
<1>2. Steady' /\ Numbered' /\ EditIsWhole'
  BY <1>1 DEF SheetInv, Steady, Numbered, EditIsWhole, discover
<1>3. Waits'
  BY <1>1 DEF SheetInv, Waits, AboutDesign
<1>4. Shows'
  BY <1>1 DEF Shows, TrueOrOld, ToldOrOld
<1> QED
  BY <1>2, <1>3, <1>4 DEF SheetInv

LEMMA LostKeeps ==
    ASSUME SheetInv, NEW c \in calls, calls' = calls \ {c}, UNCHANGED <<minted, nextSequence>>,
           \/ failed(c)
           \/ UNCHANGED <<sheet, pending, current, failure, asked, shown>>
    PROVE  SheetInv'
<1>1. /\ UNCHANGED sheet /\ current' = current /\ asked' = asked /\ shown' = shown
      /\ pending' = pending \/ pending' = Nothing
  BY DEF failed, sheet
<1> QED
  BY <1>1, AnswerKeeps DEF SheetInv, Steady, Shows

LEMMA AppliedKeeps ==
    ASSUME SheetInv, NEW c \in calls, c # discover, c.op = "apply", handle(c).status = 200, applied(c, handle(c)),
           calls' = calls \ {c}, UNCHANGED <<minted, nextSequence>>
    PROVE  SheetInv'
<1> DEFINE a == handle(c)
           r == applyAll(c.design.design, c.commands)
<1>1. a.seq = c.seq /\ r.issues = {} /\ a.design = encodeDesign(r.v) /\ a.snapshot = Snapshot(r.v)
  BY HandleAnswers
<1>2. /\ pending # Nothing /\ pending.seq = a.seq /\ commitDesign(a.design, c.commands)
      /\ current' = result(a, revision') /\ shown' = shown
  BY DEF applied, sameIdentity
<1>3. c.design = Design
  BY <1>1, <1>2 DEF SheetInv, Waits, AboutDesign
<1>4. Edited(Design, c.commands, a.design)
  BY <1>1, <1>3, EncodedTold DEF Edited
<1>5. /\ IsSeq(history') /\ IsSeq(made') /\ Len(made') = Len(history') /\ cursor' \in 1 .. Len(history')
      /\ revision' = revision + 1 /\ Design' = a.design /\ EditIsWhole'
      /\ pending' = Nothing /\ asked' = [p \in Panels |-> Nothing]
  BY <1>2, <1>4, CommitFacts DEF SheetInv
<1>6. Told(a.snapshot, Snapshot(Design'.design))
  BY <1>1, <1>5, EncodedTold, SnapshotsTold
<1>7. ToldOrOld(current)'
  BY <1>2, <1>5, <1>6, ResultFields DEF ToldOrOld, SheetInv, Steady
<1>8. Steady' /\ Numbered'
  BY <1>2, <1>5 DEF SheetInv, Steady, Numbered, discover
<1>9. Waits' /\ Shows'
  BY <1>2, <1>5, <1>7, Retired DEF SheetInv
<1> QED
  BY <1>5, <1>8, <1>9 DEF SheetInv

\* An answer about the design on the bench, filed under the revision it was asked at.
LEMMA ResultIsTrue ==
    ASSUME SheetInv, NEW c \in calls, c.op \in {"evaluate", "sweep", "search"}, handle(c).status = 200,
           NEW request, AboutDesign(request), request # Nothing, handle(c).seq = request.seq
    PROVE  TrueOrOld(result(handle(c), request.revision))
<1>1. handle(c).seq = c.seq /\ handle(c).snapshot = Snapshot(c.design.design)
  BY HandleAnswers
<1>2. c.design = Design /\ request.revision = revision
  BY <1>1 DEF AboutDesign
<1> QED
  BY <1>1, <1>2, ResultFields DEF TrueOrOld, SheetInv, Steady

LEMMA EvaluatedKeeps ==
    ASSUME SheetInv, NEW c \in calls, c.op = "evaluate", handle(c).status = 200, evaluated(handle(c)),
           calls' = calls \ {c}, UNCHANGED <<minted, nextSequence>>
    PROVE  SheetInv'
<1>1. /\ pending # Nothing /\ pending.seq = handle(c).seq /\ pending' = Nothing
      /\ current' = result(handle(c), pending.revision) /\ UNCHANGED sheet /\ asked' = asked /\ shown' = shown
  BY DEF evaluated, sameIdentity, sheet
<1>2. ToldOrOld(current')
  BY <1>1, ResultIsTrue, ToldItself DEF SheetInv, Waits, TrueOrOld, ToldOrOld
<1> QED
  BY <1>1, <1>2, AnswerKeeps DEF SheetInv, Steady, Shows

LEMMA AnsweredKeeps ==
    ASSUME SheetInv, NEW c \in calls, c.op \in Panels, handle(c).status = 200, answeredPanel(c.op, handle(c)),
           calls' = calls \ {c}, UNCHANGED <<minted, nextSequence>>
    PROVE  SheetInv'
<1> DEFINE panel == c.op
           r == result(handle(c), asked[panel].revision)
<1>1. /\ asked[panel] # Nothing /\ handle(c).seq = asked[panel].seq
      /\ asked' = [asked EXCEPT ![panel] = Nothing] /\ shown' = [shown EXCEPT ![panel] = r]
      /\ UNCHANGED sheet /\ pending' = pending /\ current' = current
  BY DEF answeredPanel, answers, sheet
<1>2. TrueOrOld(r)
  BY <1>1, ResultIsTrue DEF SheetInv, Waits, Panels
<1>3. asked = [p \in Panels |-> asked[p]] /\ shown = [p \in Panels |-> shown[p]]
  BY DEF SheetInv, Steady
<1> HIDE DEF r
<1>4. /\ asked' = [p \in Panels |-> asked'[p]] /\ shown' = [p \in Panels |-> shown'[p]]
      /\ \A p \in Panels : /\ asked'[p] = asked[p] \/ asked'[p] = Nothing
                           /\ shown'[p] = shown[p] \/ shown'[p] = r
  BY <1>1, <1>3
<1>5. \A p \in Panels : TrueOrOld(shown'[p])
  BY <1>2, <1>4 DEF SheetInv, Shows
<1>6. ToldOrOld(current') /\ UNCHANGED <<minted, nextSequence, sheet>>
  BY <1>1 DEF SheetInv, Shows
<1>7. \A p \in Panels : (asked'[p] = asked[p] \/ asked'[p] = Nothing) /\ TrueOrOld(shown'[p])
  BY <1>4, <1>5
<1> QED
  BY <1>1, <1>4, <1>6, <1>7, AnswerKeeps

LEMMA ArriveKeeps ==
    ASSUME SheetInv, NEW c \in calls, Arrive(c)
    PROVE  SheetInv'
<1>0. Answer(c) /\ calls' = calls \ {c} /\ UNCHANGED <<minted, nextSequence>>
  BY DEF Arrive
<1>1. CASE UNCHANGED <<sheet, pending, current, failure, asked, shown>>
  BY <1>0, <1>1, LostKeeps
<1>2. CASE c # discover /\ handle(c).status # 200
  BY <1>0, <1>2, LostKeeps DEF Answer
<1>3. CASE c # discover /\ handle(c).status = 200
  <2>1. \/ c.op = "apply" /\ applied(c, handle(c))
        \/ c.op = "evaluate" /\ evaluated(handle(c))
        \/ c.op \in Panels /\ answeredPanel(c.op, handle(c))
        \/ unwanted(c, handle(c))
    BY <1>0, <1>3 DEF Answer
  <2>2. CASE unwanted(c, handle(c))
    BY <1>1, <2>2 DEF unwanted
  <2> QED
    BY <1>0, <1>3, <2>1, <2>2, AppliedKeeps, EvaluatedKeeps, AnsweredKeeps
<1>4. CASE c = discover
  BY <1>0, <1>1, <1>4 DEF Answer
<1> QED
  BY <1>2, <1>3, <1>4

-----------------------------------------------------------------------------
(* The theorems. *)

LEMMA InitHolds == Init => SheetInv
<1> SUFFICES ASSUME Init PROVE SheetInv
  OBVIOUS
<1>0. /\ minted = 0 /\ nextSequence = 0 /\ history = <<Start>> /\ cursor = 1 /\ revision = 0 /\ made = <<<<>>>>
      /\ pending = Nothing /\ current = Nothing /\ calls = {discover}
      /\ asked = [p \in Panels |-> Nothing] /\ shown = [p \in Panels |-> Nothing]
  BY DEF Init
<1>1. /\ history \in Seq({Start}) /\ Len(history) = 1
      /\ made \in Seq({<<>>}) /\ Len(made) = 1
  BY <1>0
<1>2. IsSeq(history) /\ IsSeq(made)
  BY <1>1, SeqIsSeq
<1>3. Steady
  BY <1>0, <1>1, <1>2 DEF Steady
<1>4. Numbered /\ Waits /\ Shows
  BY <1>0 DEF Numbered, Waits, AboutDesign, Shows, TrueOrOld, ToldOrOld
<1>5. EditIsWhole
  BY <1>1 DEF EditIsWhole
<1> QED
  BY <1>3, <1>4, <1>5 DEF SheetInv

LEMMA NextKeeps == SheetInv /\ [Next]_vars => SheetInv'
<1> SUFFICES ASSUME SheetInv, [Next]_vars PROVE SheetInv'
  OBVIOUS
<1>1. CASE Effect \/ Recalculate
  BY <1>1, RequestKeeps DEF Effect, Recalculate, evaluate, Operations
<1>2. CASE undo
  <2>1. cursor - 1 \in 1 .. Len(history)
    BY <1>2 DEF undo, SheetInv, Steady, IsSeq
  <2> QED
    BY <1>2, <2>1, StepKeeps DEF undo
<1>3. CASE redo
  <2>1. cursor + 1 \in 1 .. Len(history)
    BY <1>3 DEF redo, SheetInv, Steady, IsSeq
  <2> QED
    BY <1>3, <2>1, StepKeeps DEF redo
<1>4. ASSUME NEW edit \in Edits, run(edit) PROVE SheetInv'
  BY <1>4, RequestKeeps DEF run, Operations
<1>5. ASSUME NEW edit \in Edits, previewCommand(edit) PROVE SheetInv'
  BY <1>5, PreviewKeeps
<1>6. ASSUME NEW s, runPanel("sweep", s) \/ runPanel("search", s) PROVE SheetInv'
  BY <1>6, PanelKeeps DEF Panels
<1>7. ASSUME NEW panel \in Panels, discard(panel) PROVE SheetInv'
  BY <1>7, DiscardKeeps
<1>8. ASSUME NEW d \in Saved, loadDraft(d) PROVE SheetInv'
  BY <1>8, LoadKeeps
<1>9. ASSUME NEW c \in calls, Arrive(c) \/ Lost(c) PROVE SheetInv'
  BY <1>9, ArriveKeeps, LostKeeps DEF Lost
<1>10. CASE UNCHANGED vars
  BY <1>10 DEF vars, sheet, SheetInv, Steady, Numbered, discover, Waits, AboutDesign, Shows, TrueOrOld,
     ToldOrOld, EditIsWhole, Design
<1>11. CASE Next
  <2>1. CASE \E edit \in Edits : run(edit) \/ previewCommand(edit)
    BY <1>4, <1>5, <2>1
  <2>2. CASE (\E s \in Sweeps : runPanel("sweep", s)) \/ (\E s \in Searches : runPanel("search", s))
    BY <1>6, <2>2
  <2>3. CASE (\E panel \in Panels : discard(panel)) \/ (\E d \in Saved : loadDraft(d))
    BY <1>7, <1>8, <2>3
  <2>4. CASE \E c \in calls : Arrive(c) \/ Lost(c)
    BY <1>9, <2>4
  <2> QED
    BY <1>1, <1>2, <1>3, <1>11, <2>1, <2>2, <2>3, <2>4 DEF Next
<1> QED
  BY <1>10, <1>11

LEMMA SheetInvariance == Spec => []SheetInv
  BY InitHolds, NextKeeps, PTL DEF Spec

\* In whatever order answers, failures, edits, undos and loads come, a curve or a search
\* without a stale mark was computed for the design on the bench, and the result for it
\* or for the design it was encoded from, which differs at most in the basis and the
\* reserve of a mission with no name and no legs (worksheet.ts, the reducer, with
\* encode.go, service.go and the calculator behind it).
THEOREM ShownIsTrueAlways == Spec => []ShownIsTrue
<1>1. SheetInv => ShownIsTrue
  BY DEF SheetInv, Shows, TrueOrOld, ToldOrOld, ShownIsTrue, staleResult, stale
<1> QED
  BY <1>1, SheetInvariance, PTL

\* Every revision an edit made is the one before it with the whole edit, none of which
\* was refused, but for the basis and the reserve of a mission that is left with no name
\* and no legs (useWorksheet.ts run, service.go Apply, encode_power.go encodeMission).
THEOREM EditIsWholeAlways == Spec => []EditIsWhole
<1>1. SheetInv => EditIsWhole
  BY DEF SheetInv
<1> QED
  BY <1>1, SheetInvariance, PTL
=============================================================================
