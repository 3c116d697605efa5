------------------------------ MODULE Worksheet -----------------------------
(***************************************************************************)
(* The browser worksheet (aeronautics/frontend, useWorksheet.ts and        *)
(* state/worksheet.ts) and its calls to the design service.  A call leaves *)
(* with the design on the bench and comes back at any time, in any order   *)
(* or not at all; nothing times it out and no control waits for it.        *)
(*                                                                         *)
(* React renders between two events, so that a handler sees the state the  *)
(* last one left.  Drafts of text, the journey, the selection and the      *)
(* previous result are read by no guard here and are left out.  made holds *)
(* the edit each revision came from, and exists for the properties only.   *)
(***************************************************************************)
EXTENDS DesignService

CONSTANTS Start,           \* the design the page opens with
          Saved,           \* the designs in browser storage
          Edits,           \* what a builder may run: sequences of commands
          Sweeps, Searches,\* the questions of the two panels
          NoSettings,
          MaxOps           \* bound: what a builder does

ASSUME MaxOpsAssumption == MaxOps \in Nat

VARIABLES minted, nextSequence, history, cursor, revision, pending, current,
          failure, asked, shown, calls, made, ops
sheet == <<history, cursor, revision, made>>
vars  == <<minted, nextSequence, sheet, pending, current, failure, asked, shown, calls, ops>>

Panels  == {"sweep", "search"}
Nothing == [seq |-> 0, revision |-> -1, settings |-> NoSettings]  \* null
Design  == history[cursor]

staleResult   == current # Nothing /\ current.revision # revision
stale(panel)  == shown[panel] # Nothing /\ shown[panel].revision # revision

\* What leaves the page: one session for as long as it is open.
Call(seq, op, d, commands, settings) ==
  [seq |-> seq, op |-> op, session |-> "s", body |-> d.body, design |-> d, commands |-> commands,
   settings |-> settings, gone |-> FALSE]
\* The first effect asks what the service offers; the call carries no identity.
discover == Call(0, "discover", Start, <<>>, NoSettings)
Init ==
  /\ minted = 0 /\ nextSequence = 0
  /\ history = <<Start>> /\ cursor = 1 /\ revision = 0 /\ made = <<<<>>>>
  /\ pending = Nothing /\ current = Nothing /\ failure = FALSE
  /\ asked = [p \in Panels |-> Nothing] /\ shown = [p \in Panels |-> Nothing]
  /\ calls = {discover} /\ ops = 0

Builder == ops < MaxOps /\ ops' = ops + 1

\* mintIdentity, and the call that carries the identity out.
Send(op, commands, settings) ==
  /\ minted' = minted + 1
  /\ calls' = calls \cup {Call(minted', op, Design, commands, settings)}

(***************************************************************************)
(* What leaves the worksheet.                                              *)
(***************************************************************************)
requestStarted ==
  /\ nextSequence' = nextSequence + 1
  /\ pending' = [seq |-> nextSequence', revision |-> revision, settings |-> NoSettings]
  /\ failure' = FALSE

evaluate ==
  /\ Send("evaluate", <<>>, NoSettings) /\ requestStarted
  /\ UNCHANGED <<sheet, current, asked, shown>>
\* The effect: a design with no result for it asks for one.
wantsEvaluation == pending = Nothing /\ ~failure /\ (current = Nothing \/ staleResult)
Effect      == wantsEvaluation /\ evaluate /\ UNCHANGED ops
Recalculate == Builder /\ evaluate
run(edit) ==
  /\ Builder
  /\ Send("apply", edit, NoSettings) /\ requestStarted
  /\ UNCHANGED <<sheet, current, asked, shown>>
\* runSweep and runPowerSearch
runPanel(panel, s) ==
  /\ Builder
  /\ Send(panel, <<>>, s)
  /\ nextSequence' = minted'
  /\ asked' = [asked EXCEPT ![panel] = [seq |-> minted', revision |-> revision, settings |-> s]]
  /\ failure' = FALSE
  /\ UNCHANGED <<sheet, pending, current, shown>>
\* Mutant: a preview takes an identity the reducer never hears of.
previewUncounted == UNCHANGED nextSequence
previewStarted   == nextSequence' = minted'
previewCommand(edit) ==
  /\ Builder
  /\ Len(edit) = 1
  /\ Send("preview", edit, NoSettings)
  /\ previewStarted
  /\ UNCHANGED <<sheet, pending, current, failure, asked, shown>>

(***************************************************************************)
(* Changes of the design.  Each retires what is outstanding.               *)
(***************************************************************************)
retire == /\ failure' = FALSE /\ asked' = [p \in Panels |-> Nothing] /\ pending' = Nothing
commitDesign(d, how) ==
  /\ history' = Append(SubSeq(history, 1, cursor), d)
  /\ made' = Append(SubSeq(made, 1, cursor), how)
  /\ cursor' = cursor + 1 /\ revision' = revision + 1
  /\ retire
undo ==
  /\ Builder
  /\ cursor > 1 /\ cursor' = cursor - 1 /\ revision' = revision + 1 /\ retire
  /\ UNCHANGED <<history, made, minted, nextSequence, current, shown, calls>>
redo ==
  /\ Builder
  /\ cursor < Len(history) /\ cursor' = cursor + 1 /\ revision' = revision + 1 /\ retire
  /\ UNCHANGED <<history, made, minted, nextSequence, current, shown, calls>>
\* loadDraft: a stored design, whatever it holds, and no result with it.
loadDraft(d) ==
  /\ Builder
  /\ commitDesign(d, <<>>)
  /\ current' = Nothing /\ shown' = [p \in Panels |-> Nothing]
  /\ UNCHANGED <<minted, nextSequence, calls>>
discard(panel) ==
  /\ Builder
  /\ asked' = [asked EXCEPT ![panel] = Nothing] /\ shown' = [shown EXCEPT ![panel] = Nothing]
  /\ UNCHANGED <<minted, nextSequence, sheet, pending, current, failure, calls>>

(***************************************************************************)
(* What comes back.                                                        *)
(***************************************************************************)
result(a, rev) == [seq |-> a.seq, revision |-> rev, settings |-> a.settings, snapshot |-> a.snapshot]
\* Mutant: any answer of the session is taken for the one waited for.
sameSession(seq)  == pending # Nothing
sameIdentity(seq) == pending # Nothing /\ pending.seq = seq
applied(c, a) ==
  /\ sameIdentity(a.seq)
  /\ commitDesign(a.design, c.commands)
  /\ current' = result(a, revision')
  /\ UNCHANGED shown
evaluated(a) ==
  /\ sameIdentity(a.seq)
  /\ pending' = Nothing /\ failure' = FALSE /\ current' = result(a, pending.revision)
  /\ UNCHANGED <<sheet, asked, shown>>
\* answers and answersSearch: the design clause compares the answer with itself.
answers(panel, a) == asked[panel] # Nothing /\ a.seq = asked[panel].seq /\ a.settings = asked[panel].settings
answeredPanel(panel, a) ==
  /\ answers(panel, a)
  /\ asked' = [asked EXCEPT ![panel] = Nothing]
  /\ shown' = [shown EXCEPT ![panel] = result(a, asked[panel].revision)]
  /\ UNCHANGED <<sheet, pending, current, failure>>
\* failed: whichever call it was; a refused preview is dropped by its caller.
failed(c) ==
  /\ IF c.op = "preview" THEN UNCHANGED <<pending, failure>> ELSE pending' = Nothing /\ failure' = TRUE
  /\ UNCHANGED <<sheet, current, asked, shown>>
unwanted(c, a) ==
  /\ CASE c.op = "preview"                -> TRUE
       [] c.op \in {"apply", "evaluate"}  -> ~sameIdentity(a.seq)
       [] OTHER                           -> ~answers(c.op, a)
  /\ UNCHANGED <<sheet, pending, current, failure, asked, shown>>

Answer(c) ==
  IF c = discover THEN UNCHANGED <<sheet, pending, current, failure, asked, shown>>
  ELSE \E a \in {handle(c)} :
         IF a.status # 200 THEN failed(c)
         ELSE \/ c.op = "apply" /\ applied(c, a)
              \/ c.op = "evaluate" /\ evaluated(a)
              \/ c.op \in Panels /\ answeredPanel(c.op, a)
              \/ unwanted(c, a)
Arrive(c) == Answer(c) /\ calls' = calls \ {c} /\ UNCHANGED <<minted, nextSequence, ops>>
\* The service could not be reached, or its answer did not come through.
Lost(c) == failed(c) /\ calls' = calls \ {c} /\ UNCHANGED <<minted, nextSequence, ops>>

Next ==
  \/ Effect \/ Recalculate \/ undo \/ redo
  \/ \E edit \in Edits : run(edit) \/ previewCommand(edit)
  \/ \E s \in Sweeps : runPanel("sweep", s)
  \/ \E s \in Searches : runPanel("search", s)
  \/ \E panel \in Panels : discard(panel)
  \/ \E d \in Saved : loadDraft(d)
  \/ \E c \in calls : Arrive(c) \/ Lost(c)

\* The browser runs effects, and a fetch ends in an answer or an error.
Fairness == WF_vars(Effect) /\ WF_vars(\E c \in calls : Lost(c) \/ Arrive(c))
Spec     == Init /\ [][Next]_vars /\ Fairness
-----------------------------------------------------------------------------
(***************************************************************************)
(* e is d as an answer tells it: field for field the same, save that a     *)
(* mission with no name and no legs comes back without the basis and the   *)
(* reserve it was given (encode_power.go:146).                             *)
(***************************************************************************)
Told(d, e) ==
  /\ DOMAIN e = DOMAIN d
  /\ \A k \in DOMAIN d :
       IF k = "mission" /\ ~missionSupplied(d[k]) THEN ~missionSupplied(e[k]) ELSE e[k] = d[k]

(***************************************************************************)
(* What is shown without a stale mark is about the design on the bench     *)
(* (worksheet.ts, the reducer): in whatever order answers, failures,       *)
(* edits, undos and loads came, the curve and the search were computed for *)
(* it, and the result for it or for the design an apply answered with it,  *)
(* from which it differs as Told allows.                                   *)
(***************************************************************************)
ShownIsTrue ==
  /\ current # Nothing /\ ~staleResult => Told(current.snapshot, Snapshot(Design.design))
  /\ \A panel \in Panels :
       shown[panel] # Nothing /\ ~stale(panel) => shown[panel].snapshot = Snapshot(Design.design)

(***************************************************************************)
(* Every revision that an edit made is the one before it with that whole   *)
(* edit, as Told allows (useWorksheet.ts run, service.go Apply): no answer *)
(* replaces a design it was not computed from, none of the commands is     *)
(* left out but the profile of a mission that has no name and no legs, and *)
(* no edit that the calculator refuses is made at all.                     *)
(***************************************************************************)
Edited(w, edit, edited) ==
  \E r \in {applyAll(w.design, edit)} : r.issues = {} /\ Told(r.v, edited.design)
EditIsWhole ==
  \A i \in 2 .. Len(history) : made[i] # <<>> => Edited(history[i - 1], made[i], history[i])

(***************************************************************************)
(* A worksheet that is left alone settles (useWorksheet.ts, the effect and *)
(* the two counters): nothing stays pending, and either the result is that *)
(* of the design on the bench or a failure is shown.                       *)
(***************************************************************************)
Settled == pending = Nothing /\ (failure \/ (current # Nothing /\ ~staleResult))
Settles == ~Settled ~> Settled
=============================================================================
