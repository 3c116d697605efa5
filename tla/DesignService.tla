---------------------------- MODULE DesignService ---------------------------
(***************************************************************************)
(* The boundary in front of the calculator (aeronautics/api and httpapi).  *)
(* It keeps no state: a call carries the whole design, and the answer says *)
(* which call it answers.                                                  *)
(*                                                                         *)
(* A call is [op, session, seq, body, design, commands, settings, gone].   *)
(* Wire text is told apart by what reading it yields: body is how the JSON *)
(* reads, unread and flaw are the kinds of issue found in the fields of a  *)
(* part (an unknown unit or token, a number that is not finite), and gone  *)
(* says that the caller went away.  A wire command is [kind, carried,      *)
(* flaw, command]; its kind is the name of the command it becomes, and     *)
(* carried are the fields it came with.                                    *)
(***************************************************************************)
EXTENDS SweepSearch

CONSTANT Limits  \* the published payload limits: cases, reqs, components,
                 \* capabilities, targets, segments, auxiliary, commands

(***************************************************************************)
(* Failures.                                                               *)
(***************************************************************************)
statusOf(kind) ==
  CASE kind \in {"malformed", "invalid"} -> 400
    [] kind = "not-found"                -> 404
    [] kind = "unsupported"              -> 422
    [] kind = "too-large"                -> 413
    [] kind = "cancelled"                -> 499
fail(c, kind) ==
  [seq |-> c.seq, op |-> c.op, status |-> statusOf(kind), design |-> c.design, snapshot |-> None, settings |-> c.settings]
\* worstKind: unsupported only when nothing else is wrong.
worstKind(issues) == IF issues # {} /\ issues \subseteq {"unsupported"} THEN "unsupported" ELSE "invalid"
coreFailureKind(issues) ==
  IF issues \cap {"invalid", "missing"} = {} /\ "unsupported" \in issues THEN "unsupported" ELSE "invalid"

(***************************************************************************)
(* Reading.  Issues accumulate; a list that is too long ends the reading   *)
(* of what follows it.                                                     *)
(***************************************************************************)
decodeRequest(c) == Missing(c.session # "") \cup Missing(c.seq # 0)
TooMany(d, list) == IF Len(IF list = "segments" THEN d.mission.segments ELSE d[list]) > Limits[list]
                    THEN {"unsupported"} ELSE {}
powerDefinition(w) ==
  w.unread.power \cup UNION {TooMany(w.design, list) : list \in {"capabilities", "targets", "segments", "auxiliary"}}
decodeDesign(w) ==
  LET first == TooMany(w.design, "cases") \cup TooMany(w.design, "reqs")
      items == TooMany(w.design, "components")
  IN  w.unread.head \cup
        (IF first # {} THEN first
         ELSE w.unread.lists \cup (IF items # {} THEN items ELSE w.unread.components \cup powerDefinition(w)))

\* commandSpecs: the fields of each kind, and those of them that may be absent.
commandSpec(fields, optional) == [fields |-> fields, optional |-> optional]
Only(field)             == commandSpec({field}, {})
commandSpecs ==
  [SetMass |-> commandSpec({"mass", "basis"}, {"mass", "basis"}), SetDriver |-> commandSpec({"key", "value"}, {"value"}),
   PromoteDriver |-> commandSpec({"promote", "release", "value"}, {"release"}), SetTaperRatio |-> Only("ratio"),
   SetRequirement |-> Only("requirement"), RemoveRequirement |-> Only("name"),
   SetRequirementPriority |-> commandSpec({"name", "priority"}, {}), SetCase |-> Only("case"), RemoveCase |-> Only("name"),
   SetCasePriority |-> commandSpec({"name", "priority"}, {}), SetCaseCLmax |-> commandSpec({"name", "clmax"}, {"clmax"}),
   SizeAtStallLimit |-> commandSpec({"hold", "scope"}, {}), SetPlanformShape |-> commandSpec({"shape", "ratio"}, {}),
   SetWingAngles |-> Only("angles"), SetConfiguration |-> commandSpec({"configuration", "tail"}, {"tail"}),
   SetMassMode |-> Only("mode"), SetComponent |-> Only("component"), PlaceComponent |-> commandSpec({"name", "position"}, {}),
   RemoveComponent |-> Only("name"), SetBodyWidth |-> commandSpec({"value"}, {"value"})]
powerCommandSpecs ==
  [SetDragPolar |-> commandSpec({"polar"}, {"polar"}), SetPropulsionEfficiency |-> Only("efficiency"),
   SetPropulsionLimits |-> Only("limits"), SetCapability |-> Only("capability"), RemoveCapability |-> Only("name"),
   SetThrustTarget |-> Only("target"), RemoveThrustTarget |-> Only("name"), SetBattery |-> commandSpec({"battery"}, {"battery"}),
   SetAuxiliaryLoad |-> Only("load"), RemoveAuxiliaryLoad |-> Only("name"), SetMissionProfile |-> Only("profile"),
   SetMissionSegment |-> Only("segment"), RemoveMissionSegment |-> Only("name"),
   MoveMissionSegment |-> commandSpec({"name", "index"}, {"index"})]
checkShape(c, spec) ==
  Invalid(c.carried \subseteq spec.fields) \cup Missing(spec.fields \ spec.optional \subseteq c.carried)
decodeCommand(c) ==
  CASE c.kind = ""                           -> {"missing"}
    [] c.kind \in DOMAIN commandSpecs        -> checkShape(c, commandSpecs[c.kind]) \cup c.flaw
    [] c.kind \in DOMAIN powerCommandSpecs   -> checkShape(c, powerCommandSpecs[c.kind]) \cup c.flaw
    [] OTHER                                 -> {"invalid"}

(***************************************************************************)
(* Answering.  A quantity is answered in SI units whatever it came in, so  *)
(* settings come back with unit "si".                                      *)
(***************************************************************************)
\* encodeMission: one with no name and no legs is not sent, and reads as the zero mission.
encodeMission(m) ==
  IF missionSupplied(m) THEN m ELSE [name |-> FALSE, basis |-> FALSE, reserve |-> Zero, segments |-> <<>>]
encodeDesign(d) ==
  [design |-> [d EXCEPT !.mission = encodeMission(@)], body |-> "json",
   unread |-> [part \in {"head", "lists", "components", "power"} |-> {}]]
encodeSettings(s) == [s EXCEPT !.unit = "si"]
answered(c, d) ==
  [seq |-> c.seq, op |-> c.op, status |-> 200, design |-> encodeDesign(d), snapshot |-> Snapshot(d),
   settings |-> encodeSettings(c.settings)]
\* The steps every call starts with; then is what it does with what it read.
Read(c, issues, then) ==
  IF c.gone THEN fail(c, "cancelled")
  ELSE IF issues # {} THEN fail(c, worstKind(issues)) ELSE then

\* What the core made of a call: its refusal, or the design that is answered.
outcome(c, r) == IF r.issues # {} THEN fail(c, coreFailureKind(r.issues)) ELSE answered(c, r.v)

Evaluate(c) == Read(c, decodeRequest(c) \cup decodeDesign(c.design), answered(c, c.design.design))
\* Mutant: what was applied before a refused command is answered.
ApplySome(c) ==
  LET kept(d, r) == IF r.issues # {} THEN d ELSE r.v
  IN  answered(c, FoldLeft(LAMBDA d, w : kept(d, apply(d, w.command)), c.design.design, c.commands))
\* Apply: every command in order on a fresh session, or nothing.
applyAll(d, commands) ==
  FoldLeft(LAMBDA acc, w : IF acc.issues # {} THEN acc ELSE apply(acc.v, w.command), Ok(d), commands)
Apply(c) ==
  IF c.gone THEN fail(c, "cancelled")
  ELSE IF c.commands = <<>> THEN fail(c, "invalid")
  ELSE IF Len(c.commands) > Limits.commands THEN fail(c, "too-large")
  ELSE Read(c, decodeRequest(c) \cup decodeDesign(c.design)
                 \cup UNION {decodeCommand(c.commands[i]) : i \in DOMAIN c.commands},
            outcome(c, applyAll(c.design.design, c.commands)))
\* Preview: the answer describes the design the command would make.
PreviewCommand(c) ==
  Read(c, decodeRequest(c) \cup decodeDesign(c.design) \cup decodeCommand(c.commands[1]),
       outcome(c, apply(c.design.design, c.commands[1].command)))
SweepDesign(c) ==
  Read(c, decodeRequest(c) \cup decodeDesign(c.design) \cup c.settings.flaw,
       outcome(c, finishSigned(PlanSweep(c.design.design, c.settings), c.design.design)))
PowerSearch(c) ==
  Read(c, decodeRequest(c) \cup decodeDesign(c.design) \cup c.settings.flaw,
       outcome(c, finishSigned(planPowerSearch(c.design.design, c.settings), c.design.design)))

(***************************************************************************)
(* HTTP: the body is read strictly before the service is called.           *)
(***************************************************************************)
decodeFailure(body) ==
  CASE body = "oversized"                           -> "too-large"
    [] body \in {"wrong-type", "unknown-field"}     -> "invalid"
    [] OTHER                                        -> "malformed"
decodeBody(body) ==
  CASE body = "json"             -> {}
    [] body = "not-json-media"   -> {"invalid"}
    [] body = "two-values"       -> {"malformed"}
    [] OTHER                     -> {decodeFailure(body)}
handle(c) ==
  LET refused == decodeBody(c.body)
  IN  IF refused # {} THEN fail(c, CHOOSE kind \in refused : TRUE)
      ELSE CASE c.op = "evaluate" -> Evaluate(c)
             [] c.op = "apply"    -> Apply(c)
             [] c.op = "preview"  -> PreviewCommand(c)
             [] c.op = "sweep"    -> SweepDesign(c)
             [] c.op = "search"   -> PowerSearch(c)
=============================================================================
