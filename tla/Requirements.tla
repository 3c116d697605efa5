---------------------------- MODULE Requirements ----------------------------
(***************************************************************************)
(* What a design is required to do and how its verdict is reached          *)
(* (calculator/requirements.go), and the bounds the stall ceilings put on  *)
(* wing area and mass (calculator/sizing.go).  A requirement bounds one    *)
(* subject from below, above or both; its margin tightens the bound.       *)
(* Stall speeds are compared by their squares.  The name of the design,    *)
(* which no command edits, is taken to be stated.                          *)
(***************************************************************************)
EXTENDS MissionEnergy

PowerSubjects == {"power", "energy", "duration", "range", "clearance"}
Subjects == {"stall", "area", "span", "mass", "aspect", "loading"} \cup PowerSubjects
PerCase(subject) == subject = "stall"

effectiveMaximum(r) == IF Supplied(r.max) THEN Mul(r.max, Sub(One, r.margin)) ELSE None
effectiveMinimum(r) == IF Supplied(r.min) THEN Mul(r.min, Add(One, r.margin)) ELSE None
appliesTo(r, name)  == name \in r.cases

(***************************************************************************)
(* Readings.                                                               *)
(***************************************************************************)
\* readPowerSubject: a mission that covers only some segments has no totals.
readPowerSubject(d, subject, mission) ==
  IF subject = "clearance"
  THEN IF Supplied(d.limits.diameter) /\ Supplied(d.limits.hub)
       THEN reading(PropellerClearance(d)) ELSE Reading("missing", None)
  ELSE IF mission.status # "computed" THEN Reading(mission.status, None)
  ELSE IF ~mission.complete THEN Reading("missing", None)
  ELSE Reading("computed", CASE subject = "power" -> mission.peak [] subject = "energy" -> mission.energy
                             [] subject = "duration" -> mission.duration [] subject = "range" -> mission.distance)
readFrom(mass, r) == IF mass.status # "computed" THEN mass ELSE reading(r)
readGeometry(subject, fc, wing, mass) ==
  IF wing.issues # {} THEN Reading(statusForError(wing.issues), None)
  ELSE CASE subject = "span"    -> Reading("computed", wing.v.projected.span)
         [] subject = "area"    -> Reading("computed", wing.v.projected.area)
         [] subject = "aspect"  -> Reading("computed", wing.v.aspect)
         [] subject = "loading" -> readFrom(mass, WingLoadingMass(mass.v, wing.v.projected.area))
         [] subject = "stall"   -> readFrom(mass, StallSpeed2(fc, mass.v, wing.v.projected.area))
         [] OTHER -> Reading("missing", None)
read(d, subject, fc, wing, mission) ==
  IF subject = "mass" THEN massReading(d)
  ELSE IF subject \in PowerSubjects THEN readPowerSubject(d, subject, mission)
  ELSE readGeometry(subject, fc, wing, massReading(d))

(***************************************************************************)
(* Checks, in requirement order, then case order, lower before upper.      *)
(***************************************************************************)
\* v is the figure, or the square of one that is not negative.
atLeast(subject, v, bound) == IF PerCase(subject) THEN bound[1] < 0 \/ Leq(Sq(bound), v) ELSE Leq(bound, v)
atMost(subject, v, bound)  == IF PerCase(subject) THEN bound[1] >= 0 /\ Leq(v, Sq(bound)) ELSE Leq(v, bound)
buildCheck(r, name, value, bound, direction) ==
  [name |-> r.name, case |-> name, direction |-> direction, priority |-> r.priority,
   result |-> value.status,
   status |-> IF value.status # "computed" THEN "unknown"
              ELSE statusFor(IF direction = "lower" THEN atLeast(r.subject, value.v, bound)
                             ELSE atMost(r.subject, value.v, bound))]
checkBounds(r, name, value) ==
  (IF Supplied(r.min) THEN <<buildCheck(r, name, value, effectiveMinimum(r), "lower")>> ELSE <<>>)
    \o (IF Supplied(r.max) THEN <<buildCheck(r, name, value, effectiveMaximum(r), "upper")>> ELSE <<>>)
checksOf(d, r, wing, mission) ==
  LET ofCase(fc) == checkBounds(r, fc.name, read(d, r.subject, fc, wing, mission))
  IN  IF PerCase(r.subject)
      THEN FlattenSeq([i \in 1 .. Len(d.cases) |->
             IF appliesTo(r, d.cases[i].name) THEN ofCase(d.cases[i]) ELSE <<>>])
      ELSE checkBounds(r, "", read(d, r.subject, None, wing, mission))
checksWith(d, wing, mission) == FlattenSeq([i \in 1 .. Len(d.reqs) |-> checksOf(d, d.reqs[i], wing, mission)])
assessWing(d, wing) == checksWith(d, wing, MissionAnalysis(d, wing))
Assess(d) == assessWing(d, SolveWing(d.wing))

\* Mutant: what could not be evaluated does not stand in the way.
AggregateKnown(checks) ==
  LET verdicts == {checks[i].status : i \in {j \in DOMAIN checks : checks[j].priority = "required"}}
  IN  IF verdicts = {} THEN "none" ELSE IF "unmet" \in verdicts THEN "unmet" ELSE "met"
\* Aggregate: required checks only; none means no claim.
Aggregate(checks) ==
  LET verdicts == {checks[i].status : i \in {j \in DOMAIN checks : checks[j].priority = "required"}}
  IN  IF verdicts = {} THEN "none"
      ELSE IF "unmet" \in verdicts THEN "unmet" ELSE IF "unknown" \in verdicts THEN "unknown" ELSE "met"

(***************************************************************************)
(* Validation of the whole definition.                                     *)
(***************************************************************************)
requirementBounds(r) ==
  UNION {Missing(Supplied(r.min) \/ Supplied(r.max)), Invalid(r.min # Wrong /\ r.max # Wrong),
         IF r.margin[1] < 0 \/ Leq(One, r.margin) THEN {"invalid"}
         ELSE Invalid(Supplied(r.min) /\ Supplied(r.max) =>
                        Leq(effectiveMinimum(r), effectiveMaximum(r)))}
requirementCases(d, r) ==
  IF ~PerCase(r.subject) THEN Invalid(r.cases = {})
  ELSE Missing(r.cases # {} /\ \A n \in r.cases : Named(d.cases, n))
requirementValidate(d, r) ==
  IF r.subject = "unknown" THEN {"missing"}
  ELSE UNION {Missing(r.name # ""), Missing(r.priority # "unknown"), Missing(r.basis), requirementBounds(r),
              requirementCases(d, r)}
validateMass(d) ==
  IF d.massMode = "components" THEN {} ELSE Missing(Supplied(d.mass)) \cup Missing(d.massBasis)
validateComponents(d) ==
  Listed(d.components, LAMBDA it : Missing(it.role # "unknown") \cup Missing(Supplied(it.mass) => it.basis))
    \cup Missing(d.massMode = "components" => d.components # <<>>)
validateCases(d) == Listed(d.cases, LAMBDA fc : Missing(fc.priority # "unknown"))
validateAuxiliary(d) ==
  Listed(d.auxiliary, LAMBDA a : auxiliaryValidate(a)
                                   \cup Missing(a.component = "" \/ Named(d.components, a.component)))
Validate(d) ==
  UNION {validateMass(d), validateComponents(d), validateCases(d), polarValidate(d.polar),
         propulsionValidate(d), batteryValidate(d), validateAuxiliary(d), missionValidate(d),
         UNION {requirementValidate(d, d.reqs[i]) : i \in 1 .. Len(d.reqs)}}

(***************************************************************************)
(* Sizing bounds.  A scope is "all" required cases or one case by name.    *)
(***************************************************************************)
scopeCovers(scope, fc) == IF scope = "all" THEN fc.priority = "required" ELSE fc.name = scope
scopeValidate(d, scope) == Missing(scope = "all" \/ Named(d.cases, scope))
stallCeilings(d, scope) ==
  LET binds(r, fc) == /\ scopeCovers(scope, fc) /\ PerCase(r.subject) /\ appliesTo(r, fc.name)
                      /\ Supplied(r.max) /\ (scope = "all" => r.priority = "required")
      ceilings(r, fc) == IF binds(r, fc) THEN <<[case |-> fc, max |-> effectiveMaximum(r)]>> ELSE <<>>
  IN  FlattenSeq([i \in 1 .. Len(d.cases) |->
        FlattenSeq([j \in 1 .. Len(d.reqs) |-> ceilings(d.reqs[j], d.cases[i])])])

contribute(source, r) == [source |-> source, known |-> r.issues = {}, value |-> r.v]
\* The tightest of the known values, and intersect: an unknown contribution leaves the bound partial.
tightest(parts, direction) ==
  LET better(a, b) == IF direction = "lower" THEN Less(b, a) ELSE Less(a, b)
      best[i \in 0 .. Len(parts)] ==
        IF i = 0 THEN None
        ELSE IF parts[i].known /\ (~Supplied(best[i - 1]) \/ better(parts[i].value, best[i - 1]))
        THEN parts[i].value ELSE best[i - 1]
  IN  best[Len(parts)]
intersect(parts, direction) ==
  LET best == tightest(parts, direction)
      tied == SelectSeq(parts, LAMBDA p : p.known /\ p.value = best)
  IN  [known |-> Supplied(best), value |-> best, partial |-> \E i \in 1 .. Len(parts) : ~parts[i].known,
       controlling |-> [i \in 1 .. Len(tied) |-> tied[i].source]]

areaParts(d, ceilings) ==
  [i \in 1 .. Len(ceilings) |->
     contribute(ceilings[i].case.name, MinimumWingArea(ceilings[i].case, massReading(d).v, ceilings[i].max))]
AreaLowerBound(d, scope) ==
  Provided(scopeValidate(d, scope), Ok(intersect(areaParts(d, stallCeilings(d, scope)), "lower")))
massParts(ceilings, area) ==
  [i \in 1 .. Len(ceilings) |->
     contribute(ceilings[i].case.name, MaximumMass(ceilings[i].case, area, ceilings[i].max))]
massCeiling(ceilings, wing) ==
  IF wing.issues # {} THEN [intersect(<<>>, "upper") EXCEPT !.partial = ceilings # <<>>]
  ELSE intersect(massParts(ceilings, wing.v.projected.area), "upper")
MassUpperBound(d, scope) ==
  Provided(scopeValidate(d, scope), Ok(massCeiling(stallCeilings(d, scope), SolveWing(d.wing))))

\* requiredBound: the first required requirement on the subject that states the side.
effectiveSide(r, direction) == IF direction = "lower" THEN effectiveMinimum(r) ELSE effectiveMaximum(r)
requiredOn(d, subject, direction) ==
  LET states(r) == r.priority = "required" /\ r.subject = subject /\ Supplied(effectiveSide(r, direction))
  IN  FlattenSeq([i \in 1 .. Len(d.reqs) |-> IF states(d.reqs[i]) THEN <<d.reqs[i]>> ELSE <<>>])
requiredBound(d, subject, direction) ==
  LET held == requiredOn(d, subject, direction)
  IN  IF held = <<>> THEN [known |-> FALSE, value |-> None, from |-> ""]
      ELSE [known |-> TRUE, value |-> effectiveSide(held[1], direction), from |-> held[1].name]
spanAndAspect(span, aspect) ==
  IF span.known /\ aspect.known /\ aspect.value[1] > 0
  THEN <<contribute(span.from, Ok(Div(Sq(span.value), aspect.value)))>> ELSE <<>>
AreaUpperBound(d) ==
  LET direct == requiredOn(d, "area", "upper")
  IN  intersect([i \in 1 .. Len(direct) |-> contribute(direct[i].name, Ok(effectiveMaximum(direct[i])))]
                  \o spanAndAspect(requiredBound(d, "span", "upper"), requiredBound(d, "aspect", "lower")),
                "upper")

\* addMassLowerContribution and MassInterval
massFloors(d, wing) ==
  LET held == SelectSeq(d.reqs, LAMBDA r : r.priority = "required" /\ r.subject \in {"mass", "loading"} /\ Supplied(r.min))
  IN  [i \in 1 .. Len(held) |->
         contribute(held[i].name,
           IF held[i].subject = "mass" THEN Ok(effectiveMinimum(held[i]))
           ELSE IF wing.issues # {} THEN Fail(wing.issues)
           ELSE Ok(Mul(effectiveMinimum(held[i]), wing.v.projected.area)))]
massCeilings(d) ==
  LET held == SelectSeq(d.reqs, LAMBDA r : r.priority = "required" /\ r.subject = "mass" /\ Supplied(r.max))
  IN  [i \in 1 .. Len(held) |-> contribute(held[i].name, Ok(effectiveMaximum(held[i])))]
between(lower, upper) ==
  [lower |-> lower, upper |-> upper, complete |-> lower.known /\ upper.known,
   empty |-> lower.known /\ upper.known /\ Less(upper.value, lower.value)]
massBetween(d, wing, stall) ==
  between(intersect(massFloors(d, wing), "lower"),
          [intersect((IF wing.issues # {} THEN <<>> ELSE massParts(stall, wing.v.projected.area)) \o massCeilings(d),
                     "upper") EXCEPT !.partial = @ \/ (wing.issues # {} /\ stall # <<>>)])
MassInterval(d, scope) ==
  Provided(scopeValidate(d, scope), Ok(massBetween(d, SolveWing(d.wing), stallCeilings(d, scope))))

\* Conflicts: the area two groups of required constraints leave nothing of.
crossed(lower, upper) ==
  IF lower.known /\ upper.known /\ Less(upper.value, lower.value)
  THEN {ToSet(lower.controlling) \cup ToSet(upper.controlling)} ELSE {}
Conflicts(d) == crossed(AreaLowerBound(d, "all").v, AreaUpperBound(d))
=============================================================================
