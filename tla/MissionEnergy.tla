---------------------------- MODULE MissionEnergy ---------------------------
(***************************************************************************)
(* The energy a mission needs against the energy the pack allows, and the  *)
(* demand against the component ratings (calculator/mission.go and the     *)
(* feasibility half of electrical.go).  A mission is a sequence of         *)
(* segments; each is timed, powered and then summed.                       *)
(***************************************************************************)
EXTENDS PowerModel

missionSupplied(m) == m.segments # <<>> \/ m.name

(***************************************************************************)
(* Validation: a second answer to one question is as wrong as none.        *)
(***************************************************************************)
segmentTiming(s) ==
  CASE s.timing = "duration" -> Missing(Supplied(s.duration)) \cup Invalid(~Supplied(s.distance))
    [] s.timing = "distance" -> Missing(Supplied(s.distance)) \cup Invalid(~Supplied(s.duration))
    [] OTHER -> {"missing"}
segmentModel(d, s) ==
  (CASE s.model = "polar"   -> Invalid(~Supplied(s.entered)) \cup Missing(d.polar # NoPolar)
                                 \cup Missing(s.eta # Zero \/ efficiencySupplied(d.efficiency))
     [] s.model = "entered" -> Missing(Supplied(s.entered)) \cup Missing(s.basis) \cup Missing(s.evidence > 0)
     [] OTHER -> {"missing"})
    \cup (IF s.eta = Zero THEN {} ELSE Invalid(fraction(s.eta)) \cup Missing(s.basis))
segmentValidate(d, s) ==
  UNION {Missing(s.kind # "unknown"), Missing(s.case # "" /\ Named(d.cases, s.case)),
         Missing(Supplied(s.speed)), angle(s.climb), Missing(Supplied(s.wind)), segmentTiming(s), segmentModel(d, s),
         Missing(s.capability = "" \/ Named(d.capabilities, s.capability))}
missionValidate(d) ==
  LET m == d.mission
  IN  IF ~missionSupplied(m) THEN {}
      ELSE UNION {Missing(m.name), Missing(m.basis), Invalid(m.reserve[1] >= 0 /\ Less(m.reserve, One)),
                  Missing(m.segments # <<>>), Listed(m.segments, LAMBDA s : segmentValidate(d, s))}

(***************************************************************************)
(* One segment.                                                            *)
(***************************************************************************)
powerContext(d, wing) ==
  [mass |-> massReading(d), geometry |-> wing.issues = {},
   area |-> IF wing.issues = {} THEN wing.v.projected.area ELSE None,
   aspect |-> IF wing.issues = {} THEN wing.v.aspect ELSE Zero]

\* chainEfficiency: the segment's own figure before the design's.
chainEfficiency(d, s) ==
  IF s.eta[1] > 0 THEN s.eta ELSE IF d.efficiency.total[1] > 0 THEN d.efficiency.total ELSE Zero

NoPower(status) == [status |-> status, thrust |-> None, propulsion |-> None, electrical |-> None]

\* envelopeCheck: the case's lift envelope and the polar's claimed range.
envelopeCheck(fc, p, cl) ==
  (CASE fc.clScope = "aircraft" -> IF fc.clmax[1] > 0 /\ Less(fc.clmax, cl) THEN {"unsupported"} ELSE {}
     [] fc.clScope = "section"  -> {"unsupported"}
     [] OTHER -> {"missing"})
    \cup (IF covers(p, cl) THEN {} ELSE {"unsupported"})

(***************************************************************************)
(* resolveSegmentBalance: each stage stops before the next reads from it.  *)
(* A flight path that needs no thrust is a glide, not a powered segment,   *)
(* and keeps the thrust it was resolved to.                                *)
(***************************************************************************)
powered(d, s, thrust) ==
  Then(PropulsivePower(thrust, s.speed), LAMBDA useful :
  Then(RequiredElectricalPower(useful, chainEfficiency(d, s), Zero), LAMBDA draw :
    Ok([NoPower("computed") EXCEPT !.thrust = thrust, !.propulsion = draw])))
balance(d, s, fc, ctx) ==
  Then(Together([q |-> DynamicPressure(fc, s.speed), lift |-> SegmentLift(ctx.mass.v, fc.load, s.climb)]), LAMBDA a :
  Then(SegmentLiftCoefficient(a.lift, a.q, ctx.area), LAMBDA cl :
  Then(Provided(envelopeCheck(fc, d.polar, cl), DragCoefficient(ctx.aspect, d.polar, cl)), LAMBDA cd :
  Then(Together([ratio |-> LiftToDrag(cl, cd), drag |-> DragForce(a.q, ctx.area, cd)]), LAMBDA b :
  Then(RequiredThrust(b.drag, ctx.mass.v, s.climb), LAMBDA thrust :
    IF thrust[1] <= 0 THEN Ok([NoPower("invalid") EXCEPT !.thrust = thrust]) ELSE powered(d, s, thrust))))))
balanced(r) == IF r.issues # {} THEN NoPower(statusForError(r.issues)) ELSE r.v
resolveSegmentBalance(d, s, fc, ctx) == balanced(balance(d, s, fc, ctx))

withAuxiliary(p, aux) ==
  IF p.status # "computed" THEN p ELSE [p EXCEPT !.electrical = Add(p.propulsion, aux.continuous)]
enteredSegmentPower(s, aux) ==
  CASE ~Supplied(s.entered) -> NoPower("missing")
    [] s.entered = Wrong    -> NoPower("invalid")
    [] OTHER -> withAuxiliary([NoPower("computed") EXCEPT !.propulsion = s.entered], aux)
polarSegmentPower(d, s, ctx, aux) ==
  IF ~Named(d.cases, s.case) \/ d.polar = NoPolar THEN NoPower("missing")
  ELSE IF ~ctx.geometry THEN NoPower("invalid")
  ELSE IF ctx.mass.status # "computed" THEN NoPower(ctx.mass.status)
  ELSE IF chainEfficiency(d, s) = Zero THEN NoPower("missing")
  ELSE withAuxiliary(resolveSegmentBalance(d, s, Get(d.cases, s.case), ctx), aux)
\* segmentPower: without an auxiliary total no segment has an electrical figure.
segmentPower(d, s, ctx, aux) ==
  IF aux.status # "computed" THEN NoPower(aux.status)
  ELSE CASE s.model = "entered" -> enteredSegmentPower(s, aux)
         [] s.model = "polar"   -> polarSegmentPower(d, s, ctx, aux)
         [] OTHER               -> NoPower("missing")

\* checkAvailability: only a point that speaks for this airspeed answers.
checkAvailability(d, s, power) ==
  LET c == Get(d.capabilities, s.capability)
  IN  IF /\ s.capability # "" /\ Named(d.capabilities, s.capability)
         /\ appliesAt(c, s.speed)
         /\ power.status = "computed" /\ Supplied(power.thrust) /\ Supplied(c.thrust)
      THEN statusFor(Leq(power.thrust, c.thrust)) ELSE "unknown"

\* timeSegment: a duration stands even when no ground is covered; a distance does not.
time(st, t, l) == [status |-> st, duration |-> t, distance |-> l]
timeOver(s, dur) ==
  IF dur.issues # {} THEN time(statusForError(dur.issues), None, s.distance) ELSE time("computed", dur.v, s.distance)
timeAt(s, ground) ==
  IF ground.issues # {} THEN time(statusForError(ground.issues), None, None)
  ELSE CASE s.timing = "duration" -> time("computed", s.duration, SegmentDistance(ground.v, s.duration).v)
         [] s.timing = "distance" -> timeOver(s, SegmentDuration(s.distance, ground.v))
         [] OTHER -> time("missing", None, None)
timeSegment(s) == timeAt(s, GroundSpeed(s.speed, s.climb, s.wind))

segmentOf(d, s, t, power) ==
  LET used == SegmentEnergy(power.electrical, t.duration)
      out(st, e, p, a) == [name |-> s.name, status |-> st, energy |-> e, duration |-> t.duration,
                           distance |-> t.distance, power |-> p, availability |-> a]
  IN  IF t.status # "computed" THEN out(t.status, None, NoPower("missing"), "unknown")
      ELSE IF power.status # "computed"
      THEN out(power.status, None, power, checkAvailability(d, s, power))
      ELSE out(IF used.issues = {} THEN "computed" ELSE statusForError(used.issues),
               used.v, power, checkAvailability(d, s, power))
evaluateSegment(d, s, ctx, aux) == segmentOf(d, s, timeSegment(s), segmentPower(d, s, ctx, aux))

(***************************************************************************)
(* The mission: the sums, stopping at the first that has no usable total,  *)
(* and the reserve taken once from the whole.                              *)
(***************************************************************************)
sumSegments(parts, key) ==
  LET of == [i \in 1 .. Len(parts) |-> parts[i][key]]
      bad == UNION {quantity(of[i]) : i \in DOMAIN of}
  IN  IF bad # {} THEN Fail(bad) ELSE finish({}, SumQ(of))
sumsOf(energy, dur, ground) ==
  LET out(issues, e, t, l) == [status |-> IF issues = {} THEN "computed" ELSE statusForError(issues),
                               energy |-> e, duration |-> t, distance |-> l]
  IN  IF energy.issues # {} THEN out(energy.issues, None, None, None)
      ELSE IF dur.issues # {} THEN out(dur.issues, energy.v, None, None)
      ELSE out(ground.issues, energy.v, dur.v, ground.v)
finishSums(parts) ==
  IF parts = <<>> THEN [status |-> "missing", energy |-> None, duration |-> None, distance |-> None]
  ELSE sumsOf(sumSegments(parts, "energy"), sumSegments(parts, "duration"), sumSegments(parts, "distance"))

compare(sums, complete, budget) ==
  LET known == sums.status = "computed" /\ budget.issues = {}
  IN  [budget |-> IF known THEN budget.v ELSE None,
       verdict |-> IF known /\ complete THEN statusFor(Leq(sums.energy, budget.v)) ELSE "unknown"]
energyBudget(d) == Then(UsableEnergy(d.battery), LAMBDA e : EnergyBudget(e, d.mission.reserve))
\* Mutant: the segments that were computed stand for the mission.
applyEnergyBudgetPartly(d, sums, complete) == compare(sums, TRUE, energyBudget(d))
\* applyEnergyBudget: an incomplete mission is compared with nothing.
applyEnergyBudget(d, sums, complete) == compare(sums, complete, energyBudget(d))

missionOf(parts, computed, sums, judged) ==
  [segments |-> parts, complete |-> parts # <<>> /\ computed = parts, status |-> sums.status, energy |-> sums.energy,
   duration |-> sums.duration, distance |-> sums.distance, budget |-> judged.budget, verdict |-> judged.verdict,
   peak |-> IF computed = <<>> THEN None
            ELSE Most([i \in 1 .. Len(computed) |-> computed[i].power.electrical])]
summed(d, parts, computed, sums) ==
  missionOf(parts, computed, sums, applyEnergyBudget(d, sums, parts # <<>> /\ computed = parts))
Computed(parts) == SelectSeq(parts, LAMBDA p : p.status = "computed")
analysed(d, parts) == summed(d, parts, Computed(parts), finishSums(Computed(parts)))
segmentsOf(d, ctx, aux) ==
  [i \in 1 .. Len(d.mission.segments) |-> evaluateSegment(d, d.mission.segments[i], ctx, aux)]
MissionAnalysis(d, wing) == analysed(d, segmentsOf(d, powerContext(d, wing), ElectricalBudget(d)))

(***************************************************************************)
(* Ratings: continuous and peak demand, pack currents, rotation, voltage.  *)
(***************************************************************************)
\* resolvePeak: the hungriest computed segment with every load at its peak.
resolvePeak(m, aux) ==
  LET computed == Computed(m.segments)
  IN  IF ~Supplied(aux.peak) THEN None
      ELSE Add(Most([i \in 1 .. Len(computed) |-> computed[i].power.propulsion]), aux.peak)
supplyCheck(limit, actual) ==
  IF Supplied(limit) /\ Supplied(actual) THEN statusFor(Leq(actual, limit)) ELSE "unknown"
currentAt(demand, voltage) == IF Supplied(demand) /\ Supplied(voltage) THEN Div(demand, voltage) ELSE None
highest(cs, key) ==
  LET stated == SelectSeq(cs, LAMBDA c : Supplied(c[key]))
  IN  IF stated = <<>> THEN None ELSE Most([i \in 1 .. Len(stated) |-> stated[i][key]])

PowerFeasibility(d, m, aux) ==
  LET peak == resolvePeak(m, aux)
      volt == d.battery.voltage
  IN  IF m.status # "computed" THEN [status |-> m.status, checks |-> <<>>]
      ELSE [status |-> "computed",
            checks |-> << supplyCheck(d.limits.continuous, m.peak), supplyCheck(d.limits.peak, peak),
                          supplyCheck(d.battery.continuous, currentAt(m.peak, volt)),
                          supplyCheck(d.battery.peak, currentAt(peak, volt)),
                          supplyCheck(d.limits.rpm, highest(d.capabilities, "rpm")),
                          supplyCheck(d.limits.voltage, highest(d.capabilities, "voltage")) >>]

\* ThrustChecks: each target at the capability point it names.
thrustCheck(d, t, mass) ==
  LET r == ThrustToWeight(Get(d.capabilities, t.capability).thrust, mass.v)
  IN  IF Named(d.capabilities, t.capability) /\ mass.status = "computed" /\ r.issues = {}
      THEN statusFor(Leq(t.ratio, r.v)) ELSE "unknown"
ThrustChecks(d) == [i \in 1 .. Len(d.targets) |-> thrustCheck(d, d.targets[i], massReading(d))]
=============================================================================
