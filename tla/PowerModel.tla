----------------------------- MODULE PowerModel -----------------------------
(***************************************************************************)
(* Electrical demand, propulsion and energy of a design                    *)
(* (calculator/polar.go, power.go, propulsion.go, electrical.go,           *)
(* mission.go).  A dimensionless figure of Zero is not stated, as in the   *)
(* code.  "basis" is TRUE when the source of the figures is stated, and    *)
(* evidence is its rank: 0 unstated, 1 assumed, 2 simulated, 3 measured.   *)
(* A flight-path angle is named by its kind and carried by its cosine and  *)
(* sine; pi, which no property depends on, is taken as 22/7.               *)
(***************************************************************************)
EXTENDS WingGeometry, MassBalance

Pi == Q(22, 7)
Named(items, n) == \E i \in 1 .. Len(items) : items[i].name = n
\* Where the first item of that name stands.
Place(items, n) == CHOOSE i \in 1 .. Len(items) : items[i].name = n /\ \A j \in 1 .. i - 1 : items[j].name # n
Get(items, n)   == items[Place(items, n)]
Missing(stated) == IF stated THEN {} ELSE {"missing"}
Invalid(right)  == IF right THEN {} ELSE {"invalid"}
\* The issues of every item of a list; of an unnamed one nothing else is said, and
\* among the others no name may come twice.
Listed(items, validate(_)) ==
  LET named == {i \in 1 .. Len(items) : items[i].name # ""}
  IN  UNION {validate(items[i]) : i \in named} \cup Missing(named = 1 .. Len(items))
        \cup Invalid(\A i, j \in named : items[i].name = items[j].name => i = j)
fraction(v)     == v[1] > 0 /\ Leq(v, One)
Most(qs)        ==
  LET most[i \in 0 .. Len(qs)] == IF i = 0 THEN Zero ELSE Larger(most[i - 1], qs[i]) IN most[Len(qs)]

(***************************************************************************)
(* The drag polar.                                                         *)
(***************************************************************************)
NoPolar == [cd0 |-> Zero, oswald |-> Zero, low |-> Zero, high |-> Zero, scope |-> "unknown",
            basis |-> FALSE, evidence |-> 0]
polarValidate(p) ==
  IF p = NoPolar THEN {}
  ELSE (CASE p.scope = "aircraft" -> {} [] p.scope = "section" -> {"unsupported"} [] OTHER -> {"missing"})
         \cup Missing(p.basis) \cup Invalid(p.cd0[1] > 0) \cup Invalid(fraction(p.oswald))
         \cup Missing(Less(p.low, p.high))
covers(p, cl) == Leq(p.low, cl) /\ Leq(cl, p.high)
InducedDragFactor(a, p) ==
  finish(scalar(a) \cup scalar(p.oswald), Div(One, Mul(Pi, Mul(a, p.oswald))))
DragCoefficient(a, p, cl) ==
  Then(InducedDragFactor(a, p), LAMBDA k :
    finish(scalar(p.cd0) \cup (IF covers(p, cl) THEN {} ELSE {"unsupported"}), Add(p.cd0, Mul(k, Sq(cl)))))
DragForce(q, s, cd) == finish(quantity(q) \cup quantity(s) \cup scalar(cd), Mul(Mul(q, s), cd))
LiftToDrag(cl, cd)  == finish(scalar(cl) \cup scalar(cd), Div(cl, cd))

(***************************************************************************)
(* The equations of power.go.                                              *)
(***************************************************************************)
cosOf(a) == CASE a = "level" -> One [] a = "vertical" -> Zero [] OTHER -> Q(4, 5)
sinOf(a) == CASE a = "level" -> Zero [] a = "vertical" -> One [] a = "climb" -> Q(3, 5) [] OTHER -> Q(-3, 5)
angle(a) == IF a = "none" THEN {"missing"} ELSE {}

DynamicPressure(fc, v) == finish(density(fc) \cup quantity(v), Half(Mul(fc.density, Sq(v))))
ElectricalPower(v, i)  == finish(quantity(v) \cup quantity(i), Mul(v, i))
PropulsivePower(t, v)  == finish(quantity(t) \cup quantity(v), Mul(t, v))
RequiredElectricalPower(useful, eta, aux) ==
  finish(quantity(useful) \cup scalar(eta) \cup signedQuantity(aux)
           \cup Invalid(Leq(eta, One)) \cup Invalid(aux[1] >= 0),
         Add(Div(useful, eta), aux))
ThrustToWeight(t, m) == finish(quantity(t) \cup quantity(m), Div(t, Mul(m, StandardGravity)))
PropellerTipClearance(h, d) == finishSigned(quantity(h) \cup quantity(d), Sub(h, Half(d)))
AuxiliaryPackSideDraw(p, eta) ==
  finish(quantity(p) \cup scalar(eta) \cup Invalid(Leq(eta, One)), Div(p, eta))
BatteryEnergyFromChargeAndVoltage(c, v) == finish(quantity(c) \cup quantity(v), Mul(c, v))
BatteryUsableEnergy(e, f) == finish(quantity(e) \cup scalar(f) \cup Invalid(Leq(f, One)), Mul(e, f))
EnergyBudget(e, reserve)  ==
  finish(quantity(e) \cup Invalid(reserve[1] >= 0 /\ Less(reserve, One)), Mul(e, Sub(One, reserve)))
SegmentEnergy(p, t)   == finish(quantity(p) \cup quantity(t), Mul(p, t))
GroundSpeed(v, a, wind) ==
  finishSigned(quantity(v) \cup angle(a) \cup signedQuantity(wind), Add(Mul(v, cosOf(a)), wind))
forward(v) == IF v[1] > 0 THEN {} ELSE {"unsupported"}
SegmentDistance(v, t) == finish(quantity(t) \cup forward(v), Mul(v, t))
SegmentDuration(d, v) == finish(quantity(d) \cup forward(v), Div(d, v))
SegmentLift(m, n, a)  ==
  finish(quantity(m) \cup scalar(n) \cup angle(a) \cup (IF cosOf(a)[1] > 0 THEN {} ELSE {"unsupported"}),
         Mul(Mul(n, m), Mul(StandardGravity, cosOf(a))))
SegmentLiftCoefficient(l, q, s) == finish(quantity(l) \cup quantity(q) \cup quantity(s), Div(l, Mul(q, s)))
RequiredThrust(d, m, a) ==
  finishSigned(quantity(d) \cup quantity(m) \cup angle(a), Add(d, Mul(Mul(m, StandardGravity), sinOf(a))))

(***************************************************************************)
(* Propulsion: capability points, chain efficiency, targets and ratings.   *)
(***************************************************************************)
Size(q) == <<Abs(q[1]), q[2]>>
relativeGap(a, b) == IF Larger(a, b) = Zero THEN Zero ELSE Div(Size(Sub(a, b)), Larger(a, b))

\* appliesAt: a point speaks for the airspeed it was taken at and for no other.
appliesAt(c, speed) ==
  /\ ~(c.kind = "static" /\ speed[1] > 0)
  /\ ~(c.kind = "flight" /\ speed[1] = 0)
  /\ Supplied(c.speed)
  /\ Leq(relativeGap(c.speed, speed), Q(1, 100))

capabilityValidate(c) ==
  UNION {Missing(c.basis), Missing(Supplied(c.speed)), Missing(Supplied(c.density)),
         Missing(Supplied(c.voltage)), Missing(c.throttle[1] > 0 \/ Supplied(c.rpm)),
         Invalid(Leq(Zero, c.throttle) /\ Leq(c.throttle, One)),
         Missing(Supplied(c.thrust)), Missing(Supplied(c.power) \/ Supplied(c.current)),
         Missing(c.evidence > 0), Missing(c.kind # "unknown"),
         Invalid(Supplied(c.speed) => CASE c.kind = "static" -> c.speed[1] = 0
                                        [] c.kind = "flight" -> c.speed[1] > 0 [] OTHER -> TRUE)}
\* ElectricalDraw: voltage times current unless the stated power disagrees with it.
ElectricalDraw(c) ==
  LET vi == ElectricalPower(c.voltage, c.current)
  IN  IF Supplied(c.current) /\ Supplied(c.voltage)
      THEN IF vi.issues = {} /\ Supplied(c.power) /\ Less(Q(1, 50), relativeGap(vi.v, c.power))
           THEN Fail({"invalid"}) ELSE vi
      ELSE IF Supplied(c.power) THEN Ok(c.power) ELSE Fail({"missing"})

efficiencySupplied(e) == e.total # Zero \/ e.basis
efficiencyValidate(e) ==
  IF efficiencySupplied(e)
  THEN Invalid(fraction(e.total)) \cup Missing(e.basis) \cup Missing(e.evidence > 0) ELSE {}
targetValidate(d, t) ==
  Missing(t.basis) \cup Missing(t.priority # "unknown") \cup Invalid(t.ratio[1] > 0)
    \cup Missing(t.capability # "" /\ Named(d.capabilities, t.capability))
Ratings == {"continuous", "peak", "rpm", "voltage", "diameter", "hub"}
limitsValidate(l) ==
  Missing((\E k \in Ratings : Supplied(l[k])) => l.basis)
    \cup Missing(Supplied(l.hub) <=> Supplied(l.diameter))
propulsionValidate(d) ==
  UNION {efficiencyValidate(d.efficiency), Listed(d.capabilities, capabilityValidate),
         Listed(d.targets, LAMBDA t : targetValidate(d, t)), limitsValidate(d.limits)}
PropellerClearance(d) == PropellerTipClearance(d.limits.hub, d.limits.diameter)

(***************************************************************************)
(* The pack.                                                               *)
(***************************************************************************)
NoBattery == [basis |-> FALSE, component |-> "", capacity |-> None, voltage |-> None, energy |-> None,
              continuous |-> None, peak |-> None, usable |-> Zero, mode |-> "unknown", evidence |-> 0]
batteryMode(b) ==
  CASE b.mode = "capacity" -> Missing(Supplied(b.capacity)) \cup Missing(Supplied(b.voltage))
                                \cup Invalid(~Supplied(b.energy))
    [] b.mode = "entered"  -> Missing(Supplied(b.energy))
    [] OTHER -> {"missing"}
batteryLink(d) ==
  IF ~Named(d.components, d.battery.component) THEN {"missing"}
  ELSE Invalid(Get(d.components, d.battery.component).role = "battery")
batteryValidate(d) ==
  LET b == d.battery
  IN  IF b = NoBattery THEN {}
      ELSE UNION {Missing(b.basis), Missing(b.evidence > 0), batteryMode(b), Missing(fraction(b.usable)), batteryLink(d)}
NominalEnergy(b) ==
  CASE b.mode = "capacity" -> BatteryEnergyFromChargeAndVoltage(b.capacity, b.voltage)
    [] b.mode = "entered"  -> IF Supplied(b.energy) THEN Ok(b.energy) ELSE Fail({"missing"})
    [] OTHER -> Fail({"missing"})
UsableEnergy(b) == Then(NominalEnergy(b), LAMBDA e : BatteryUsableEnergy(e, b.usable))

(***************************************************************************)
(* Auxiliary loads and the electrical budget.                              *)
(***************************************************************************)
auxiliaryValidate(a) ==
  UNION {Missing(a.basis), Missing(Supplied(a.continuous)), Missing(a.evidence > 0),
         CASE a.side = "pack" -> Invalid(a.eta = Zero) [] a.side = "load" -> Missing(fraction(a.eta))
           [] OTHER -> {"missing"}}
packSide(a, q) == IF a.side = "load" THEN AuxiliaryPackSideDraw(q, a.eta) ELSE Ok(q)

\* auxiliaryContribution: a load no pack-side draw follows from contributes nothing.
loadOf(a, draw) ==
  LET known == Supplied(a.continuous) /\ a.side # "unknown" /\ draw.issues = {}
  IN  [name |-> a.name, known |-> known, continuous |-> IF known THEN draw.v[1] ELSE None,
       peak |-> IF known THEN draw.v[2] ELSE None]
auxiliaryContribution(a) ==
  loadOf(a, Together(<<packSide(a, a.continuous),
                       IF Supplied(a.peak) THEN packSide(a, a.peak) ELSE Ok(None)>>))

budgetOf(loads) ==
  LET known     == {i \in DOMAIN loads : loads[i].known}
      stated(f) == {i \in known : Supplied(loads[i][f])}
      right(f)  == \A i \in stated(f) : loads[i][f] # Wrong
      total(f)  == SumQ([i \in DOMAIN loads |-> IF i \in stated(f) THEN loads[i][f] ELSE Zero])
      status    == IF known = {} THEN "missing" ELSE IF right("continuous") THEN "computed" ELSE "invalid"
  IN  [loads |-> loads, complete |-> loads # <<>> /\ known = DOMAIN loads, status |-> status,
       continuous |-> IF status = "computed" THEN total("continuous") ELSE None,
       peak |-> IF status = "computed" /\ right("peak") /\ total("peak")[1] > 0 THEN total("peak") ELSE None]
ElectricalBudget(d) == budgetOf([i \in 1 .. Len(d.auxiliary) |-> auxiliaryContribution(d.auxiliary[i])])
=============================================================================
