--------------------------- MODULE DesignSession ----------------------------
(***************************************************************************)
(* An editing session over one design (calculator/session.go and the       *)
(* session half of sweep.go): an undo history of designs, and answers      *)
(* computed on request that may be looked at after the design has moved    *)
(* on.  A scenario is a starting design with the commands and requests a   *)
(* builder may issue; every behaviour stays within one of them.            *)
(*                                                                         *)
(* edits counts the changes of the design and exists for the properties    *)
(* only, as does the design kept in each answer.                           *)
(***************************************************************************)
EXTENDS SweepSearch

CONSTANTS Scenarios  \* records: start, the commands, sweeps, searches and probes
                     \* (driver sets) tried, loads, and the bounds requests,
                     \* revisions and edits

\* A list of named items, none of them named twice.
UniqueNames(items) == \A i, j \in 1 .. Len(items) : items[i].name = items[j].name => i = j
NamedList(items) ==
  /\ items \in Seq(ToSet(items)) /\ \A it \in ToSet(items) : "name" \in DOMAIN it
  /\ UniqueNames(items)
\* A design as the Go type has it, with such lists.
Lists == {"components", "cases", "reqs", "capabilities", "targets", "auxiliary"}
Formed(d) ==
  /\ Lists \cup {"wing", "mission", "massMode"} \subseteq DOMAIN d /\ \A k \in Lists : NamedList(d[k])
  /\ "segments" \in DOMAIN d.mission /\ NamedList(d.mission.segments)
  /\ {"drivers", "dihedral", "dihedralMode"} \subseteq DOMAIN d.wing
  /\ ToSet(SizeKeys) \subseteq DOMAIN d.wing.drivers
\* The figures of a design, and of what a command puts into one, as their Go types
\* have them: a quantity may be absent or of another dimension, a ratio is a number.
Scopes == {"aircraft", "section", "unknown"}
MeasuredItem(it) == "mass" \in DOMAIN it /\ it.mass \in Quantity
MeasuredCase(fc) ==
  /\ {"density", "load", "clmax", "clScope", "clBasis"} \subseteq DOMAIN fc
  /\ fc.density \in Quantity /\ fc.load \in Number /\ fc.clmax \in Number /\ fc.clScope \in Scopes
MeasuredReq(r) ==
  {"min", "max", "margin"} \subseteq DOMAIN r /\ r.min \in Quantity /\ r.max \in Quantity /\ r.margin \in Number
MeasuredDrivers(w) ==
  /\ {"span", "area", "aspect", "root", "taper", "shape"} \subseteq DOMAIN w
  /\ w.span \in Quantity /\ w.area \in Quantity /\ w.root \in Quantity
  /\ w.aspect \in Number /\ w.taper \in Number /\ w.shape \in {"rectangle", "trapezoid", "unknown"}
MeasuredPolar(p)   == p.cd0 \in Number /\ p.oswald \in Number
MeasuredLoad(a)    == a.continuous \in Quantity /\ a.peak \in Quantity /\ a.eta \in Number
MeasuredSegment(s) == s.eta \in Number /\ \A k \in SegmentFields : s[k] \in Quantity
MeasuredPower(d) ==
  /\ {"polar", "efficiency"} \subseteq DOMAIN d /\ MeasuredPolar(d.polar) /\ d.efficiency.total \in Number
  /\ \A a \in ToSet(d.auxiliary) : MeasuredLoad(a)
  /\ \A s \in ToSet(d.mission.segments) : MeasuredSegment(s)
Measured(d) ==
  /\ "mass" \in DOMAIN d /\ d.mass \in Quantity /\ \A it \in ToSet(d.components) : MeasuredItem(it)
  /\ \A fc \in ToSet(d.cases) : MeasuredCase(fc)
  /\ \A r \in ToSet(d.reqs) : MeasuredReq(r)
  /\ MeasuredDrivers(d.wing.drivers) /\ MeasuredPower(d)
\* A search runs between two numbers of one notation each.
MeasuredSearch(s) ==
  /\ s.from \in Quantity /\ s.to \in Quantity /\ s.ceiling \in Quantity
  /\ \A x \in {s.from, s.to} \cap Number : Q(x[1], x[2]) = x
MeasuredCommand(c) ==
  /\ c.op \in {"SetMass", "SetDriver", "PromoteDriver"} => c.v \in Quantity
  /\ c.op \in {"SetTaperRatio", "SetPlanformShape", "SetCaseCLmax"} => c.v \in Number
  /\ c.op = "SetCaseCLmax" => c.scope \in Scopes
  /\ c.op = "SetComponent" => MeasuredItem(c.item)
  /\ c.op = "SetCase" => MeasuredCase(c.item)
  /\ c.op = "SetRequirement" => MeasuredReq(c.item)
  /\ c.op = "SetDragPolar" => MeasuredPolar(c.item)
  /\ c.op = "SetPropulsionEfficiency" => c.item.total \in Number
  /\ c.op = "SetAuxiliaryLoad" => MeasuredLoad(c.item)
  /\ c.op = "SetMissionSegment" => MeasuredSegment(c.item)
\* Scenarios start from such a design, and their commands and probes are of the types there are.
ASSUME ScenariosAssumption ==
  \A s \in Scenarios :
    /\ Formed(s.start) /\ Measured(s.start) /\ \A p \in s.probes : MeasuredDrivers(p)
    /\ \A t \in s.searches : MeasuredSearch(t)
    /\ \A c \in s.commands : /\ c.op \in Ops /\ (c.op \in PutOps => "name" \in DOMAIN c.item)
                             /\ MeasuredCommand(c)

VARIABLES scenario, history, cursor, next, current, currentSweep, answers, edits
vars == <<scenario, history, cursor, next, current, currentSweep, answers, edits>>

Design == history[cursor]

NoRequest == 0

Init ==
  /\ scenario \in Scenarios
  /\ history = <<scenario.start>> /\ cursor = 1
  /\ next = 0 /\ current = NoRequest /\ currentSweep = NoRequest
  /\ answers = {} /\ edits = 0

\* Mutant: the sweep that is being waited for survives an edit.
keepSweep == /\ current' = NoRequest /\ edits' = edits + 1
             /\ UNCHANGED <<next, answers, scenario, currentSweep>>
invalidateRequest == /\ current' = NoRequest /\ currentSweep' = NoRequest
                     /\ edits' = edits + 1
                     /\ UNCHANGED <<next, answers, scenario>>
\* A new revision drops what had been undone.
revise(d) == /\ history' = Append(SubSeq(history, 1, cursor), d)
             /\ cursor' = cursor + 1
             /\ invalidateRequest

\* Session.Do: a refused command changes nothing.
Do(c) ==
  /\ cursor < scenario.revisions /\ edits < scenario.edits
  /\ \E r \in {apply(Design, c)} : r.issues = {} /\ revise(r.v)
Undo == /\ cursor > 1 /\ edits < scenario.edits
        /\ cursor' = cursor - 1 /\ UNCHANGED history /\ invalidateRequest
Redo == /\ cursor < Len(history) /\ edits < scenario.edits
        /\ cursor' = cursor + 1 /\ UNCHANGED history /\ invalidateRequest
\* Session.Load: a saved design, here the one the scenario started from.
Load == /\ cursor < scenario.revisions /\ edits < scenario.edits
        /\ scenario.loads
        /\ revise(scenario.start)

answer(kind, seq, d, s) ==
  [kind |-> kind, seq |-> seq, snapshot |-> Snapshot(d), design |-> d, at |-> edits, settings |-> s]

Evaluate ==
  /\ next < scenario.requests
  /\ next' = next + 1 /\ current' = next'
  /\ answers' = answers \cup {answer("evaluation", next', Design, None)}
  /\ UNCHANGED <<scenario, history, cursor, currentSweep, edits>>
\* Session.Preview: two answers, neither of which the session waits for.
Preview(c) ==
  /\ next + 1 < scenario.requests
  /\ \E r \in {apply(Design, c)} :
         /\ r.issues = {}
         /\ answers' = answers \cup {answer("evaluation", next + 1, Design, None),
                                     answer("evaluation", next + 2, r.v, None)}
  /\ next' = next + 2
  /\ UNCHANGED <<scenario, history, cursor, current, currentSweep, edits>>
Sweep(s) ==
  /\ next < scenario.requests
  /\ PlanSweep(Design, s) = {}
  /\ next' = next + 1 /\ currentSweep' = next'
  /\ answers' = answers \cup {answer("sweep", next', Design, s)}
  /\ UNCHANGED <<scenario, history, cursor, current, edits>>

\* Session.Accept, Freshness and AcceptSweep
Accept(a) == current # NoRequest /\ a.seq = current /\ a.snapshot = Snapshot(Design)
Freshness(a) == IF Accept(a) THEN "computed" ELSE "stale"
AcceptSweep(a, s) ==
  /\ currentSweep # NoRequest /\ a.seq = currentSweep
  /\ a.snapshot = Snapshot(Design) /\ a.settings = s

Next ==
  \/ \E c \in scenario.commands : Do(c)
  \/ \E c \in scenario.commands : Preview(c)
  \/ Undo \/ Redo \/ Load \/ Evaluate
  \/ \E s \in scenario.sweeps : Sweep(s)

Spec == Init /\ [][Next]_vars

-----------------------------------------------------------------------------
\* Every design reached is reached without a request, and before any Undo:
\* what concerns the design alone is evaluated there only.
Settled == cursor = Len(history) /\ next = 0
Wing    == SolveWing(Design.wing)

(***************************************************************************)
(* However a design was reached, no list names an item twice and no edit   *)
(* leaves the wing driven by more than two sizes unless it was loaded with *)
(* more (SetDriver, PromoteDriver and SizeAtStallLimit each release what   *)
(* they replace); and a sound airframe answers for its horizontal tail     *)
(* only when it has one.                                                   *)
(***************************************************************************)
WellFormed ==
  /\ cursor \in 1 .. Len(history)
  /\ \/ Cardinality(suppliedDrivers(Design.wing.drivers)) <= 2
     \/ suppliedDrivers(Design.wing.drivers) \subseteq suppliedDrivers(scenario.start.wing.drivers)
  /\ \A k \in Lists : UniqueNames(Design[k])
  /\ UniqueNames(Design.mission.segments)
  /\ ValidateGeometry(Design) = {} =>
       (HorizontalTailArea(Design).issues = {} <=> Design.configuration = "conventional")

(***************************************************************************)
(* A solved wing is one wing (geometry.go, outline.go, parameters.go,      *)
(* design.go): any two of its four sizes solve back to the same planform,  *)
(* promoting a derived size at its own value for any driver offered keeps  *)
(* it, its chords lie on one taper line, the drawn outlines enclose the    *)
(* reference and the panel area, a limit read off the drivers' own plane   *)
(* never contradicts one read off the solved wing, and its parameters have *)
(* an evaluation order in which nothing precedes what it depends on.       *)
(***************************************************************************)
Pair(p, two) ==
  [span |-> IF "span" \in two THEN p.span ELSE None, area |-> IF "area" \in two THEN p.area ELSE None,
   aspect |-> IF "aspect" \in two THEN p.aspect ELSE Zero, root |-> IF "root" \in two THEN p.root ELSE None,
   taper |-> p.taper, shape |-> "trapezoid"]
Trapezoid(o, height) == Mul(Add(Sub(o[3][1], o[2][1]), Sub(o[4][1], o[1][1])), height)
Topological(order, ps) ==
  /\ ToSet(order) = KeysOf(ps) /\ Len(order) = Len(ps)
  /\ \A i \in 1 .. Len(ps) : \A j \in 1 .. Len(order) :
       order[j] = ps[i].key => ps[i].deps \subseteq {order[m] : m \in 1 .. j - 1}
KeepsWing(w, r) ==
  /\ r.issues = {} /\ SolveWing(r.v.wing) = Ok(w)
  /\ \A i \in 1 .. Len(patterns) : patterns[i] = suppliedDrivers(r.v.wing.drivers) <=> i \in PatternsFor(r.v)
OneTaperLine(w) ==
  /\ chordAt(w.planform, Zero).v = w.planform.root
  /\ chordAt(w.planform, w.planform.ymac).v = w.planform.mac
  /\ chordAt(w.planform, Half(w.planform.span)).v = w.planform.tip
  /\ StationFractionOfMAC(Add(w.macLE, w.planform.mac), w.macLE, w.planform.mac) = Ok(One)
  /\ \A i \in 1 .. Len(Design.cases) :
       LET re == ReynoldsCoverage(Design.cases[i], One, w)
       IN  re.issues = {} => Mul(re.v.root, w.planform.tip) = Mul(re.v.tip, w.planform.root)
LimitsAgree(w) ==
  LET l == [maxSpan |-> Int1(8), minSpan |-> Int1(4), maxArea |-> Int1(16)]
      early == CheckPlanform(l, w.plane, w.planform.span, w.planform.area)
  IN  \A k \in DOMAIN early : early[k] \in {"unknown", CheckLimits(l, w)[k]}
Ordered(ps) == \A order \in {EvaluationOrder(ps)} : order.issues = {} /\ Topological(order.v, ps)
Rebuilds(w) ==
  /\ \A two \in kSubset(2, ToSet(SizeKeys)) : SolvePlanform(Pair(w.planform, two)) = Ok(w.planform)
  /\ \A k \in ToSet(SizeKeys) \ suppliedDrivers(Design.wing.drivers) :
       \A release \in ValidSwaps(Design, k).v : KeepsWing(w, PromoteDriver(Design, k, release, w.planform[k]))
  /\ Trapezoid(Outline(w, "projected"), w.projected.half) = w.projected.area
  /\ Trapezoid(Outline(w, "panel"), w.panel.half) = w.panel.area
  /\ Sq(w.panel.half) = Add(Sq(w.projected.half), Sq(w.tipRise))
  /\ OneTaperLine(w) /\ LimitsAgree(w) /\ Ordered(Parameters(Design.wing, w))
WingRebuilds == Settled => \A wing \in {Wing} : wing.issues = {} => Rebuilds(wing.v)

(***************************************************************************)
(* The sizing bounds and the verdicts are two computations of one          *)
(* inequality (sizing.go, requirements.go).  Where the bound is whole, the *)
(* wing area is at least the lower bound exactly when every required stall *)
(* ceiling of a required case is met, which is exactly when the mass is at *)
(* most the upper bound; and SizeAtStallLimit, where it leaves a wing that *)
(* solves, lands on the bound.  (No case is without a name, which is what  *)
(* tells the check of a case from one of the whole design.)                *)
(***************************************************************************)
CeilingsMet(d) ==
  \A c \in ToSet(Assess(d)) :
    /\ c.case # "" /\ c.direction = "upper" /\ c.priority = "required"
    /\ Get(d.cases, c.case).priority = "required"
    => c.status = "met"
BoundsAgree(wing, mass, lower, upper) ==
  /\ CeilingsMet(Design) <=> Leq(lower.value, wing.v.projected.area)
  /\ CeilingsMet(Design) <=> upper.known /\ ~upper.partial /\ Leq(mass.v, upper.value)
  /\ \A hold \in {"span", "aspect", "root"} : \A r \in {SizeAtStallLimit(Design, hold, "all")} :
       r.issues = {} /\ SolveWing(r.v.wing).issues = {} =>
         CeilingsMet(r.v) /\ SolveWing(r.v.wing).v.projected.area = lower.value
StallBoundsAgree ==
  Settled /\ ~Named(Design.cases, "") =>
   \A wing \in {Wing}, mass \in {massReading(Design)}, lower \in {AreaLowerBound(Design, "all").v} :
    wing.issues = {} /\ mass.status = "computed" /\ lower.known /\ ~lower.partial =>
      BoundsAgree(wing, mass, lower, MassUpperBound(Design, "all").v)

(***************************************************************************)
(* A reported conflict is a real one (sizing.go Conflicts): whatever two   *)
(* sizes the wing is given, some required check is not met.                *)
(***************************************************************************)
ConflictIsReal ==
  Settled /\ Conflicts(Design) # {} =>
    \A p \in scenario.probes : Aggregate(Assess([Design EXCEPT !.wing.drivers = p])) # "met"

(***************************************************************************)
(* What the sizing tells a builder is so: its bounds are where the checks  *)
(* change, and what it reports to conflict does.                           *)
(***************************************************************************)
BoundsAreTrue == StallBoundsAgree /\ ConflictIsReal

(***************************************************************************)
(* A "met" verdict on a design with no issues is earned (requirements.go): *)
(* every required requirement holds in every case it names, on evidence of *)
(* the whole aircraft, its margin taken off, by the lift equation itself   *)
(* and by totals taken from the wing and the segments rather than from the *)
(* checks.                                                                 *)
(***************************************************************************)
Figure(r, mass, wing, segs) ==
  CASE r.subject = "mass"     -> mass.v
    [] r.subject = "area"     -> wing.v.projected.area
    [] r.subject = "span"     -> wing.v.projected.span
    [] r.subject = "aspect"   -> Div(wing.v.projected.span, Div(wing.v.projected.area, wing.v.projected.span))
    [] r.subject = "loading"  -> Div(mass.v, wing.v.projected.area)
    [] r.subject = "energy"   -> SumQ([i \in DOMAIN segs |-> segs[i].energy])
    [] r.subject = "duration" -> SumQ([i \in DOMAIN segs |-> segs[i].duration])
    [] r.subject = "range"    -> SumQ([i \in DOMAIN segs |-> segs[i].distance])
    [] r.subject = "power"    -> Most([i \in DOMAIN segs |-> segs[i].power.electrical])
    [] r.subject = "clearance" -> Sub(Design.limits.hub, Half(Design.limits.diameter))
Answerable(r, mass, wing, m) ==
  /\ r.subject \in {"mass", "loading", "stall"} => mass.status = "computed"
  /\ r.subject \in Subjects \ (PowerSubjects \cup {"mass"}) => wing.issues = {}
  /\ r.subject \in PowerSubjects \ {"clearance"} => m.complete
  /\ r.subject = "clearance" => Supplied(Design.limits.hub) /\ Supplied(Design.limits.diameter)
\* Lift demanded and lift at speed v: twice each, twice gravity being 1.
Demanded(fc, mass)   == Mul(fc.load, mass.v)
LiftAt(fc, v, wing)  == Mul(Mul(fc.density, fc.clmax), Mul(Sq(v), wing.v.projected.area))
Carried(r, fc, mass, wing) ==
  /\ fc.clScope = "aircraft" /\ fc.clBasis /\ fc.densityBasis
  /\ Supplied(r.max) => \A v \in {Mul(r.max, Sub(One, r.margin))} :
                           v[1] >= 0 /\ Leq(Demanded(fc, mass), LiftAt(fc, v, wing))
  /\ Supplied(r.min) => \A v \in {Mul(r.min, Add(One, r.margin))} :
                           v[1] < 0 \/ Leq(LiftAt(fc, v, wing), Demanded(fc, mass))
Holds(r, mass, wing, m) ==
  IF r.subject = "stall"
  THEN \A n \in r.cases : Named(Design.cases, n) /\ Carried(r, Get(Design.cases, n), mass, wing)
  ELSE \A figure \in {Figure(r, mass, wing, m.segments)} :
         /\ Supplied(r.max) => Leq(figure, Mul(r.max, Sub(One, r.margin)))
         /\ Supplied(r.min) => Leq(Mul(r.min, Add(One, r.margin)), figure)
Earned(mass, wing, m) ==
  \A r \in ToSet(Design.reqs) : r.priority = "required" => Answerable(r, mass, wing, m) /\ Holds(r, mass, wing, m)
VerdictIsEarned ==
  Settled /\ Validate(Design) = {} /\ Aggregate(Assess(Design)) = "met" =>
    Earned(massReading(Design), Wing, MissionAnalysis(Design, Wing))

(***************************************************************************)
(* The centre of gravity balances what is counted (mass.go): about it the  *)
(* moments of the counted items cancel, it lies among them, and neither it *)
(* nor the total depends on the order of the list or on the items that are *)
(* left out.                                                               *)
(***************************************************************************)
Counted(items)    == {i \in DOMAIN items : massContribution(items[i]).known}
Counting(items, q(_)) == [i \in 1 .. Len(items) |-> IF i \in Counted(items) THEN q(items[i]) ELSE Zero]
BalancesAt(mp, items) ==
  /\ \A a \in Axes :
       /\ SumQ(Counting(items, LAMBDA it : Mul(it.mass, Sub(it.pos[a], mp.cg[a])))) = Zero
       /\ \E i, j \in Counted(items) : Leq(items[i].pos[a], mp.cg[a]) /\ Leq(mp.cg[a], items[j].pos[a])
  /\ \A back \in {MassProperties(Reverse(items))} : <<back.total, back.cg>> = <<mp.total, mp.cg>>
  /\ mp.complete <=> Counted(items) = DOMAIN items
\* What is stated and yet left out weighs nothing: sumOf would add it all the same (mass.go:326).
NothingExtra(items) ==
  \A i \in DOMAIN items \ Counted(items) : contributes(items[i]) => items[i].mass \in Number /\ items[i].mass[1] = 0
BalancePoint ==
  Settled => \A mp \in {MassProperties(Design.components)} :
    mp.status = "computed" /\ NothingExtra(Design.components) => BalancesAt(mp, Design.components)

(***************************************************************************)
(* The energy of a mission is all there and there once (mission.go): a     *)
(* complete mission costs the sum over its segments of time by drawn       *)
(* power, every load on the pack in each; the same in any order; and it is *)
(* judged against the usable energy less one reserve, never when a segment *)
(* is missing from the sum.                                                *)
(***************************************************************************)
Drawn(s) ==  \* what the listed loads draw at the pack, and what the propulsion does
  Add(SumQ([i \in 1 .. Len(Design.auxiliary) |->
              LET a == Design.auxiliary[i]
              IN  IF ~auxiliaryContribution(a).known THEN Zero
                  ELSE IF a.side = "load" THEN Div(a.continuous, a.eta) ELSE a.continuous]),
      s.power.propulsion)
Accounted(m, usable) ==
  /\ m.status = "computed" /\ m.complete =>
       /\ m.energy = SumQ([i \in DOMAIN m.segments |-> Mul(Drawn(m.segments[i]), m.segments[i].duration)])
       /\ Len(m.segments) = Len(Design.mission.segments)
       /\ usable.issues = {} =>
            (m.verdict = "met" <=> Leq(m.energy, Sub(usable.v, Mul(usable.v, Design.mission.reserve))))
  /\ m.verdict # "unknown" => \A i \in DOMAIN m.segments : m.segments[i].status = "computed"
SameTotals(m, back) ==
  <<m.energy, m.duration, m.distance, m.peak, m.verdict>>
    = <<back.energy, back.duration, back.distance, back.peak, back.verdict>>
EnergyAccounted ==
  Settled => \A m \in {MissionAnalysis(Design, Wing)} :
    /\ Accounted(m, UsableEnergy(Design.battery))
    /\ SameTotals(m, MissionAnalysis([Design EXCEPT !.mission.segments = Reverse(@)], Wing))

(***************************************************************************)
(* The totals of the inventory and of the mission are whole: all that is   *)
(* counted is in them once, in whatever order it is listed.                *)
(***************************************************************************)
TotalsAreWhole == BalancePoint /\ EnergyAccounted

(***************************************************************************)
(* The intervals of a power search are its feasible candidates, all of     *)
(* them and no other, in runs that cannot be extended (powersearch.go);    *)
(* and a feasible candidate, adopted by the command it stands for, is      *)
(* within the ceiling with nothing required left unmet.                    *)
(***************************************************************************)
RunsOf(r) ==
  LET at(v) == CHOOSE n \in DOMAIN r.candidates : r.candidates[n].driver = v
  IN  [i \in DOMAIN r.intervals |-> at(r.intervals[i].first) .. at(r.intervals[i].last)]
WholeRuns(r, runs, last) ==
  /\ UNION {runs[i] : i \in DOMAIN runs} = {n \in DOMAIN r.candidates : r.candidates[n].feasible}
  /\ \A i, j \in DOMAIN runs : i < j => \A m \in runs[i], n \in runs[j] : m + 1 < n
  /\ \A i \in DOMAIN runs :
       /\ r.intervals[i].openLow <=> 1 \in runs[i]
       /\ r.intervals[i].openHigh <=> last \in runs[i]
Adopting(s, v) == IF s.driver = "mass" THEN [op |-> "SetMass", v |-> v, basis |-> Design.massBasis]
                  ELSE [op |-> "SetDriver", key |-> s.driver, v |-> v]
Within(e, ceiling) ==
  /\ e.mission.status = "computed" /\ e.mission.complete /\ e.aggregate \in {"none", "met"}
  /\ \A i \in DOMAIN e.mission.segments : Leq(e.mission.segments[i].power.electrical, ceiling)
SearchIntervals ==
  Settled => \A s \in scenario.searches : planPowerSearch(Design, s) = {} =>
    \A r \in {PowerSizingSearch(Design, s)} :
      /\ WholeRuns(r, RunsOf(r), s.samples)
      /\ \A c \in ToSet(r.candidates) : \A adopted \in {apply(Design, Adopting(s, c.driver))} :
           c.feasible <=> adopted.issues = {} /\ Within(EvaluateDesign(adopted.v), s.ceiling)

(***************************************************************************)
(* An accepted answer describes the design on the bench (session.go        *)
(* Accept, AcceptSweep): it was asked for since the last edit, undo, redo  *)
(* or load, so that a late answer is stale even when an undo restores what *)
(* it was computed for; the answer to the last question is not lost.       *)
(***************************************************************************)
AcceptedIsCurrent ==
  /\ \A a \in answers :
       /\ Accept(a) => a.at = edits /\ a.design = Design /\ a.kind = "evaluation"
       /\ \A s \in scenario.sweeps : AcceptSweep(a, s) => a.at = edits /\ a.design = Design /\ a.kind = "sweep"
  /\ current # NoRequest => \E a \in answers : Accept(a)
  /\ currentSweep # NoRequest => \E a \in answers, s \in scenario.sweeps : AcceptSweep(a, s)

(***************************************************************************)
(* A preview tells the whole change (session.go diffChecks): the checks    *)
(* before, with the listed changes made, are the checks after.             *)
(***************************************************************************)
Verdicts(cs) == {<<cs[i].name, cs[i].case, cs[i].direction, cs[i].status>> : i \in DOMAIN cs}
Tells(diff, before, after) ==
  Verdicts(after) = {v \in Verdicts(before) : \A x \in diff : x.key # <<v[1], v[2], v[3]>>}
                      \cup {<<x.key[1], x.key[2], x.key[3], x.to>> : x \in {y \in diff : ~y.vanished}}
PreviewIsExact ==
  Settled => \A before \in {Assess(Design)}, c \in scenario.commands : \A r \in {apply(Design, c)} :
    r.issues = {} => \A after \in {Assess(r.v)} : Tells(diffChecks(before, after), before, after)
=============================================================================
