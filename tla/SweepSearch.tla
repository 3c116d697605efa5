---------------------------- MODULE SweepSearch -----------------------------
(***************************************************************************)
(* Evaluating one design, sampling a driver across a range, and searching  *)
(* that range for the candidates inside a power ceiling                    *)
(* (calculator/session.go Evaluate, sweep.go, powersearch.go, snapshot.go).*)
(* Lists whose order the code sorts away in a snapshot are sets in it.     *)
(***************************************************************************)
EXTENDS WingParameters

CONSTANT MaxSweepSamples
ASSUME MaxSweepSamplesAssumption == MaxSweepSamples \in Nat \ {0, 1}
MinSweepSamples == 2

\* Snapshot: a canonical fingerprint of the inputs.  Segments keep their order.
Snapshot(d) ==
  [d EXCEPT !.components = ToSet(@), !.capabilities = ToSet(@), !.targets = ToSet(@),
            !.auxiliary = ToSet(@), !.cases = ToSet(@), !.reqs = ToSet(@)]

\* Design.Evaluate: everything a design is answered with.
evaluationOf(d, wing, mission, aux, checks) ==
  [snapshot |-> Snapshot(d), definition |-> Validate(d), airframe |-> ValidateGeometry(d),
   geometry |-> reading(wing).status, checks |-> checks, aggregate |-> Aggregate(checks),
   areaLower |-> AreaLowerBound(d, "all"), areaUpper |-> AreaUpperBound(d), mass |-> MassInterval(d, "all"),
   properties |-> MassProperties(d.components), loads |-> CaseLoads(d), electrical |-> aux, mission |-> mission,
   feasibility |-> PowerFeasibility(d, mission, aux), thrust |-> ThrustChecks(d), conflicts |-> Conflicts(d)]
evaluateWing(d, wing) == evaluationOf(d, wing, MissionAnalysis(d, wing), ElectricalBudget(d), Assess(d))
EvaluateDesign(d)     == evaluateWing(d, SolveWing(d.wing))

\* Mutant: only the checks there are after the edit are looked at.
diffRemaining(before, after) ==
  LET key(c) == <<c.name, c.case, c.direction>>
      was(k) == {before[i].status : i \in {j \in DOMAIN before : key(before[j]) = k}}
  IN  {[key |-> key(after[i]), from |-> "unknown", to |-> after[i].status, appeared |-> was(key(after[i])) = {},
        vanished |-> FALSE] : i \in {j \in DOMAIN after : was(key(after[j])) # {after[j].status}}}
\* diffChecks: what an edit changes, by requirement, case and direction.
diffChecks(before, after) ==
  LET key(c)  == <<c.name, c.case, c.direction>>
      by(cs)  == [k \in {key(cs[i]) : i \in DOMAIN cs} |->
                    cs[CHOOSE i \in DOMAIN cs : key(cs[i]) = k /\ \A j \in DOMAIN cs : j > i => key(cs[j]) # k].status]
      was     == by(before)
      now     == by(after)
  IN  {[key |-> k, from |-> IF k \in DOMAIN was THEN was[k] ELSE "unknown",
                   to |-> IF k \in DOMAIN now THEN now[k] ELSE "unknown",
                   appeared |-> k \notin DOMAIN was, vanished |-> k \notin DOMAIN now] :
         k \in {k \in DOMAIN was \cup DOMAIN now :
                  ~(k \in DOMAIN was /\ k \in DOMAIN now /\ was[k] = now[k])}}

(***************************************************************************)
(* A sweep's plan.  Settings are [driver, from, to, samples, subject,      *)
(* case]; a refused plan samples nothing.                                  *)
(***************************************************************************)
resolveSweptDriver(d, key) ==
  IF key = "mass" THEN Invalid(d.massMode # "components")
  ELSE IF key \notin ToSet(SizeKeys) THEN {"unsupported"} ELSE Invalid(key \in DriverKeys(d))
validateRange(s) ==
  quantity(s.from) \cup quantity(s.to) \cup Invalid(Supplied(s.from) => s.from # s.to)
    \cup Invalid(s.samples \in MinSweepSamples .. MaxSweepSamples)
validateOutput(d, s) ==
  CASE s.subject = "unknown"  -> {"missing"}
    [] ~PerCase(s.subject)    -> Invalid(s.case = "")
    [] OTHER                  -> Missing(Named(d.cases, s.case))
PlanSweep(d, s) ==
  UNION {resolveSweptDriver(d, s.driver), solvePath(d.wing.drivers).issues, validateRange(s), validateOutput(d, s)}

\* DriverValue: the ends exactly, and equal steps between them; n counts from 0.
DriverValue(s, n) ==
  IF n <= 0 THEN s.from ELSE IF n >= s.samples - 1 THEN s.to
  ELSE Add(s.from, Mul(Sub(s.to, s.from), Q(n, s.samples - 1)))
Candidate(d, s, n) ==
  IF s.driver = "mass" THEN SetMass(d, DriverValue(s, n), d.massBasis)
  ELSE SetDriver(d, s.driver, DriverValue(s, n))
heldDuringSweep(d, key) ==
  (IF key # "mass" /\ d.massMode # "components" THEN {"mass"} ELSE {})
    \cup (DriverKeys(d) \ {key}) \cup {"taper", "dihedral"}

outputOf(d, s, wing) ==
  read(d, s.subject, IF PerCase(s.subject) THEN Get(d.cases, s.case) ELSE None, wing, MissionAnalysis(d, wing))
sampled(value, r, verdict) == [driver |-> value, status |-> r.status, v |-> r.v, feasibility |-> verdict]
sampleOf(c, s, value) ==
  IF c.issues # {} THEN sampled(value, Reading(statusForError(c.issues), None), "unknown")
  ELSE sampled(value, outputOf(c.v, s, SolveWing(c.v.wing)), Aggregate(Assess(c.v)))
Sample(d, s, n) == sampleOf(Candidate(d, s, n), s, DriverValue(s, n))
\* invariantOutput: two computed samples at least, and all of them equal.
invariantOutput(samples) ==
  LET computed == SelectSeq(samples, LAMBDA x : x.status = "computed")
  IN  Len(computed) >= 2 /\ Cardinality({computed[i].v : i \in DOMAIN computed}) = 1
\* alsoChanged: the parameters the first and the last candidate disagree on.
parametersAt(d, s, n) ==
  Then(Candidate(d, s, n), LAMBDA c : Then(SolveWing(c.wing), LAMBDA w : Ok(Parameters(c.wing, w))))
differing(first, last) ==
  IF first.issues \cup last.issues # {} THEN {}
  ELSE {p.key : p \in {p \in ToSet(first.v) : \E q \in ToSet(last.v) : q.key = p.key /\ q.value # p.value}}
alsoChanged(d, s) == differing(parametersAt(d, s, 0), parametersAt(d, s, s.samples - 1))
sweepBounds(d, s) ==
  {[name |-> d.reqs[x[1]].name, direction |-> x[2]] : x \in
     {x \in (1 .. Len(d.reqs)) \X {"lower", "upper"} :
        /\ d.reqs[x[1]].subject = s.subject
        /\ PerCase(s.subject) => appliesTo(d.reqs[x[1]], s.case)
        /\ Supplied(IF x[2] = "lower" THEN d.reqs[x[1]].min ELSE d.reqs[x[1]].max)}}
\* RunUntil, not stopped.
curve(d, s, samples) ==
  [settings |-> s, snapshot |-> Snapshot(d), samples |-> samples, held |-> heldDuringSweep(d, s.driver),
   bounds |-> sweepBounds(d, s), invariant |-> invariantOutput(samples), changed |-> alsoChanged(d, s)]
Run(d, s) == curve(d, s, [n \in 1 .. s.samples |-> Sample(d, s, n - 1)])

(***************************************************************************)
(* The bounded power search.  Settings are [driver, from, to, samples,     *)
(* ceiling].                                                               *)
(***************************************************************************)
planPowerSearch(d, s) ==
  LET first == (IF ~Supplied(s.ceiling) THEN {"missing"} ELSE Invalid(s.ceiling # Wrong))
                 \cup Missing(d.mission.segments # <<>>)
  IN  IF first # {} THEN first
      ELSE PlanSweep(d, [driver |-> s.driver, from |-> s.from, to |-> s.to, samples |-> s.samples,
                         subject |-> "power", case |-> ""])
within(demand, ceiling) == demand.status = "computed" /\ Leq(demand.v, ceiling)
feasibleWithin(d, ceiling) ==
  /\ within(readPowerSubject(d, "power", MissionAnalysis(d, SolveWing(d.wing))), ceiling)
  /\ Aggregate(Assess(d)) \in {"none", "met"}
candidateOf(c, s, value) == [driver |-> value, feasible |-> c.issues = {} /\ feasibleWithin(c.v, s.ceiling)]
powerCandidate(d, s, n)  == candidateOf(Candidate(d, s, n), s, DriverValue(s, n))

interval(cands, first, last) ==
  [first |-> cands[first].driver, last |-> cands[last].driver,
   openLow |-> first = 1, openHigh |-> last = Len(cands),
   belowFirst |-> IF first = 1 THEN None ELSE cands[first - 1].driver,
   aboveLast |-> IF last = Len(cands) THEN None ELSE cands[last + 1].driver]
\* Whether candidate n opens a run, carries it on or ends it.
scanned(acc, cands, n) ==
  IF cands[n].feasible THEN [acc EXCEPT !.start = IF @ = 0 THEN n ELSE @]
  ELSE IF acc.start = 0 THEN acc
  ELSE [start |-> 0, found |-> Append(acc.found, interval(cands, acc.start, n - 1))]
scanOf(cands) ==
  LET scan[n \in 0 .. Len(cands)] ==
        IF n = 0 THEN [start |-> 0, found |-> <<>>] ELSE scanned(scan[n - 1], cands, n)
  IN  scan[Len(cands)]
\* Mutant: the run still open at the end of the range is not closed.
collectClosed(cands) == scanOf(cands).found
\* collectIntervals: one scan, the run that is open at n carried in start.
collectIntervals(cands) ==
  LET scan == scanOf(cands)
  IN  IF scan.start = 0 THEN scan.found ELSE Append(scan.found, interval(cands, scan.start, Len(cands)))
found(cands) ==
  LET feasible == {n \in DOMAIN cands : cands[n].feasible}
  IN  [candidates |-> cands, intervals |-> collectIntervals(cands),
       found |-> feasible # {}, unique |-> Cardinality(feasible) = 1]
PowerSizingSearch(d, s) == found([n \in 1 .. s.samples |-> powerCandidate(d, s, n - 1)])
=============================================================================
