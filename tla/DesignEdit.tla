----------------------------- MODULE DesignEdit -----------------------------
(***************************************************************************)
(* The edits of a design (calculator/commands.go, power_commands.go and    *)
(* the driver half of design.go).  A command is a record whose op names    *)
(* the Go type; applying it gives the next design or the kinds of issues   *)
(* it was refused with.  A list of named items keeps its order: setting an *)
(* existing name replaces it in place, a new name goes to the end.         *)
(***************************************************************************)
EXTENDS Requirements

\* Mutant: an existing name is not looked for.
PutAgain(items, item) == Append(items, item)
Put(items, item) ==
  IF Named(items, item.name) THEN [items EXCEPT ![Place(items, item.name)] = item] ELSE Append(items, item)
Without(items, n)        == RemoveAt(items, Place(items, n))
Update(items, n, key, v) == [items EXCEPT ![Place(items, n)][key] = v]
\* An edit of d when nothing is wrong with it.
Edit(issues, d) == IF issues # {} THEN Fail(issues) ELSE Ok(d)
Removal(d, key, n) == Edit(Missing(Named(d[key], n)), [d EXCEPT ![key] = Without(@, n)])

(***************************************************************************)
(* Size drivers.  A key is one of SizeKeys whatever plane it is named in.  *)
(***************************************************************************)
DriverKeys(d) == suppliedDrivers(d.wing.drivers)
Unset(key)    == IF key = "aspect" THEN Zero ELSE None
setSizeDriver(d, key, v) == [d EXCEPT !.wing.drivers[key] = IF v = None THEN Unset(key) ELSE v]
checkDriverValue(v) == Invalid(v # None /\ v[1] > 0)

\* ValidSwaps: the held drivers whose release leaves a supported solve path.
Swaps(d, promote) ==
  {k \in DriverKeys(d) :
     solvePath(setSizeDriver(setSizeDriver(d, k, None), promote, One).wing.drivers).issues = {}}
Offer(keys) == IF keys = {} THEN Fail({"unsupported"}) ELSE Ok(keys)
ValidSwaps(d, promote) ==
  IF promote \notin ToSet(SizeKeys) THEN Fail({"unsupported"})
  ELSE IF holdsDriver(d.wing.drivers, promote) THEN Fail({"invalid"})
  ELSE IF DriverKeys(d) = {} THEN Fail({"missing"})
  ELSE Offer(Swaps(d, promote))

SetDriver(d, key, v) ==
  LET held == key \in DriverKeys(d)
  IN  IF key \notin ToSet(SizeKeys) THEN Fail({"unsupported"})
      ELSE IF ~held /\ Cardinality(DriverKeys(d)) >= 2
      THEN Then(ValidSwaps(d, key), LAMBDA swaps : Fail({"invalid"}))
      ELSE Edit(IF Supplied(v) THEN checkDriverValue(v) ELSE Invalid(held), setSizeDriver(d, key, v))
PromoteDriver(d, promote, release, v) ==
  Then(ValidSwaps(d, promote), LAMBDA swaps :
    IF release = "" THEN Fail({"missing"})
    ELSE IF release \notin swaps THEN Fail({"invalid"})
    ELSE Edit(checkDriverValue(v), setSizeDriver(setSizeDriver(d, release, None), promote, v)))

\* Mutant: the bound is written into a panel-plane driver unconverted.
areaDriverPlain(d, area) == area
\* areaDriverFor: the projected area in the plane the drivers are recorded in.
areaDriverFor(d, area) ==
  IF d.wing.dihedralMode = "panel" /\ d.wing.dihedral \notin {"none", "flat"}
  THEN Div(area, cosDihedral(d.wing)) ELSE area
releaseAllBut(d, hold) ==
  [d EXCEPT !.wing.drivers = [k \in DOMAIN @ |-> IF k \in DriverKeys(d) \ {hold} THEN Unset(k) ELSE @[k]]]
SizeAtStallLimit(d, hold, scope) ==
  IF hold \notin {"span", "aspect", "root"} THEN Fail({"unsupported"})
  ELSE IF ~holdsDriver(d.wing.drivers, hold) THEN Fail({"invalid"})
  ELSE Then(AreaLowerBound(d, scope), LAMBDA bound :
         IF ~bound.known THEN Fail({"missing"})
         ELSE Ok(setSizeDriver(releaseAllBut(d, hold), "area", areaDriverFor(d, bound.value))))

SetTaperRatio(d, v) == Edit(Invalid(v[1] > 0), [d EXCEPT !.wing.drivers.taper = v])
SetPlanformShape(d, shape, taper) ==
  Edit(CASE shape = "rectangle" -> Invalid(taper = One)
         [] shape = "trapezoid" -> Invalid(taper[1] > 0)
         [] OTHER -> {"missing"},
       [d EXCEPT !.wing.drivers.shape = shape, !.wing.drivers.taper = taper])
SetWingAngles(d, c) ==
  Edit(Missing("none" \notin {c.sweep, c.dihedral, c.twist, c.incidence})
         \cup Invalid("wrong" \notin {c.sweep, c.dihedral, c.twist, c.incidence})
         \cup Invalid(Leq(Zero, c.sweepRef) /\ Leq(c.sweepRef, One)),
       [d EXCEPT !.wing = [@ EXCEPT !.sweep = c.sweep, !.dihedral = c.dihedral, !.twist = c.twist,
                                    !.incidence = c.incidence, !.sweepRef = c.sweepRef,
                                    !.dihedralMode = c.mode]])
SetBodyWidth(d, v) == Edit(Invalid(Supplied(v) => v[1] > 0), [d EXCEPT !.wing.bodyWidth = v])
SetConfiguration(d, kind, tail) ==
  Edit(Missing(kind # "unknown"), [d EXCEPT !.configuration = kind, !.tail = tail])

(***************************************************************************)
(* Mass and components.                                                    *)
(***************************************************************************)
SetMass(d, v, basis) == Edit(Invalid(v # Wrong), [d EXCEPT !.mass = v, !.massBasis = basis])
SetMassMode(d, mode) == Edit(Missing(mode # "unknown"), [d EXCEPT !.massMode = mode])
checkPosition(pos)   == Invalid(\A a \in Axes : pos[a] # Wrong)
SetComponent(d, it)  ==
  Edit(IF it.name = "" \/ it.role = "unknown" THEN {"missing"}
       ELSE IF it.mass = Wrong THEN {"invalid"} ELSE checkPosition(it.pos),
       [d EXCEPT !.components = Put(@, it)])
PlaceComponent(d, n, pos) ==
  Edit(IF checkPosition(pos) # {} THEN checkPosition(pos)
       ELSE Missing(\A a \in Axes : Supplied(pos[a])) \cup Missing(Named(d.components, n)),
       [d EXCEPT !.components = Update(@, n, "pos", pos)])

(***************************************************************************)
(* Cases and requirements.                                                 *)
(***************************************************************************)
SetCase(d, fc)        == Edit(Missing(fc.name # ""), [d EXCEPT !.cases = Put(@, fc)])
RemoveCase(d, n)      ==
  IF \E i \in 1 .. Len(d.reqs) : PerCase(d.reqs[i].subject) /\ appliesTo(d.reqs[i], n)
  THEN Fail({"invalid"}) ELSE Removal(d, "cases", n)
SetPriority(d, key, n, p) ==
  Edit(Missing(p # "unknown") \cup Missing(Named(d[key], n)), [d EXCEPT ![key] = Update(@, n, "priority", p)])
SetCaseCLmax(d, n, cl, scope, basis) ==
  Edit(Missing(Named(d.cases, n)),
       [d EXCEPT !.cases = Update(Update(Update(@, n, "clmax", cl), n, "clScope", scope), n, "clBasis", basis)])
SetRequirement(d, r)  == Edit(Missing(r.name # ""), [d EXCEPT !.reqs = Put(@, r)])

(***************************************************************************)
(* Power.  Links are refused only where something still refers to the item.*)
(***************************************************************************)
SetDragPolar(d, p)    == Edit(IF p.scope = "section" THEN {"unsupported"} ELSE {}, [d EXCEPT !.polar = p])
SetPropulsionEfficiency(d, e) == Edit(Invalid(Leq(e.total, One)), [d EXCEPT !.efficiency = e])
SetPropulsionLimits(d, l) == Edit(Invalid(\A k \in Ratings : l[k] # Wrong), [d EXCEPT !.limits = l])
CapabilityFields      == {"speed", "density", "voltage", "rpm", "thrust", "power", "current"}
SetCapability(d, c)   ==
  Edit(IF c.name = "" \/ c.kind = "unknown" THEN {"missing"} ELSE Invalid(\A k \in CapabilityFields : c[k] # Wrong),
       [d EXCEPT !.capabilities = Put(@, c)])
RemoveCapability(d, n) ==
  IF \/ \E i \in 1 .. Len(d.targets) : d.targets[i].capability = n
     \/ \E i \in 1 .. Len(d.mission.segments) : d.mission.segments[i].capability = n
  THEN Fail({"invalid"}) ELSE Removal(d, "capabilities", n)
SetThrustTarget(d, t)   == Edit(Missing(t.name # ""), [d EXCEPT !.targets = Put(@, t)])
SetBattery(d, b)        ==
  Edit(Invalid(\A k \in {"capacity", "voltage", "energy", "continuous", "peak"} : b[k] # Wrong),
       [d EXCEPT !.battery = b])
SetAuxiliaryLoad(d, a)  ==
  Edit(IF a.name = "" THEN {"missing"} ELSE Invalid(a.continuous # Wrong /\ a.peak # Wrong),
       [d EXCEPT !.auxiliary = Put(@, a)])
SetMissionProfile(d, m) ==
  Edit(Invalid(m.reserve[1] >= 0 /\ Less(m.reserve, One)),
       [d EXCEPT !.mission.name = m.name, !.mission.basis = m.basis, !.mission.reserve = m.reserve])
SegmentFields           == {"speed", "duration", "distance", "wind", "entered"}
SetMissionSegment(d, s) ==
  Edit(IF s.name = "" THEN {"missing"} ELSE Invalid(s.climb # "wrong" /\ \A k \in SegmentFields : s[k] # Wrong),
       [d EXCEPT !.mission.segments = Put(@, s)])
RemoveMissionSegment(d, n) ==
  Edit(Missing(Named(d.mission.segments, n)), [d EXCEPT !.mission.segments = Without(@, n)])
\* MoveMissionSegment: taken out, then put back before what stands at the (zero-based) index.
MoveMissionSegment(d, n, index) ==
  LET segs == d.mission.segments
  IN  IF ~Named(segs, n) THEN Fail({"missing"})
      ELSE Edit(Invalid(index \in 0 .. Len(segs) - 1),
                [d EXCEPT !.mission.segments = InsertAt(Without(segs, n), index + 1, Get(segs, n))])

(***************************************************************************)
(* The dispatch.  The commands that put an item on a list, and all.        *)
(***************************************************************************)
PutOps == {"SetComponent", "SetCase", "SetRequirement", "SetCapability", "SetThrustTarget",
           "SetAuxiliaryLoad", "SetMissionSegment"}
Ops == PutOps \cup
  {"SetMass", "SetDriver", "PromoteDriver", "SizeAtStallLimit", "SetTaperRatio", "SetPlanformShape",
   "SetWingAngles", "SetBodyWidth", "SetConfiguration", "SetMassMode", "PlaceComponent", "RemoveComponent",
   "RemoveCase", "SetCasePriority", "SetCaseCLmax", "RemoveRequirement", "SetRequirementPriority",
   "SetDragPolar", "SetPropulsionEfficiency", "SetPropulsionLimits", "RemoveCapability", "RemoveThrustTarget",
   "SetBattery", "RemoveAuxiliaryLoad", "SetMissionProfile", "RemoveMissionSegment", "MoveMissionSegment"}
apply(d, c) ==
  CASE c.op = "SetMass"                 -> SetMass(d, c.v, c.basis)
    [] c.op = "SetDriver"               -> SetDriver(d, c.key, c.v)
    [] c.op = "PromoteDriver"           -> PromoteDriver(d, c.key, c.release, c.v)
    [] c.op = "SizeAtStallLimit"        -> SizeAtStallLimit(d, c.key, c.scope)
    [] c.op = "SetTaperRatio"           -> SetTaperRatio(d, c.v)
    [] c.op = "SetPlanformShape"        -> SetPlanformShape(d, c.shape, c.v)
    [] c.op = "SetWingAngles"           -> SetWingAngles(d, c)
    [] c.op = "SetBodyWidth"            -> SetBodyWidth(d, c.v)
    [] c.op = "SetConfiguration"        -> SetConfiguration(d, c.kind, c.tail)
    [] c.op = "SetMassMode"             -> SetMassMode(d, c.mode)
    [] c.op = "SetComponent"            -> SetComponent(d, c.item)
    [] c.op = "PlaceComponent"          -> PlaceComponent(d, c.name, c.pos)
    [] c.op = "RemoveComponent"         -> Removal(d, "components", c.name)
    [] c.op = "SetCase"                 -> SetCase(d, c.item)
    [] c.op = "RemoveCase"              -> RemoveCase(d, c.name)
    [] c.op = "SetCasePriority"         -> SetPriority(d, "cases", c.name, c.priority)
    [] c.op = "SetCaseCLmax"            -> SetCaseCLmax(d, c.name, c.v, c.scope, c.basis)
    [] c.op = "SetRequirement"          -> SetRequirement(d, c.item)
    [] c.op = "RemoveRequirement"       -> Removal(d, "reqs", c.name)
    [] c.op = "SetRequirementPriority"  -> SetPriority(d, "reqs", c.name, c.priority)
    [] c.op = "SetDragPolar"            -> SetDragPolar(d, c.item)
    [] c.op = "SetPropulsionEfficiency" -> SetPropulsionEfficiency(d, c.item)
    [] c.op = "SetPropulsionLimits"     -> SetPropulsionLimits(d, c.item)
    [] c.op = "SetCapability"           -> SetCapability(d, c.item)
    [] c.op = "RemoveCapability"        -> RemoveCapability(d, c.name)
    [] c.op = "SetThrustTarget"         -> SetThrustTarget(d, c.item)
    [] c.op = "RemoveThrustTarget"      -> Removal(d, "targets", c.name)
    [] c.op = "SetBattery"              -> SetBattery(d, c.item)
    [] c.op = "SetAuxiliaryLoad"        -> SetAuxiliaryLoad(d, c.item)
    [] c.op = "RemoveAuxiliaryLoad"     -> Removal(d, "auxiliary", c.name)
    [] c.op = "SetMissionProfile"       -> SetMissionProfile(d, c.item)
    [] c.op = "SetMissionSegment"       -> SetMissionSegment(d, c.item)
    [] c.op = "RemoveMissionSegment"    -> RemoveMissionSegment(d, c.name)
    [] c.op = "MoveMissionSegment"      -> MoveMissionSegment(d, c.name, c.index)
=============================================================================
