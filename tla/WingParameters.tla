--------------------------- MODULE WingParameters ---------------------------
(***************************************************************************)
(* What follows from a solved wing without changing it: the parameter      *)
(* graph (calculator/parameters.go), the curated workflows a driver set    *)
(* matches (patterns.go), the tail a configuration allows                  *)
(* (configuration.go) and the Reynolds numbers of a case (reynolds.go).    *)
(***************************************************************************)
EXTENDS DesignEdit

driver(key, v)        == [key |-> key, role |-> "driver", value |-> v, deps |-> {}]
derived(key, v, deps) == [key |-> key, role |-> "derived", value |-> v, deps |-> deps]

\* planeKeys: the keys the drivers' own plane and the other plane go by.
planeKeys(mode) ==
  IF mode = "panel" THEN [span |-> "span.panel", area |-> "area.panel", otherSpan |-> "span", otherArea |-> "area"]
  ELSE [span |-> "span", area |-> "area", otherSpan |-> "span.panel", otherArea |-> "area.panel"]

\* dependenciesFor over sizeEquations: what the span and the area follow from in a solve mode.
spanFrom(mode, k) == CASE mode = {"area", "aspect"} -> {k.area, "aspect"}
                       [] mode = {"area", "root"}   -> {k.area, "root", "taper"}
                       [] mode = {"aspect", "root"} -> {"aspect", "root", "taper"}
                       [] OTHER -> {}
areaFrom(mode, k) == CASE mode = {"span", "aspect"} -> {k.span, "aspect"}
                       [] mode = {"aspect", "root"} -> {k.span, "aspect"}
                       [] mode = {"span", "root"}   -> {k.span, "root", "taper"}
                       [] OTHER -> {}
addSizeDrivers(w, p, k) ==
  LET mode == suppliedDrivers(w.drivers)
      add(name, key, v, deps) == IF name \in mode THEN driver(key, v) ELSE derived(key, v, deps)
  IN  << driver("taper", p.taper),
         add("span", k.span, p.span, spanFrom(mode, k)),
         add("area", k.area, p.area, areaFrom(mode, k)),
         add("aspect", "aspect", p.aspect, {k.span, k.area}),
         add("root", "root", p.root, {k.area, k.span, "taper"}) >>
addPlanformChords(p, k) ==
  << derived("tip", p.tip, {"root", "taper"}), derived("mean", p.mean, {k.area, k.span}),
     derived("mac", p.mac, {"root", "taper"}) >>
addOtherPlane(w, wing, k) ==
  LET other == IF w.dihedralMode = "panel" THEN wing.projected ELSE wing.panel
  IN  << derived(k.otherSpan, other.span, {k.span, "dihedral"}),
         derived(k.otherArea, other.area, {k.area, "dihedral"}),
         derived("ymac", wing.projected.ymac, {"span", "taper"}),
         derived("aspect.projected", wing.aspect, {"span", "area"}),
         derived("half", wing.projected.half, {"span"}),
         derived("half.panel", wing.panel.half, {"span.panel"}) >>
addAnglesAndConstruction(w, wing) ==
  << driver("sweep", tanSweep(w)), driver("dihedral", tanDihedral(w)),
     driver("twist", w.twist), driver("incidence", w.incidence),
     derived("sweep.le", wing.leSweep, {"sweep", "aspect.projected", "taper"}),
     derived("tip.offset", wing.tipOffset, {"span", "sweep.le"}),
     derived("tip.rise", wing.tipRise, {"span", "dihedral"}),
     derived("mac.le", wing.macLE, {"ymac", "sweep.le"}) >>
    \o (IF Supplied(w.bodyWidth)
        THEN << driver("body", w.bodyWidth),
                derived("exposed", wing.exposed, {"area", "root", "taper", "span", "body"}) >>
        ELSE <<>>)
Parameters(w, wing) ==
  LET k == planeKeys(w.dihedralMode)
  IN  addSizeDrivers(w, wing.planform, k) \o addPlanformChords(wing.planform, k)
        \o addOtherPlane(w, wing, k) \o addAnglesAndConstruction(w, wing)
KeysOf(ps) == {ps[i].key : i \in 1 .. Len(ps)}

\* One pass of EvaluationOrder: place, in list order, whatever has its dependencies placed.
placePass(ps, placed) ==
  FoldLeft(LAMBDA acc, p : IF p.key \in ToSet(acc) \/ ~(p.deps \subseteq ToSet(acc)) THEN acc ELSE Append(acc, p.key),
           placed, ps)
EvaluationOrder(ps) ==
  LET order == FoldLeft(LAMBDA acc, p : IF Len(acc) = Len(ps) THEN acc ELSE placePass(ps, acc), <<>>, ps)
  IN  IF Cardinality(KeysOf(ps)) < Len(ps) THEN Fail({"invalid"})
      ELSE IF \E i \in 1 .. Len(ps) : ~(ps[i].deps \subseteq KeysOf(ps)) THEN Fail({"missing"})
      ELSE IF Len(order) < Len(ps) THEN Fail({"invalid"}) ELSE Ok(order)

(***************************************************************************)
(* Curated workflows: the driver pair each one works with.                 *)
(***************************************************************************)
patterns == << {"span", "aspect"}, {"span", "area"}, {"span", "area"}, {"span", "root"},
               {"area", "aspect"}, {"span", "area"} >>
PatternsFor(d) == {i \in 1 .. Len(patterns) : patterns[i] = DriverKeys(d)}

(***************************************************************************)
(* Configuration.  A tail is [h, v, panels]: each None or described, the   *)
(* panels by [area, cant] with the cant in degrees.                        *)
(***************************************************************************)
NoTail == [h |-> None, v |-> None, panels |-> None]
validateVTail(t) ==
  IF t.panels = None THEN {"missing"}
  ELSE UNION {Invalid(t.h = None /\ t.v = None), Missing(Supplied(t.panels.area)),
              IF ~Supplied(t.panels.cant) THEN {"missing"}
              ELSE requireWithin(t.panels.cant, Int1(15), Int1(75))}
ValidateGeometry(d) ==
  CASE d.configuration = "conventional" -> Missing(Supplied(d.tail.h)) \cup Missing(Supplied(d.tail.v))
                                             \cup Invalid(d.tail.panels = None)
    [] d.configuration = "vtail"        -> validateVTail(d.tail)
    [] d.configuration = "flyingwing"   -> Invalid(d.tail = NoTail)
    [] OTHER -> {"missing"}
HorizontalTailArea(d) ==
  CASE d.configuration = "conventional" -> IF Supplied(d.tail.h) THEN Ok(d.tail.h) ELSE Fail({"missing"})
    [] d.configuration \in {"vtail", "flyingwing"} -> Fail({"unsupported"})
    [] OTHER -> Fail({"missing"})

(***************************************************************************)
(* Reynolds numbers at root, mean aerodynamic chord and tip; the first     *)
(* station that fails withholds the whole coverage.                        *)
(***************************************************************************)
viscosity(fc) == (IF fc.viscosityBasis THEN {} ELSE {"missing"}) \cup quantity(fc.viscosity)
Reynolds(fc, v, c) ==
  finish(density(fc) \cup quantity(v) \cup quantity(c) \cup viscosity(fc),
         Div(Mul(fc.density, Mul(v, c)), fc.viscosity))
ReynoldsCoverage(fc, v, wing) ==
  Then(Reynolds(fc, v, wing.planform.root), LAMBDA root :
  Then(Reynolds(fc, v, wing.planform.mac), LAMBDA mac :
  Then(Reynolds(fc, v, wing.planform.tip), LAMBDA tip :
    Ok([root |-> root, mac |-> mac, tip |-> tip]))))
=============================================================================
