---------------------------- MODULE WingGeometry ----------------------------
(***************************************************************************)
(* Solving a wing from its drivers (calculator/geometry.go, wing.go and    *)
(* the driver half of design.go).  Exactly two of span, area, aspect ratio *)
(* and root chord drive a planform; a definition records them in the plane *)
(* its dihedral mode names.  A taper ratio or aspect ratio of Zero is not  *)
(* stated.  Angles are carried as the function of them that is used: the   *)
(* dihedral by its cosine, the sweep by its tangent; "high" stands for an  *)
(* angle beyond the range the model covers.                                *)
(***************************************************************************)
EXTENDS Evaluation

SizeKeys == <<"span", "area", "aspect", "root">>

\* holdsDriver and suppliedDrivers
holdsDriver(d, key) == IF key = "aspect" THEN d.aspect # Zero ELSE Supplied(d[key])
suppliedDrivers(d)  == {k \in ToSet(SizeKeys) : holdsDriver(d, k)}

\* resolveTaper and resolveTrapezoidTaper: the taper and the issues met.
resolveTaper(d) ==
  CASE d.shape = "rectangle" -> IF d.taper \in {Zero, One} THEN Ok(One) ELSE Fail({"invalid"})
    [] d.shape = "trapezoid" -> IF d.taper = Zero THEN Fail({"missing"})
                                ELSE IF d.taper[1] < 0 THEN Fail({"invalid"}) ELSE Ok(d.taper)
    [] d.shape = "unknown"   -> Fail({"missing"})

(***************************************************************************)
(* reportOverDetermined: with three or more drivers the first pair that is *)
(* there is the reference, and the others agree with it or do not.         *)
(***************************************************************************)
independentPair(d, taper) ==
  LET l1 == Add(One, taper)
  IN  CASE holdsDriver(d, "span") /\ holdsDriver(d, "area") -> <<d.span, d.area>>
        [] holdsDriver(d, "span") /\ holdsDriver(d, "aspect") -> <<d.span, Div(Sq(d.span), d.aspect)>>
        [] holdsDriver(d, "area") /\ holdsDriver(d, "aspect") -> <<SqrtQ(Mul(d.aspect, d.area)), d.area>>
        [] holdsDriver(d, "span") /\ holdsDriver(d, "root") -> <<d.span, Half(Mul(Mul(d.span, d.root), l1))>>
        [] OTHER -> <<Div(Mul(Int1(2), d.area), Mul(d.root, l1)), d.area>>
conflicts(d, ref, taper) ==
  LET implied == [span |-> ref[1], area |-> ref[2], aspect |-> Div(Sq(ref[1]), ref[2]),
                  root |-> Div(Mul(Int1(2), ref[2]), Mul(ref[1], Add(One, taper)))]
  IN  {k \in suppliedDrivers(d) : d[k] # implied[k]}
reportOverDetermined(d, taper) ==
  IF conflicts(d, independentPair(d, taper), taper) = {} THEN "unsupported" ELSE "invalid"

\* resolveMode: the driver pair, or why there is none.
resolveMode(d, taper) ==
  LET held == suppliedDrivers(d)
  IN  CASE Cardinality(held) = 2 -> Ok(held)
        [] Cardinality(held) < 2 -> Fail({"missing"})
        [] OTHER -> Fail({reportOverDetermined(d, taper)})

\* solvePath: which path a driver set selects, nothing evaluated.
pathAt(d, taper) ==
  Together([taper |-> taper, mode |-> resolveMode(d, IF taper.issues = {} THEN taper.v ELSE Zero)])
solvePath(d) == pathAt(d, resolveTaper(d))

(***************************************************************************)
(* The size equations.                                                     *)
(***************************************************************************)
spanFromAreaAndAspect(s, a)       == finish(quantity(s) \cup scalar(a), SqrtQ(Mul(a, s)))
areaFromSpanAndAspect(b, a)       == finish(quantity(b) \cup scalar(a), Div(Sq(b), a))
spanFromAreaAndRootChord(s, c, l) ==
  finish(quantity(s) \cup quantity(c) \cup scalar(l), Div(Mul(Int1(2), s), Mul(c, Add(One, l))))
\* Mutant: the taper is left out.
areaFromUntapered(b, c, l) ==
  finish(quantity(b) \cup quantity(c) \cup scalar(l), Mul(b, c))
areaFromSpanAndRootChord(b, c, l) ==
  finish(quantity(b) \cup quantity(c) \cup scalar(l), Half(Mul(Mul(b, c), Add(One, l))))
spanFromAspectAndRootChord(a, c, l) ==
  finish(scalar(a) \cup quantity(c) \cup scalar(l), Half(Mul(Mul(a, c), Add(One, l))))
aspectRatio(b, s)  == finish(quantity(b) \cup quantity(s), Div(Sq(b), s))
rootChord(s, b, l) ==
  finish(quantity(s) \cup quantity(b) \cup scalar(l), Div(Mul(Int1(2), s), Mul(b, Add(One, l))))
tipChord(c, l)     == finish(quantity(c) \cup scalar(l), Mul(l, c))
meanChord(s, b)    == finish(quantity(s) \cup quantity(b), Div(s, b))
meanAerodynamicChord(c, l) ==
  finish(quantity(c) \cup scalar(l),
         Mul(Q(2, 3), Div(Mul(c, Add(Add(One, l), Sq(l))), Add(One, l))))
macStation(b, l) ==
  finish(quantity(b) \cup scalar(l),
         Div(Mul(b, Add(One, Mul(Int1(2), l))), Mul(Int1(6), Add(One, l))))
chordAt(p, y) ==
  finish(quantity(p.root) \cup scalar(p.taper) \cup quantity(p.span) \cup signedQuantity(y)
           \cup (IF quantity(p.span) = {} THEN requireWithin(y, Zero, Half(p.span)) ELSE {}),
         Mul(p.root, Sub(One, Div(Mul(Mul(Sub(One, p.taper), Int1(2)), y), p.span))))

\* solveSize: the pair's own path down to span and area.
solveSize(d, mode, taper) ==
  CASE mode = {"span", "area"}   -> <<Ok(d.span), Ok(d.area)>>
    [] mode = {"span", "aspect"} -> <<Ok(d.span), areaFromSpanAndAspect(d.span, d.aspect)>>
    [] mode = {"area", "aspect"} -> <<spanFromAreaAndAspect(d.area, d.aspect), Ok(d.area)>>
    [] mode = {"span", "root"}   -> <<Ok(d.span), areaFromSpanAndRootChord(d.span, d.root, taper)>>
    [] mode = {"area", "root"}   -> <<spanFromAreaAndRootChord(d.area, d.root, taper), Ok(d.area)>>
    [] mode = {"aspect", "root"} ->
         LET b == spanFromAspectAndRootChord(d.aspect, d.root, taper)
         IN  <<b, areaFromSpanAndAspect(b.v, d.aspect)>>

\* completeFrom: a driver keeps the builder's number, the rest is derived.
completeFrom(d, span, area, taper) ==
  Then(Together([aspect |-> IF d.aspect # Zero THEN Ok(d.aspect) ELSE aspectRatio(span, area),
                 root   |-> IF Supplied(d.root) THEN Ok(d.root) ELSE rootChord(area, span, taper)]), LAMBDA own :
  Then(Together([tip |-> tipChord(own.root, taper), mean |-> meanChord(area, span),
                 mac |-> meanAerodynamicChord(own.root, taper), ymac |-> macStation(span, taper)]), LAMBDA c :
    Ok([span |-> span, area |-> area, aspect |-> own.aspect, root |-> own.root, taper |-> taper,
        tip |-> c.tip, mean |-> c.mean, mac |-> c.mac, ymac |-> c.ymac])))

\* SolvePlanform: stage by stage, stopping before deriving from a rejected value.
SolvePlanform(d) ==
  Then(solvePath(d), LAMBDA path :
  Then(Together(solveSize(d, path.mode, path.taper)), LAMBDA size :
    completeFrom(d, size[1], size[2], path.taper)))

(***************************************************************************)
(* The wing: choices that are recorded, and the plane it was not given in. *)
(***************************************************************************)
Angles == {"none", "flat", "set", "high"}

requireAngle(a) == CASE a = "none" -> {"missing"} [] a = "high" -> {"unsupported"} [] OTHER -> {}
validateAirfoil(a) ==
  IF a = "unset" THEN {} ELSE IF a = "unnamed" THEN {"missing"} ELSE IF a = "thick" THEN {"invalid"} ELSE {}
validateChoices(w) ==
  UNION {IF w.basis = "reference" THEN {} ELSE IF w.basis = "unknown" THEN {"missing"} ELSE {"unsupported"},
         requireAngle(w.sweep), requireAngle(w.dihedral), requireAngle(w.twist),
         requireAngle(w.incidence), validateAirfoil(w.rootAirfoil), validateAirfoil(w.tipAirfoil),
         IF Leq(Zero, w.sweepRef) /\ Leq(w.sweepRef, One) THEN {} ELSE {"invalid"}}

\* The one dihedral the instances use has cosine 3/5, the one sweep tangent 1.
cosDihedral(w) == IF w.dihedral = "flat" THEN One ELSE Q(3, 5)
tanDihedral(w) == IF w.dihedral = "flat" THEN Zero ELSE Q(4, 3)
tanSweep(w)    == IF w.sweep = "flat" THEN Zero ELSE One

\* resolvePlanes: the projected and the panel dimensions.
planeOf(p, b, s) == [span |-> b, area |-> s, ymac |-> macStation(b, p.taper).v, half |-> Half(b)]
resolvePlanes(w, p) ==
  LET given == [span |-> p.span, area |-> p.area, ymac |-> p.ymac, half |-> Half(p.span)]
      c == cosDihedral(w)
  IN  IF w.dihedralMode = "unknown" /\ w.dihedral # "flat" THEN Fail({"missing"})
      ELSE IF w.dihedralMode = "panel"
      THEN Ok(<<planeOf(p, Mul(p.span, c), Mul(p.area, c)), given>>)
      ELSE Ok(<<given, planeOf(p, Div(p.span, c), Div(p.area, c))>>)

\* sweepAt, in tangents.
sweepAt(w, target, aspect, taper) ==
  Sub(tanSweep(w), Mul(Div(Int1(4), aspect),
                       Div(Mul(Sub(target, w.sweepRef), Sub(One, taper)), Add(One, taper))))
exposedArea(s, c, l, b, width) ==
  LET side == Mul(c, Sub(One, Div(Mul(Sub(One, l), width), b)))
  IN  finish(quantity(s) \cup quantity(c) \cup scalar(l) \cup quantity(b) \cup quantity(width)
               \cup (IF quantity(width) = {} THEN requireWithin(width, Zero, b) ELSE {}),
             Sub(s, Half(Mul(width, Add(c, side)))))

\* SolveWing: the choices and the planform are judged together, the rest in turn.
wingOf(w, p, proj, panel, sweep, exposed) ==
  [planform |-> p, projected |-> proj, panel |-> panel, aspect |-> Div(Sq(proj.span), proj.area),
   plane |-> IF w.dihedralMode = "panel" /\ w.dihedral # "flat" THEN "panel" ELSE "projected",
   leSweep |-> sweep, tipOffset |-> Mul(proj.half, sweep),
   tipRise |-> Mul(proj.half, tanDihedral(w)),
   macLE |-> Mul(proj.ymac, sweep), exposed |-> exposed]
exposedOf(w, p, proj) ==
  IF Supplied(w.bodyWidth) THEN exposedArea(proj.area, p.root, p.taper, proj.span, w.bodyWidth) ELSE Ok(None)
SolveWing(w) ==
  Then(Together(<<SolvePlanform(w.drivers), Fail(validateChoices(w))>>), LAMBDA first :
  Then(resolvePlanes(w, first[1]), LAMBDA planes :
  Then(exposedOf(w, first[1], planes[1]), LAMBDA exposed :
    Ok(wingOf(w, first[1], planes[1], planes[2],
              sweepAt(w, Zero, Div(Sq(planes[1].span), planes[1].area), first[1].taper), exposed)))))

\* Outline: root leading edge, tip leading edge, tip trailing edge, root trailing edge.
Outline(wing, plane) ==
  LET z == IF plane = "panel" THEN wing.tipRise ELSE Zero
  IN  << <<Zero, Zero, Zero>>,
         <<wing.tipOffset, wing.projected.half, z>>,
         <<Add(wing.tipOffset, wing.planform.tip), wing.projected.half, z>>,
         <<wing.planform.root, Zero, Zero>> >>

(***************************************************************************)
(* Limits on a planform (calculator/limits.go): checked in the plan view   *)
(* only, and unknown where the dimensions are of the panel plane.          *)
(***************************************************************************)
statusFor(ok) == IF ok THEN "met" ELSE "unmet"
against(l, span, area) ==
  [k \in {k \in {"maxSpan", "minSpan", "maxArea"} : Supplied(l[k])} |->
     LET actual == IF k = "maxArea" THEN area ELSE span
     IN  IF ~Supplied(actual) THEN "unknown"
         ELSE statusFor(IF k = "minSpan" THEN Leq(l[k], actual) ELSE Leq(actual, l[k]))]
CheckPlanform(l, plane, span, area) ==
  IF plane = "panel" THEN [k \in DOMAIN against(l, span, area) |-> "unknown"]
  ELSE against(l, span, area)
CheckLimits(l, wing) == against(l, wing.projected.span, wing.projected.area)
=============================================================================
