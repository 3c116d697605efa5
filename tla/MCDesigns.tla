----------------------------- MODULE MCDesigns ------------------------------
(***************************************************************************)
(* Designs and commands the instances are put together from.  Masses,      *)
(* areas and aspect ratios are squares, so that every span and stall speed *)
(* is rational.                                                            *)
(***************************************************************************)
EXTENDS SweepSearch

N(n) == Int1(n)
Drivers(b, s, a, c) == [span |-> b, area |-> s, aspect |-> a, root |-> c, taper |-> Half(One), shape |-> "trapezoid"]
Plain == [drivers |-> Drivers(N(8), None, N(4), None), basis |-> "reference", sweep |-> "flat",
          sweepRef |-> Q(1, 4), dihedral |-> "flat", twist |-> "flat", incidence |-> "flat",
          rootAirfoil |-> "unset", tipAirfoil |-> "unset", dihedralMode |-> "projected", bodyWidth |-> None]
Case(n, load, p) == [name |-> n, density |-> One, densityBasis |-> TRUE, load |-> load, clmax |-> One,
                     clScope |-> "aircraft", clBasis |-> TRUE, priority |-> p, viscosity |-> One,
                     viscosityBasis |-> TRUE]
Req(n, subject, min, max, margin, cases) ==
  [name |-> n, subject |-> subject, min |-> min, max |-> max, margin |-> margin, cases |-> cases,
   priority |-> "required", basis |-> TRUE]
NoEfficiency == [total |-> Zero, basis |-> FALSE, evidence |-> 0]
NoLimits     == [k \in Ratings |-> None] @@ [basis |-> FALSE]
NoMission    == [name |-> FALSE, basis |-> FALSE, reserve |-> Zero, segments |-> <<>>]
Blank ==
  [massBasis |-> TRUE, mass |-> N(16), massMode |-> "entered", components |-> <<>>,
   cases |-> <<Case("c1", One, "required")>>, reqs |-> <<>>, wing |-> Plain, configuration |-> "unknown",
   tail |-> NoTail, polar |-> NoPolar, efficiency |-> NoEfficiency, limits |-> NoLimits, capabilities |-> <<>>,
   targets |-> <<>>, battery |-> NoBattery, auxiliary |-> <<>>, mission |-> NoMission]
Cruise == [name |-> "cruise", case |-> "c1", kind |-> "cruise", model |-> "polar", timing |-> "duration", speed |-> N(2),
           climb |-> "level", duration |-> N(10), distance |-> None, wind |-> Zero, entered |-> None, eta |-> Zero,
           capability |-> "flying", basis |-> TRUE, evidence |-> 2]
Set(op, item) == [op |-> op, item |-> item]
Drop(op, n)   == [op |-> op, name |-> n]
Drive(key, v) == [op |-> "SetDriver", key |-> key, v |-> v]
=============================================================================
