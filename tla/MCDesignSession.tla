-------------------------- MODULE MCDesignSession ---------------------------
(***************************************************************************)
(* Scenarios for DesignSession.                                            *)
(***************************************************************************)
EXTENDS DesignSession, MCDesigns

Scenario(start, commands, most) ==
  [start |-> start, commands |-> commands, sweeps |-> {}, searches |-> {}, probes |-> {}, requests |-> 0,
   revisions |-> most + 1, edits |-> most, loads |-> FALSE]

(***************************************************************************)
(* Wing: a loaded design with one driver too many, and every swap.         *)
(***************************************************************************)
Angle(dihedral, mode, sweep) ==
  [op |-> "SetWingAngles", sweep |-> sweep, dihedral |-> dihedral, twist |-> "flat", incidence |-> "flat",
   sweepRef |-> Q(1, 4), mode |-> mode]
WingCommands ==
  {Drive("span", None), Drive("span", N(8)), Drive("area", N(16)), Drive("aspect", None), Drive("root", N(4))}
    \cup {[op |-> "PromoteDriver", key |-> k, release |-> r, v |-> N(4)] : k \in ToSet(SizeKeys), r \in {"span", "aspect", "area"}}
    \cup {[op |-> "SetTaperRatio", v |-> One], [op |-> "SetPlanformShape", shape |-> "rectangle", v |-> One],
          Angle("set", "projected", "set"), Angle("set", "panel", "flat"), Angle("set", "unknown", "flat"),
          Angle("high", "panel", "flat"), Angle("wrong", "panel", "flat"), [op |-> "SetBodyWidth", v |-> One], [op |-> "SetBodyWidth", v |-> N(9)],
          [op |-> "SetConfiguration", kind |-> "conventional", tail |-> [NoTail EXCEPT !.h = One, !.v = One]],
          [op |-> "SetConfiguration", kind |-> "vtail", tail |-> [NoTail EXCEPT !.panels = [area |-> One, cant |-> N(30)]]],
          [op |-> "SetConfiguration", kind |-> "flyingwing", tail |-> NoTail]}
WingScenarios ==
  {Scenario([Blank EXCEPT !.wing.drivers = Drivers(N(8), s, a, None)], WingCommands, 2) :
     <<s, a>> \in {<<None, N(4)>>, <<N(16), N(4)>>, <<N(16), N(16)>>}}

(***************************************************************************)
(* Mass: unweighed, unplaced, weightless and negative items.               *)
(***************************************************************************)
Nowhere == <<None, None, None>>
Item(n, m, pos) == [name |-> n, role |-> IF n = "pack" THEN "battery" ELSE "other", mass |-> m, pos |-> pos, basis |-> TRUE]
MassScenario ==
  Scenario([Blank EXCEPT !.massMode = "components",
                         !.components = <<Item("pack", N(9), <<One, Zero, Zero>>), Item("hull", N(3), Nowhere)>>,
                         !.reqs = <<Req("m", "mass", None, N(16), Zero, {})>>],
           {Set("SetComponent", Item("pack", N(4), <<One, Zero, Zero>>)), Set("SetComponent", Item("hull", None, Nowhere)),
            Set("SetComponent", Item("tail", Zero, <<N(5), Zero, One>>)), Set("SetComponent", Item("tail", One, <<N(5), One, Zero>>)),
            Set("SetComponent", Item("hull", Wrong, Nowhere)), Set("SetComponent", Item("hull", N(-1), <<N(2), Zero, One>>)),
            [op |-> "PlaceComponent", name |-> "hull", pos |-> <<N(-3), Zero, One>>],
            [op |-> "PlaceComponent", name |-> "tail", pos |-> <<N(4), Wrong, One>>],
            [op |-> "PlaceComponent", name |-> "tail", pos |-> Nowhere],
            Drop("RemoveComponent", "pack"), Drop("RemoveComponent", "tail"),
            [op |-> "SetMassMode", mode |-> "entered"], [op |-> "SetMassMode", mode |-> "unknown"],
            [op |-> "SetMass", v |-> None, basis |-> FALSE], [op |-> "SetMass", v |-> N(16), basis |-> TRUE]}, 3)

(***************************************************************************)
(* Sizing: two cases, two ceilings, and limits on span, aspect and area.   *)
(***************************************************************************)
Raised == [Plain EXCEPT !.drivers = Drivers(N(8), None, Zero, N(4)), !.dihedral = "set", !.dihedralMode = "panel"]
SizingScenario(wing) ==
  [Scenario([Blank EXCEPT !.wing = wing,
                          !.cases = <<Case("c1", One, "required"), Case("turn", N(4), "desired")>>,
                          !.reqs = <<Req("slow", "stall", None, N(2), Half(One), {"c1"}),
                                     Req("wide", "span", None, N(8), Zero, {})>>],
     {Set("SetRequirement", Req("turns", "stall", None, N(2), Zero, {"c1", "turn"})),
      Set("SetRequirement", Req("lost", "stall", N(1), None, Zero, {"c1", "gone"})),
      Set("SetRequirement", Req("lost", "stall", N(-1), N(-2), Zero, {"c1"})),
      Set("SetRequirement", Req("thin", "aspect", N(4), None, Zero, {})),
      Set("SetRequirement", Req("thin", "aspect", N(16), None, Zero, {})),
      Set("SetRequirement", Req("heavy", "loading", One, None, Zero, {})),
      Set("SetRequirement", [Req("small", "area", None, N(9), Zero, {}) EXCEPT !.priority = "desired"]),
      Drop("RemoveRequirement", "slow"), Drop("RemoveCase", "turn"), Drop("RemoveCase", "c1"),
      [op |-> "SetRequirementPriority", name |-> "small", priority |-> "required"],
      [op |-> "SetRequirementPriority", name |-> "slow", priority |-> "desired"],
      [op |-> "SetCasePriority", name |-> "turn", priority |-> "required"],
      [op |-> "SetCaseCLmax", name |-> "c1", v |-> N(4), scope |-> "aircraft", basis |-> TRUE],
      [op |-> "SetCaseCLmax", name |-> "turn", v |-> N(4), scope |-> "section", basis |-> TRUE],
      Set("SetCase", Case("gone", One, "required")), Set("SetCase", Case("", One, "required")), [op |-> "SetMass", v |-> N(64), basis |-> TRUE],
      [op |-> "SizeAtStallLimit", key |-> "span", scope |-> "all"], [op |-> "SizeAtStallLimit", key |-> "aspect", scope |-> "turn"]}, 3)
   EXCEPT !.probes = {Drivers(b, s, Zero, None) : b \in {N(8), N(4)}, s \in {N(4), N(9), N(16), N(64)}}]

(***************************************************************************)
(* Power: a mission of two segments; the powers come to a few watts.       *)
(***************************************************************************)
Polar(cd0, low) == [cd0 |-> cd0, oswald |-> Q(7, 11), low |-> low, high |-> N(2), scope |-> "aircraft",
                    basis |-> TRUE, evidence |-> 2]
Point(n, kind, v, thrust, amps) ==
  [name |-> n, kind |-> kind, basis |-> TRUE, speed |-> v, density |-> One, voltage |-> N(2), rpm |-> N(10),
   thrust |-> thrust, power |-> N(4), current |-> amps, throttle |-> Half(One), evidence |-> 3]
Pack == [NoBattery EXCEPT !.basis = TRUE, !.component = "pack", !.voltage = N(2), !.energy = N(64),
                          !.continuous = N(2), !.peak = N(3), !.usable = Q(3, 4), !.mode = "entered", !.evidence = 3]
Aux(n, draw, peak, side, eta) ==
  [name |-> n, basis |-> TRUE, component |-> "", continuous |-> draw, peak |-> peak, eta |-> eta, side |-> side, evidence |-> 1]
Hop == [Cruise EXCEPT !.name = "hop", !.model = "entered", !.timing = "distance", !.duration = None, !.distance = N(8),
                      !.wind = N(-1), !.entered = N(2), !.capability = ""]
Powered ==
  [Blank EXCEPT !.components = <<Item("pack", N(4), Nowhere)>>, !.polar = Polar(Q(1, 128), Q(1, 32)),
                !.efficiency = [total |-> Half(One), basis |-> TRUE, evidence |-> 2],
                !.limits = [continuous |-> N(4), peak |-> N(6), rpm |-> N(10), voltage |-> One, diameter |-> N(2),
                            hub |-> N(2), basis |-> TRUE],
                !.capabilities = <<Point("bench", "static", Zero, N(4), None), Point("flying", "flight", N(2), One, N(2))>>,
                !.targets = <<[name |-> "t", capability |-> "bench", ratio |-> Half(One), priority |-> "required", basis |-> TRUE]>>,
                !.battery = Pack, !.auxiliary = <<Aux("radio", One, N(2), "pack", Zero)>>,
                !.mission = [name |-> TRUE, basis |-> TRUE, reserve |-> Q(1, 4), segments |-> <<Cruise, Hop>>],
                !.reqs = <<Req("e", "energy", None, N(60), Zero, {}), Req("tip", "clearance", One, None, Zero, {})>>]
Search(key, from, to, n, ceiling) == [driver |-> key, from |-> from, to |-> to, samples |-> n, ceiling |-> ceiling]
PowerCommands ==
  {Set("SetDragPolar", NoPolar), Set("SetDragPolar", Polar(Q(1, 128), Q(1, 3))), Set("SetDragPolar", [NoPolar EXCEPT !.scope = "section"]),
   Set("SetPropulsionEfficiency", NoEfficiency), Set("SetPropulsionEfficiency", [total |-> N(2), basis |-> TRUE, evidence |-> 1]),
   Set("SetPropulsionLimits", NoLimits), Set("SetCapability", Point("flying", "flight", N(3), One, One)),
   Drop("RemoveCapability", "bench"), Drop("RemoveCapability", "flying"),
   Set("SetThrustTarget", [name |-> "t", capability |-> "gone", ratio |-> One, priority |-> "required", basis |-> TRUE]),
   Drop("RemoveThrustTarget", "t"), Set("SetBattery", [Pack EXCEPT !.mode = "capacity", !.capacity = N(40), !.energy = None]),
   Set("SetBattery", [Pack EXCEPT !.component = "gone"]), Set("SetAuxiliaryLoad", Aux("cam", One, None, "load", Half(One))),
   Set("SetAuxiliaryLoad", Aux("cam", None, None, "unknown", Zero)), Drop("RemoveAuxiliaryLoad", "radio"),
   Set("SetMissionProfile", [name |-> TRUE, basis |-> TRUE, reserve |-> Zero]),
   Set("SetMissionProfile", [name |-> TRUE, basis |-> TRUE, reserve |-> One]),
   Set("SetMissionSegment", [Hop EXCEPT !.wind = N(-3)]), Set("SetMissionSegment", [Hop EXCEPT !.timing = "duration", !.duration = One, !.distance = None]),
   Set("SetMissionSegment", [Cruise EXCEPT !.name = "leg", !.climb = "climb", !.duration = One, !.capability = "flying"]),
   Set("SetMissionSegment", [Cruise EXCEPT !.name = "leg", !.climb = "dive"]), Set("SetMissionSegment", [Cruise EXCEPT !.name = ""]),
   Drop("RemoveMissionSegment", "hop"), [op |-> "MoveMissionSegment", name |-> "hop", index |-> 0],
   Set("SetRequirement", Req("busy", "power", N(4), None, Zero, {})),
   Set("SetRequirement", Req("far", "range", N(28), None, Zero, {}))}
PowerScenario ==
  [Scenario(Powered, PowerCommands, 2)
   EXCEPT !.searches = {Search("span", N(4), N(16), 4, N(4)), Search("span", N(4), N(16), 4, N(6)), Search("span", N(16), N(4), 4, N(5)),
                        Search("mass", N(16), N(64), 4, N(4)), Search("area", N(4), N(16), 2, N(4)), Search("span", N(4), N(16), 4, None)}]

(***************************************************************************)
(* Session: answers that outlive the design they were asked for.           *)
(***************************************************************************)
Settings(key, from, to, subject, case) ==
  [driver |-> key, from |-> from, to |-> to, samples |-> 3, subject |-> subject, case |-> case]
SessionScenario ==
  [Scenario([Blank EXCEPT !.reqs = <<Req("slow", "stall", None, N(2), Zero, {"c1"})>>],
            {[op |-> "SetMass", v |-> N(64), basis |-> TRUE], Drive("span", N(4)), Drop("RemoveRequirement", "slow"), Drive("area", One)}, 3)
   EXCEPT !.sweeps = {Settings("span", N(4), N(8), "stall", "c1"), Settings("mass", N(16), N(64), "area", ""), Settings("area", One, N(4), "area", "")},
          !.requests = 3, !.revisions = 3, !.loads = TRUE]

MCScenarios == WingScenarios \cup {SizingScenario(w) : w \in {Plain, Raised}} \cup {MassScenario, PowerScenario, SessionScenario}
=============================================================================
