----------------------------- MODULE MCWorksheet ----------------------------
(***************************************************************************)
(* The worksheet in front of the design service and the calculator.        *)
(***************************************************************************)
EXTENDS Worksheet, MCDesigns

Flown == [Blank EXCEPT !.mission = [name |-> TRUE, basis |-> TRUE, reserve |-> Zero, segments |-> <<Cruise>>]]
MCStart == encodeDesign(Flown)
\* Drafts: one that reads, and has no mission to search, and one over a limit.
Grounded == [Blank EXCEPT !.cases = <<Case("c1", One, "required"), Case("c2", One, "required")>>]
Crowded  == [Flown EXCEPT !.cases = Append(Grounded.cases, Case("c3", One, "desired"))]
MCSaved  == {encodeDesign(Grounded), encodeDesign(Crowded)}

Wire(c, carried) == [kind |-> c.op, carried |-> carried, flaw |-> {}, command |-> c]
Weigh(v)         == Wire([op |-> "SetMass", v |-> v, basis |-> TRUE], {"mass", "basis"})
Reserve          == Wire(Set("SetMissionProfile", [name |-> FALSE, basis |-> TRUE, reserve |-> Half(One)]), {"profile"})
\* A reserve without a name, which Flown keeps and Grounded loses, and a pair that
\* Grounded takes and of which Flown refuses the second.
MCEdits == {<<Reserve>>, <<Weigh(N(64)), Wire(Drop("RemoveCase", "c2"), {"name"})>>}

Between(key, unit) == [driver |-> key, from |-> N(4), to |-> N(16), samples |-> 2, unit |-> unit, flaw |-> {}]
MCSweeps     == {Between("span", "si") @@ [subject |-> "area", case |-> ""]}
MCSearches   == {Between("span", "si") @@ [ceiling |-> N(4)]}
MCNoSettings == [unit |-> "si"]
MCLimits     == [cases |-> 2, reqs |-> 2, components |-> 2, capabilities |-> 2, targets |-> 2, segments |-> 2,
                 auxiliary |-> 2, commands |-> 2]
=============================================================================
