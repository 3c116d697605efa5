----------------------------- MODULE MassBalance ----------------------------
(***************************************************************************)
(* The mechanical balance of the listed components and the all-up mass a   *)
(* design is judged at (calculator/mass.go).  A component is a record      *)
(* [name, mass, pos] whose pos is a triple of coordinates.                 *)
(***************************************************************************)
EXTENDS Evaluation

Axes == 1 .. 3

Placed(item)      == \A a \in Axes : Supplied(item.pos[a])
contributes(item) == Supplied(item.mass) /\ Placed(item)

componentMoment(m, r) == finishSigned(quantity(m) \cup signedQuantity(r), Mul(m, r))

\* massContribution: one rejected axis leaves the whole item out.
contributionOf(item, moments) ==
  [name |-> item.name, known |-> contributes(item) /\ moments.issues = {}, mass |-> item.mass,
   moments |-> IF contributes(item) /\ moments.issues = {} THEN moments.v ELSE <<>>]
massContribution(item) ==
  contributionOf(item, Together([a \in Axes |-> componentMoment(item.mass, item.pos[a])]))

\* sumOf over contributingMass and contributingMoment: every item that contributes.
sumOf(items, of) == SumQ([i \in 1 .. Len(items) |-> IF contributes(items[i]) THEN of[items[i]] ELSE Zero])

totalMass(items) == sumOf(items, [it \in ToSet(items) |-> it.mass])

centerOfGravity(moment, total) ==
  finishSigned(signedQuantity(moment) \cup quantity(total), Div(moment, total))

\* MassProperties and finish.
momentAlong(items, a) ==
  sumOf(items, [it \in {x \in ToSet(items) : contributes(x)} |-> Mul(it.mass, it.pos[a])])
balanceOf(items, parts, total) ==
  LET known    == {i \in DOMAIN parts : parts[i].known}
      none(st) == [status |-> st, total |-> None, cg |-> <<>>, parts |-> parts,
                   complete |-> Len(items) > 0 /\ known = DOMAIN parts]
  IN  IF known = {} THEN none("missing")
      ELSE IF total.issues # {} THEN none(statusForError(total.issues))
      ELSE [none("computed") EXCEPT !.total = total.v,
                                    !.cg = [a \in Axes |-> centerOfGravity(momentAlong(items, a), total.v).v]]
MassProperties(items) ==
  balanceOf(items, [i \in 1 .. Len(items) |-> massContribution(items[i])], finish({}, totalMass(items)))

StationFractionOfMAC(x, le, mac) ==
  finishSigned(signedQuantity(x) \cup signedQuantity(le) \cup quantity(mac), Div(Sub(x, le), mac))

\* massReading: the entered figure, or a complete inventory's total.
inventoryReading(mp) ==
  IF mp.status # "computed" THEN Reading(mp.status, None)
  ELSE IF mp.complete THEN Reading("computed", mp.total) ELSE Reading("missing", None)
massReading(d) ==
  IF d.massMode = "components" THEN inventoryReading(MassProperties(d.components))
  ELSE IF Supplied(d.mass) THEN Reading("computed", d.mass) ELSE Reading("missing", None)

\* CaseLoads: the lift each case demands, in case order.
loadAt(fc, mass) == IF mass.status # "computed" THEN mass ELSE reading(RequiredLift(fc, mass.v))
CaseLoads(d)     == [i \in 1 .. Len(d.cases) |-> loadAt(d.cases[i], massReading(d))]
=============================================================================
