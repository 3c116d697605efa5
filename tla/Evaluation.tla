----------------------------- MODULE Evaluation -----------------------------
(***************************************************************************)
(* The arithmetic and the evaluation harness of the aeronautics core       *)
(* (calculator/units.go, issue.go, evaluate.go, flightcase.go, lift.go).   *)
(*                                                                         *)
(* A quantity is a rational <<n, d>> in SI units.  None is the zero        *)
(* Quantity, "not supplied"; Wrong is a supplied quantity of a dimension   *)
(* the reader does not expect.  The core computes in float64; rationals    *)
(* keep every comparison exact, so requirementTolerance (1e-9), which only *)
(* forgives rounding, has no counterpart.  Units are chosen so that twice  *)
(* standard gravity is 1.                                                  *)
(***************************************************************************)
EXTENDS Integers, Sequences, FiniteSets, SequencesExt

None  == <<>>
Wrong == <<0, 0>>
Number   == Int \X (Nat \ {0})
Quantity == Number \cup {None, Wrong}

\* gcd[b][a]: the greatest common divisor of a and b.
gcd[b \in Nat] == [a \in Nat |-> IF b = 0 THEN a ELSE gcd[a % b][b]]

\* The rational n/d in lowest terms with a positive denominator.
Abs(n)           == IF n < 0 THEN -n ELSE n
Lowest(n, d, g)  == <<n \div g, d \div g>>
Q(n, d)          ==
  IF n = 0 THEN <<0, 1>>
  ELSE IF d < 0 THEN Lowest(-n, -d, gcd[-d][Abs(n)]) ELSE Lowest(n, d, gcd[d][Abs(n)])
Int1(n)    == <<n, 1>>
Zero       == Int1(0)
One        == Int1(1)
Mul(a, b)  == Q(a[1] * b[1], a[2] * b[2])
Div(a, b)  == Q(a[1] * b[2], a[2] * b[1])
Add(a, b)  == Q(a[1] * b[2] + b[1] * a[2], a[2] * b[2])
Sub(a, b)  == Q(a[1] * b[2] - b[1] * a[2], a[2] * b[2])
Leq(a, b)  == a[1] * b[2] <= b[1] * a[2]
Less(a, b) == a[1] * b[2] < b[1] * a[2]
Sq(a)      == Mul(a, a)
Half(a)    == Q(a[1], 2 * a[2])
SumQ(s)    ==
  LET sum[i \in 0 .. Len(s)] == IF i = 0 THEN Zero ELSE Add(sum[i - 1], s[i]) IN sum[Len(s)]
Larger(a, b) == IF Less(a, b) THEN b ELSE a

\* The square root of a rational: exact where its numerator and its denominator are squares.
Root(n)  == CHOOSE r \in 0 .. n : r * r <= n /\ n < (r + 1) * (r + 1)
SqrtQ(a) == Q(Root(a[1]), Root(a[2]))

Supplied(q) == q # None

(***************************************************************************)
(* Issues: the kinds of problems one evaluation met.  A result carries its *)
(* value or, when any issue was recorded, the kinds and no value.          *)
(***************************************************************************)
IssueKind == {"missing", "invalid", "unsupported"}
Ok(v)     == [v |-> v, issues |-> {}]
Fail(k)   == [v |-> None, issues |-> k]

\* evaluation.quantity: supplied, of the port's dimension, and positive.
quantity(q) == IF ~Supplied(q) THEN {"missing"}
               ELSE IF q[1] <= 0 THEN {"invalid"} ELSE {}
\* evaluation.signedQuantity: the sign is meaningful.
signedQuantity(q) == IF ~Supplied(q) THEN {"missing"}
                     ELSE IF q = Wrong THEN {"invalid"} ELSE {}
\* evaluation.scalar: a dimensionless input has no "absent"; zero is invalid.
scalar(v) == IF v[1] <= 0 THEN {"invalid"} ELSE {}
\* evaluation.requireWithin: outside the range the equation covers.
requireWithin(v, low, high) ==
  IF Leq(low, v) /\ Leq(v, high) THEN {} ELSE {"unsupported"}

\* evaluation.finish and finishSigned: any issue suppresses the result.
finish(issues, v) == IF issues # {} THEN Fail(issues)
                     ELSE IF v[1] <= 0 THEN Fail({"invalid"}) ELSE Ok(v)
finishSigned(issues, v) == IF issues # {} THEN Fail(issues) ELSE Ok(v)

\* An evaluation reads on from a step only where nothing was recorded against it.
Then(r, next(_))    == IF r.issues # {} THEN Fail(r.issues) ELSE next(r.v)
Provided(issues, r) == IF issues # {} THEN Fail(issues) ELSE r
\* Steps that do not read from each other: all their values, and all their issues.
Together(rs) == [v |-> [k \in DOMAIN rs |-> rs[k].v], issues |-> UNION {rs[k].issues : k \in DOMAIN rs}]

\* statusForError
statusForError(issues) ==
  IF issues \cap {"invalid", "unsupported"} # {} THEN "invalid" ELSE "missing"

\* reading: a subject's value and whether the model produced it.
Reading(status, v) == [status |-> status, v |-> v]
reading(r) == IF r.issues = {} THEN Reading("computed", r.v)
              ELSE Reading(statusForError(r.issues), None)

(***************************************************************************)
(* A flight case: density and CLmax come with the basis they rest on (TRUE *)
(* when stated) and CLmax with its scope.                                  *)
(***************************************************************************)
density(fc)    == (IF fc.densityBasis THEN {} ELSE {"missing"}) \cup quantity(fc.density)
loadFactor(fc) == scalar(fc.load)
clmax(fc)      ==
  CASE fc.clScope = "section" -> {"unsupported"}
    [] fc.clScope = "unknown" -> {"missing"}
    [] OTHER -> (IF fc.clBasis THEN {} ELSE {"missing"}) \cup scalar(fc.clmax)

\* The equations of lift.go; speeds are returned squared.
StandardGravity == Q(1, 2)
Weight(m)       == finish(quantity(m), Mul(m, StandardGravity))
RequiredLift(fc, m) ==
  finish(quantity(m) \cup loadFactor(fc), Mul(fc.load, Mul(m, StandardGravity)))
WingLoadingMass(m, s) == finish(quantity(m) \cup quantity(s), Div(m, s))
StallSpeed2(fc, m, s) ==
  finish(quantity(m) \cup quantity(s) \cup density(fc) \cup loadFactor(fc) \cup clmax(fc),
         Div(Mul(fc.load, m), Mul(fc.density, Mul(s, fc.clmax))))
MinimumWingArea(fc, m, vs) ==
  finish(quantity(m) \cup quantity(vs) \cup density(fc) \cup loadFactor(fc) \cup clmax(fc),
         Div(Mul(fc.load, m), Mul(fc.density, Mul(Sq(vs), fc.clmax))))
MaximumMass(fc, s, vs) ==
  finish(quantity(s) \cup quantity(vs) \cup density(fc) \cup loadFactor(fc) \cup clmax(fc),
         Div(Mul(Mul(fc.density, Sq(vs)), Mul(s, fc.clmax)), fc.load))
RequiredLiftCoefficient(fc, m, s, v) ==
  finish(quantity(m) \cup quantity(s) \cup density(fc) \cup quantity(v) \cup loadFactor(fc),
         Div(Mul(fc.load, m), Mul(fc.density, Mul(Sq(v), s))))
=============================================================================
