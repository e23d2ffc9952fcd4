----------------------------- MODULE Rationals -----------------------------
(***************************************************************************)
(* Exact decimals (rust_decimal) as reduced fractions [n, d], d > 0.  The  *)
(* code's Decimal carries 28 digits; the values the models form are small  *)
(* enough to be exact in both.                                             *)
(***************************************************************************)
EXTENDS Integers, Sequences

RECURSIVE Gcd(_, _)
Gcd(a, b) == IF b = 0 THEN a ELSE Gcd(b, a % b)

Magnitude(n) == IF n < 0 THEN -n ELSE n

Frac(n, d) ==
  LET g == Gcd(Magnitude(n), Magnitude(d))
      s == IF d < 0 THEN -1 ELSE 1
  IN  [n |-> s * (n \div g), d |-> s * (d \div g)]
Whole(n) == [n |-> n, d |-> 1]
Zero == Whole(0)
One == Whole(1)

Plus(x, y) == Frac(x.n * y.d + y.n * x.d, x.d * y.d)
Negate(x) == [x EXCEPT !.n = -x.n]
Minus(x, y) == Plus(x, Negate(y))
Times(x, y) == Frac(x.n * y.n, x.d * y.d)
Over(x, y) == Frac(x.n * y.d, x.d * y.n)
Less(x, y) == x.n * y.d < y.n * x.d
AtMostQ(x, y) == ~Less(y, x)
AbsQ(x) == [x EXCEPT !.n = Magnitude(x.n)]
MaxQ(x, y) == IF Less(x, y) THEN y ELSE x
MinQ(x, y) == IF Less(y, x) THEN y ELSE x

RECURSIVE SumQ(_)
SumQ(s) == IF s = <<>> THEN Zero ELSE Plus(Head(s), SumQ(Tail(s)))
MeanQ(s) == Over(SumQ(s), Whole(Len(s)))
=============================================================================
