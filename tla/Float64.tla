------------------------------- MODULE Float64 -------------------------------
(***************************************************************************)
(* The float64 arithmetic Go performs in Inject's jitter derivation: a    *)
(* quotient of small integers rounded to a double, its product with an    *)
(* integer rounded to a double, and the truncating conversion back to an  *)
(* integer (time.Duration(x)).  Rounding is IEEE 754 round-half-to-even   *)
(* on a 53-bit significand.                                                *)
(*                                                                         *)
(* The significands exceed TLC's 32-bit integers, so naturals are carried *)
(* as sequences of 14-bit limbs, least significant first.                 *)
(***************************************************************************)
EXTENDS Integers, Sequences, SequencesExt

Base == 16384          \* 2^14
LimbBits == 14
Precision == 53        \* significand bits of a float64

\* Without its most significant zero limbs.
RECURSIVE Norm(_)
Norm(a) == IF a # <<>> /\ a[Len(a)] = 0 THEN Norm(Front(a)) ELSE a

RECURSIVE FromInt(_)
FromInt(n) == IF n = 0 THEN <<>> ELSE <<n % Base>> \o FromInt(n \div Base)

\* For naturals known to fit in an Int.
ToInt(a) == FoldRight(LAMBDA l, acc : acc * Base + l, a, 0)

Limb(a, i) == IF i \in 1..Len(a) THEN a[i] ELSE 0

RECURSIVE AddFrom(_, _, _, _)
AddFrom(a, b, i, carry) ==
    IF i > Len(a) /\ i > Len(b) THEN FromInt(carry)
    ELSE LET t == Limb(a, i) + Limb(b, i) + carry
         IN <<t % Base>> \o AddFrom(a, b, i + 1, t \div Base)
Add(a, b) == Norm(AddFrom(a, b, 1, 0))

\* a * k for 0 <= k < Base.
RECURSIVE MulLimbFrom(_, _, _)
MulLimbFrom(a, k, carry) ==
    IF a = <<>> THEN FromInt(carry)
    ELSE LET t == Head(a) * k + carry
         IN <<t % Base>> \o MulLimbFrom(Tail(a), k, t \div Base)
MulLimb(a, k) == Norm(MulLimbFrom(a, k, 0))

\* a * n for 0 <= n < Base^2.
MulInt(a, n) == Add(MulLimb(a, n % Base), <<0>> \o MulLimb(a, n \div Base))

\* a * 2^k
Shl(a, k) == Norm([i \in 1..(k \div LimbBits) |-> 0] \o MulLimb(a, 2^(k % LimbBits)))

\* Quotient and remainder of a by 0 < d < Base, from the top limb down.
RECURSIVE DivFrom(_, _, _, _)
DivFrom(a, d, i, r) ==
    IF i = 0 THEN [q |-> <<>>, r |-> r]
    ELSE LET t == r * Base + a[i]
             low == DivFrom(a, d, i - 1, t % d)
         IN [q |-> low.q \o <<t \div d>>, r |-> low.r]
DivLimb(a, d) == LET x == DivFrom(a, d, Len(a), 0) IN [q |-> Norm(x.q), r |-> x.r]

\* floor(a / 2^k)
Shr(a, k) ==
    LET dropped == IF k \div LimbBits >= Len(a) THEN <<>>
                   ELSE SubSeq(a, k \div LimbBits + 1, Len(a))
    IN DivLimb(dropped, 2^(k % LimbBits)).q

Odd(a) == Limb(a, 1) % 2 = 1

RECURSIVE IntBits(_)
IntBits(n) == IF n = 0 THEN 0 ELSE 1 + IntBits(n \div 2)
BitLen(a) == IF a = <<>> THEN 0 ELSE LimbBits * (Len(a) - 1) + IntBits(a[Len(a)])

\* a / 2^k rounded half to even.
RoundShr(a, k) ==
    IF k = 0 THEN a
    ELSE LET q == Shr(a, k)
             h == Shr(a, k - 1)
             half == Odd(h)
             sticky == Shl(h, k - 1) # a
         IN IF half /\ (sticky \/ Odd(q)) THEN Add(q, <<1>>) ELSE q

(* A positive double is [m |-> significand, e |-> exponent], the value    *)
(* m / 2^e; e >= 0 for every value below 2^53 met here.                   *)

\* Mutant: the quotient truncated instead of rounded.
QuotientTruncated(n, d) ==
    LET k == CHOOSE j \in 0..7 : n * 2^j >= d /\ (j = 0 \/ n * 2^(j - 1) < d)
        e == Precision - 1 + k
    IN [m |-> DivLimb(Shl(FromInt(n), e), d).q, e |-> e]

\* float64(n) / float64(d), 0 < n <= d <= 100: the significand is scaled
\* into [2^52, 2^53) and the quotient rounded half to even.
Quotient(n, d) ==
    LET k == CHOOSE j \in 0..7 : n * 2^j >= d /\ (j = 0 \/ n * 2^(j - 1) < d)
        e == Precision - 1 + k
        x == DivLimb(Shl(FromInt(n), e), d)
        up == 2 * x.r > d \/ (2 * x.r = d /\ Odd(x.q))
    IN [m |-> IF up THEN Add(x.q, <<1>>) ELSE x.q, e |-> e]

\* x * float64(n), rounded to 53 significant bits.
Product(x, n) ==
    LET p == MulInt(x.m, n)
        drop == IF BitLen(p) > Precision THEN BitLen(p) - Precision ELSE 0
    IN [m |-> Shl(RoundShr(p, drop), drop), e |-> x.e]

\* time.Duration(x): conversion toward zero.
Trunc(x) == ToInt(Shr(x.m, x.e))

====
