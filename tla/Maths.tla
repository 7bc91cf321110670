-------------------------------- MODULE Maths --------------------------------
(***************************************************************************)
(* ExponentialMovingAverage (src/include/maths), the average of trade     *)
(* sides that MarketMaker compares with its decision boundary.  Its        *)
(* doubles are exact rationals here, so what is checked is the algorithm  *)
(* and not its rounding.  The structure is a record and each member that   *)
(* changes it an operator from record to record; StrategyTimer applies     *)
(* them where MarketMaker's handlers call them.                            *)
(***************************************************************************)
EXTENDS Integers

-----------------------------------------------------------------------------
(* Exact rationals, kept reduced with a positive denominator so that equal *)
(* numbers are equal records.                                              *)

RECURSIVE GCD(_, _)
GCD(a, b) == IF b = 0 THEN a ELSE GCD(b, a % b)

QAbs(x) == IF x < 0 THEN -x ELSE x

Q(n, d) ==
    LET g == GCD(QAbs(n), QAbs(d))
        s == IF d < 0 THEN -1 ELSE 1
    IN  [num |-> s * (n \div g), den |-> s * (d \div g)]

QInt(n) == Q(n, 1)
QNeg(x) == [x EXCEPT !.num = -@]
QAdd(x, y) == LET l == (x.den \div GCD(x.den, y.den)) * y.den
              IN  Q(x.num * (l \div x.den) + y.num * (l \div y.den), l)
QSub(x, y) == QAdd(x, QNeg(y))
QMul(x, y) == Q(x.num * y.num, x.den * y.den)
QLe(x, y) == x.num * y.den <= y.num * x.den

Rationals == [num : Int, den : Nat \ {0}]

ALPHA_MIN == QInt(0)
ALPHA_MAX == QInt(1)

\* std::clamp(alpha_, ALPHA_MIN, ALPHA_MAX)
Clamp(x) == IF ~QLe(ALPHA_MIN, x) THEN ALPHA_MIN
            ELSE IF ~QLe(x, ALPHA_MAX) THEN ALPHA_MAX ELSE x

-----------------------------------------------------------------------------
(* ExponentialMovingAverage: alpha, clamped into [ALPHA_MIN, ALPHA_MAX] by *)
(* the constructor, and the average.                                       *)

\* Mutant: alpha taken as given (std::clamp left out of the constructor).
EMAInitUnclamped(a, o) == [alpha |-> a, average |-> o]

EMAInit(a, o) == [alpha |-> Clamp(a), average |-> o]
EMAReset(e, o) == [e EXCEPT !.average = o]
EMAProcess(e, o) == [e EXCEPT !.average = QAdd(@, QMul(e.alpha, QSub(o, @)))]

====
