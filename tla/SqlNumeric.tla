---------------------------- MODULE SqlNumeric ----------------------------
(***************************************************************************)
(* The scalar values of the SQL tier and their arithmetic                  *)
(* (src/src/sql_types.rs, arithmetic.rs, sql_values.rs).  A value is       *)
(* <<type, payload>>: an integer for I64, U64, Date and Timestamp, a       *)
(* decimal <<mantissa, scale>>, a float [class, n] whose class is one of   *)
(* -inf, num, -0, +0, +inf, nan (n is a finite float's exact value, or a   *)
(* NaN's payload), and a piece of text as a sequence of characters.  The   *)
(* widths of the code (38 digits, i128, i64, u64, microseconds) are        *)
(* constants, so that a small instance reaches the edges.                  *)
(***************************************************************************)
EXTENDS Integers, Sequences, SequencesExt, FiniteSets

CONSTANTS DECIMAL_MAX_PRECISION,  \* 38
          I128Max,                \* above 10^38 - 1, below 10^39
          I64Max, U64Max,         \* the largest I64 and U64
          DivideDigits,           \* 4, the extra digits of decimal_divide
          SecondMicros,           \* 10^6 microseconds
          FractionDigits,         \* 6
          MinTimestamp, MaxTimestamp,
          MinDate, MaxDate

OutOfRange == <<"error", "out of range">>
DivisionByZero == <<"error", "division by zero">>
Unsupported == <<"error", "unsupported">>
Malformed == <<"error", "malformed">>
Mismatch == <<"error", "datatype mismatch">>
NotNull == <<"error", "not null">>
IsError(v) == v[1] = "error"
NullValue == <<"Null", 0>>

Abs(n) == IF n < 0 THEN -n ELSE n
Sign(n) == IF n < 0 THEN -1 ELSE IF n = 0 THEN 0 ELSE 1
(* Division of the machine: the quotient truncates towards zero and the    *)
(* remainder has the sign of the dividend.                                 *)
Quot(a, b) == Sign(a) * Sign(b) * (Abs(a) \div Abs(b))
Rem(a, b) == a - b * Quot(a, b)
Pow10(k) == 10^k
FitsI128(n) == Abs(n) <= I128Max

---------------------------------------------------------------------------
(* Decimals.  10^38 fits i128 and 10^39 does not: checked_pow.             *)
Pow(k) == IF k <= DECIMAL_MAX_PRECISION THEN <<"ok", Pow10(k)>> ELSE OutOfRange

digit_count(mantissa) ==
    LET abs == Abs(mantissa) IN
    IF abs = 0 THEN 0 ELSE CHOOSE d \in 1..9 : Pow10(d - 1) <= abs /\ abs < Pow10(d)

new_decimal(mantissa, scale) ==
    IF scale > DECIMAL_MAX_PRECISION \/ digit_count(mantissa) + scale > DECIMAL_MAX_PRECISION
    THEN OutOfRange ELSE <<"Decimal", <<mantissa, scale>>>>

(* The mantissa loses trailing zeros as long as the scale allows it.       *)
normalized(d) ==
    LET drop == CHOOSE k \in 0..d[2] :
                   /\ d[1] % Pow10(k) = 0
                   /\ k = d[2] \/ d[1] % Pow10(k + 1) # 0
    IN <<Quot(d[1], Pow10(drop)), d[2] - drop>>

(* Rounds half away from zero when the target is coarser.                  *)
Widened(mantissa, p, target) ==
    IF IsError(p) \/ ~FitsI128(mantissa * p[2]) THEN OutOfRange ELSE new_decimal(mantissa * p[2], target)
rescale(d, target) ==
    IF target >= d[2] THEN Widened(d[1], Pow(target - d[2]), target)
    ELSE LET divisor == Pow10(d[2] - target)
             away == IF Abs(Rem(d[1], divisor)) >= divisor \div 2 THEN Sign(d[1]) ELSE 0
         IN new_decimal(Quot(d[1], divisor) + away, target)

(* Ord for DecimalValue: -1, 0 or 1.  An alignment that leaves i128 means  *)
(* the side with the smaller scale wins by its sign.                       *)
AlignedOrder(small, large) ==
    LET aligned == small[1] * Pow10(large[2] - small[2])
    IN IF FitsI128(aligned) THEN Sign(aligned - large[1]) ELSE IF small[1] >= 0 THEN 1 ELSE -1
decimal_cmp(a, b) == IF a[2] > b[2] THEN -AlignedOrder(b, a) ELSE AlignedOrder(a, b)

AddAligned(left, right, sign, scale) ==
    IF IsError(left) \/ IsError(right) THEN OutOfRange
    ELSE new_decimal(left[2][1] + sign * right[2][1], scale)
decimal_add(l, r, sign) ==
    LET scale == IF l[2] > r[2] THEN l[2] ELSE r[2]
    IN AddAligned(rescale(l, scale), rescale(r, scale), sign, scale)

RoundedQuotient(n, d) ==
    Quot(n, d) + (IF Abs(Rem(n, d)) * 2 >= Abs(d) THEN Sign(n) * Sign(d) ELSE 0)
DivideScaled(l, r, factor, target) ==
    IF IsError(factor) \/ ~FitsI128(l * factor[2]) THEN OutOfRange
    ELSE new_decimal(RoundedQuotient(l * factor[2], r), target)
decimal_divide(l, r) ==
    LET target == l[2] + digit_count(r[1]) + DivideDigits
    IN IF r[1] = 0 THEN DivisionByZero ELSE DivideScaled(l[1], r[1], Pow(target + r[2] - l[2]), target)

---------------------------------------------------------------------------
(* Floats.                                                                 *)
IsNaN(f) == f.class = "nan"
IsZero(f) == f.class \in {"+0", "-0"}
canonical_bits(f) ==
    IF IsZero(f) THEN [class |-> "+0", n |-> 0]
    ELSE IF IsNaN(f) THEN [class |-> "nan", n |-> 0] ELSE f
(* PartialEq: machine equality, except that NaN equals NaN.                *)
float_eq(f, g) == IF IsNaN(f) \/ IsNaN(g) THEN IsNaN(f) /\ IsNaN(g)
                  ELSE (IsZero(f) /\ IsZero(g)) \/ f = g
FloatRank(f) == CASE f.class = "-inf" -> 0
                  [] f.class = "num" /\ f.n < 0 -> 1
                  [] f.class = "-0" -> 2
                  [] f.class = "+0" -> 3
                  [] f.class = "num" /\ f.n > 0 -> 4
                  [] f.class = "+inf" -> 5
                  [] OTHER -> 6

(* Ord: NaN is the greatest; total_cmp, which orders the zeros, is not     *)
(* asked about two zeros.                                                  *)
float_cmp(f, g) ==
    IF IsNaN(f) \/ IsNaN(g) THEN (IF IsNaN(f) THEN 1 ELSE 0) - (IF IsNaN(g) THEN 1 ELSE 0)
    ELSE IF IsZero(f) /\ IsZero(g) THEN 0
    ELSE IF FloatRank(f) = FloatRank(g) THEN Sign(f.n - g.n)
    ELSE Sign(FloatRank(f) - FloatRank(g))
Finite(n) == IF n = 0 THEN [class |-> "+0", n |-> 0] ELSE [class |-> "num", n |-> n]
FloatValue(f) == <<"Float64", f>>

---------------------------------------------------------------------------
(* Keys and equality of values: encode_for_key against PartialEq.          *)
encode_for_key(v) ==
    IF v[1] = "Decimal" THEN <<"Decimal", normalized(v[2])>>
    ELSE IF v[1] = "Float64" THEN <<"Float64", canonical_bits(v[2])>> ELSE v
value_eq(v, w) ==
    IF v[1] # w[1] THEN FALSE
    ELSE IF v[1] = "Decimal" THEN decimal_cmp(v[2], w[2]) = 0
    ELSE IF v[1] = "Float64" THEN float_eq(v[2], w[2]) ELSE v = w

---------------------------------------------------------------------------
(* arithmetic::evaluate.  Float operands need their machine rounding, so   *)
(* only what the code decides is kept: the type of the result and the      *)
(* division by zero.                                                       *)
Numeric == {"I64", "U64", "Float64", "Decimal"}
sql_decimal(v) == IF v[1] = "Decimal" THEN v ELSE new_decimal(v[2], 0)

integer_result(op, l, r) ==
    CASE op = "Plus" -> l + r
      [] op = "Minus" -> l - r
      [] op = "Multiply" -> l * r
      [] op = "Divide" -> Quot(l, r)
      [] op = "Modulo" -> Rem(l, r)

InWidth(unsigned, value) ==
    IF unsigned THEN IF value \in 0..U64Max THEN <<"U64", value>> ELSE OutOfRange
    ELSE IF value \in (-I64Max - 1)..I64Max THEN <<"I64", value>> ELSE OutOfRange
evaluate_integers(op, l, r) ==
    IF op \in {"Divide", "Modulo"} /\ r[2] = 0 THEN DivisionByZero
    ELSE InWidth(l[1] = "U64" /\ r[1] = "U64", integer_result(op, l[2], r[2]))

evaluate_decimals(op, l, r) ==
    LET ld == sql_decimal(l)
        rd == sql_decimal(r)
    IN IF IsError(ld) \/ IsError(rd) THEN OutOfRange
       ELSE CASE op \in {"Plus", "Minus"} -> decimal_add(ld[2], rd[2], IF op = "Plus" THEN 1 ELSE -1)
              [] op = "Multiply" -> IF FitsI128(ld[2][1] * rd[2][1])
                                    THEN new_decimal(ld[2][1] * rd[2][1], ld[2][2] + rd[2][2])
                                    ELSE OutOfRange
              [] op = "Divide" -> decimal_divide(ld[2], rd[2])
              [] OTHER -> Unsupported

evaluate(op, l, r) ==
    IF l[1] = "Null" \/ r[1] = "Null" THEN NullValue
    ELSE IF {l[1], r[1]} \subseteq Numeric /\ "Float64" \in {l[1], r[1]}
         THEN IF op = "Modulo" THEN Unsupported
              ELSE IF op = "Divide" /\ (IF r[1] = "Float64" THEN IsZero(r[2])
                                        ELSE IF r[1] = "Decimal" THEN r[2][1] = 0 ELSE r[2] = 0)
                      /\ ~(l[1] = "Float64" /\ IsNaN(l[2])) THEN DivisionByZero
              ELSE <<"Float64", "computed">>
    ELSE IF {l[1], r[1]} \subseteq Numeric /\ "Decimal" \in {l[1], r[1]} THEN evaluate_decimals(op, l, r)
    ELSE IF {l[1], r[1]} \subseteq {"I64", "U64"} THEN evaluate_integers(op, l, r)
    ELSE <<"error", "invalid operands">>
===========================================================================
