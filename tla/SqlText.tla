------------------------------ MODULE SqlText -----------------------------
(***************************************************************************)
(* Text, calendar and conversions of the SQL tier                          *)
(* (src/src/sql_types.rs, sql_values.rs).  Text is a sequence of           *)
(* characters; a date text is <<year, month, day>> and a time of day       *)
(* [hour, minute, second, fraction], the fields a literal spells, with the *)
(* fraction as its sequence of digits.                                     *)
(***************************************************************************)
EXTENDS SqlNumeric

Digits == <<"0", "1", "2", "3", "4", "5", "6", "7", "8", "9">>
DigitOf(c) == (CHOOSE i \in 1..10 : Digits[i] = c) - 1
IsDigit(c) == \E i \in 1..10 : Digits[i] = c
AllDigits(s) == \A i \in DOMAIN s : IsDigit(s[i])
Number(s) == FoldLeft(LAMBDA n, c : n * 10 + DigitOf(c), 0, s)
(* The k lowest digits of n, most significant first.                       *)
LowDigits(n, k) == [i \in 1..k |-> Digits[((n \div Pow10(k - i)) % 10) + 1]]
Spell(n) == IF n = 0 THEN <<"0">> ELSE LowDigits(n, digit_count(n))
Zeros(k) == [i \in 1..k |-> "0"]
Find(s, chars) == {i \in DOMAIN s : s[i] \in chars}
First(S) == CHOOSE i \in S : \A j \in S : i <= j

(* decimal_text: the stored scale is part of the text.                     *)
decimal_text(d) ==
    LET sign == IF d[1] < 0 THEN <<"-">> ELSE <<>>
        abs == Abs(d[1])
        total == digit_count(abs)
        body == IF d[2] = 0 THEN Spell(abs)
                ELSE IF abs = 0 THEN <<"0", ".">> \o Zeros(d[2])
                ELSE IF total <= d[2] THEN <<"0", ".">> \o Zeros(d[2] - total) \o Spell(abs)
                ELSE SubSeq(Spell(abs), 1, total - d[2]) \o <<".">> \o LowDigits(abs, d[2])
    IN sign \o body

(* A text as a signed machine integer of the exponent: parse::<i32>.       *)
ParseInt(s) ==
    LET body == IF s # <<>> /\ s[1] \in {"-", "+"} THEN Tail(s) ELSE s IN
    IF body = <<>> \/ ~AllDigits(body) THEN Malformed
    ELSE <<"ok", IF s[1] = "-" THEN -Number(body) ELSE Number(body)>>

(* The text without its leading plus signs.                                *)
StripPlus(s) ==
    LET keep == {i \in DOMAIN s : s[i] # "+"} IN
    IF keep = {} THEN <<>> ELSE SubSeq(s, First(keep), Len(s))

(* What lies before and after the first of some characters.                *)
Split(s, chars) ==
    LET at == Find(s, chars) IN
    IF at = {} THEN <<s>> ELSE <<SubSeq(s, 1, First(at) - 1), SubSeq(s, First(at) + 1, Len(s))>>

(* parse_decimal_text: a sign, digits with one point and an exponent.      *)
FromMantissa(mantissa, scale) ==
    IF ~FitsI128(mantissa) THEN OutOfRange
    ELSE IF scale >= 0 THEN new_decimal(mantissa, scale)
    ELSE IF IsError(Pow(-scale)) THEN Malformed
    ELSE IF ~FitsI128(mantissa * Pow10(-scale)) THEN OutOfRange
    ELSE new_decimal(mantissa * Pow10(-scale), 0)
FromDigits(sign, digits, scale) ==
    IF digits = <<>> \/ ~AllDigits(digits) THEN Malformed ELSE FromMantissa(sign * Number(digits), scale)
FromParts(sign, parts, exponent) ==
    IF IsError(exponent) THEN Malformed
    ELSE IF Len(parts) = 1 THEN FromDigits(sign, parts[1], -exponent[2])
    ELSE FromDigits(sign, parts[1] \o parts[2], Len(parts[2]) - exponent[2])
FromUnsigned(sign, parts) ==
    FromParts(sign, Split(parts[1], {"."}), IF Len(parts) = 1 THEN <<"ok", 0>> ELSE ParseInt(parts[2]))
parse_decimal_text(s) ==
    IF s # <<>> /\ s[1] = "-" THEN FromUnsigned(-1, Split(StripPlus(Tail(s)), {"e", "E"}))
    ELSE FromUnsigned(1, Split(StripPlus(s), {"e", "E"}))

---------------------------------------------------------------------------
(* The calendar: civil_from_days and days_from_civil.  \div and % of TLA+  *)
(* round down; the code's divisions truncate, and its era is adjusted.     *)
civil_from_days(days) ==
    LET z == days + 719468
        era == Quot(IF z >= 0 THEN z ELSE z - 146096, 146097)
        doe == z - era * 146097
        yoe == Quot(doe - Quot(doe, 1460) + Quot(doe, 36524) - Quot(doe, 146096), 365)
        doy == doe - (365 * yoe + Quot(yoe, 4) - Quot(yoe, 100))
        mp == Quot(5 * doy + 2, 153)
        month == IF mp < 10 THEN mp + 3 ELSE mp - 9
        year == yoe + era * 400
    IN <<IF month <= 2 THEN year + 1 ELSE year, month, doy - Quot(153 * mp + 2, 5) + 1>>

days_from_civil(year, month, day) ==
    LET y == IF month <= 2 THEN year - 1 ELSE year
        era == Quot(IF y >= 0 THEN y ELSE y - 399, 400)
        yoe == y - era * 400
        doy == Quot(153 * (IF month > 2 THEN month - 3 ELSE month + 9) + 2, 5) + day - 1
    IN era * 146097 + yoe * 365 + Quot(yoe, 4) - Quot(yoe, 100) + doy - 719468

is_gregorian_valid(year, month, day) ==
    LET leap == Rem(year, 4) = 0 /\ (Rem(year, 100) # 0 \/ Rem(year, 400) = 0)
        length == CASE month \in {4, 6, 9, 11} -> 30
                    [] month = 2 -> IF leap THEN 29 ELSE 28
                    [] month \in {1, 3, 5, 7, 8, 10, 12} -> 31
                    [] OTHER -> 0
    IN day <= length

from_days(days) == IF days \in MinDate..MaxDate THEN <<"Date", days>> ELSE OutOfRange
from_micros(micros) == IF micros \in MinTimestamp..MaxTimestamp THEN <<"Timestamp", micros>> ELSE OutOfRange

(* Four year digits, two month digits and two day digits.                  *)
parse_date_text(year, month, day) ==
    IF month \in 1..12 /\ day \in 1..31 /\ is_gregorian_valid(year, month, day)
    THEN from_days(days_from_civil(year, month, day)) ELSE Malformed

HourMicros == 3600 * SecondMicros
MinuteMicros == 60 * SecondMicros
DayMicros == 24 * HourMicros

(* A time whose seconds are left out has second 0; up to six fraction      *)
(* digits, padded with zeros on the right.                                 *)
parse_timestamp_text(date, time) ==
    LET day == parse_date_text(date[1], date[2], date[3])
        padded == SubSeq(time.fraction \o Zeros(FractionDigits), 1, FractionDigits)
    IN IF IsError(day) THEN day
       ELSE IF ~(time.hour \in 0..24 /\ time.minute \in 0..60 /\ time.second \in 0..60) THEN Malformed
       ELSE IF Len(time.fraction) > FractionDigits \/ ~AllDigits(time.fraction) THEN Malformed
       ELSE from_micros(day[2] * DayMicros + time.hour * HourMicros + time.minute * MinuteMicros
                        + time.second * SecondMicros + Number(padded))

(* timestamp_text, as the date and the time it spells; trailing zeros of   *)
(* the fraction are dropped.                                               *)
timestamp_text(micros) ==
    LET time == micros % DayMicros
        fraction == LowDigits(time % SecondMicros, FractionDigits)
        significant == {i \in 1..FractionDigits : fraction[i] # "0"}
    IN [date |-> civil_from_days(micros \div DayMicros),
        time |-> [hour |-> time \div HourMicros,
                  minute |-> (time \div MinuteMicros) % 60,
                  second |-> (time \div SecondMicros) % 60,
                  fraction |-> IF significant = {} THEN <<>>
                               ELSE SubSeq(fraction, 1, CHOOSE i \in significant :
                                                           \A j \in significant : j <= i)]]

DateFields == {"year", "month", "day"}
TimeFields == {"hour", "minute", "second"}

datetime_part_value(field, v) ==
    IF v[1] = "Null" THEN NullValue
    ELSE IF v[1] \notin {"Date", "Timestamp"} THEN Unsupported
    ELSE IF field = "epoch"
         THEN IF v[1] = "Date" THEN <<"I64", v[2] * 86400>> ELSE new_decimal(v[2], FractionDigits)
    ELSE LET days == IF v[1] = "Date" THEN v[2] ELSE v[2] \div DayMicros
             time == IF v[1] = "Date" THEN 0 ELSE v[2] % DayMicros
             civil == civil_from_days(days)
         IN CASE field = "year" -> <<"I64", civil[1]>>
              [] field = "month" -> <<"I64", civil[2]>>
              [] field = "day" -> <<"I64", civil[3]>>
              [] field = "hour" -> <<"I64", time \div HourMicros>>
              [] field = "minute" -> <<"I64", (time \div MinuteMicros) % 60>>
              [] field = "second" -> <<"I64", (time \div SecondMicros) % 60>>
              [] OTHER -> Unsupported

date_trunc(field, v) ==
    LET days == IF v[1] = "Date" THEN v[2] ELSE v[2] \div DayMicros
        civil == civil_from_days(days)
        start == CASE field = "year" -> days_from_civil(civil[1], 1, 1)
                   [] field = "month" -> days_from_civil(civil[1], civil[2], 1)
                   [] OTHER -> days
        time == IF v[1] = "Date" THEN 0 ELSE v[2] % DayMicros
    IN IF v[1] = "Null" THEN NullValue
       ELSE IF v[1] \notin {"Date", "Timestamp"} THEN Unsupported
       ELSE IF v[1] = "Date" /\ field \notin DateFields THEN Unsupported
       ELSE IF field \notin DateFields \cup {"hour", "minute"} THEN Unsupported
       ELSE from_micros(start * DayMicros
                        + (IF field = "hour" THEN (time \div HourMicros) * HourMicros
                           ELSE IF field = "minute" THEN (time \div MinuteMicros) * MinuteMicros ELSE 0))

---------------------------------------------------------------------------
(* coerce_value: a literal into a column.  Text parses through the grammar *)
(* of the column's type; only the decimal grammar is spelled out here.     *)
OrMismatch(parsed) == IF IsError(parsed) THEN Mismatch ELSE parsed
Converted(v, type) ==
    CASE v[1] = "I64" /\ type = "U64" -> IF v[2] \in 0..U64Max THEN <<"U64", v[2]>> ELSE OutOfRange
      [] v[1] = "U64" /\ type = "I64" -> IF v[2] <= I64Max THEN <<"I64", v[2]>> ELSE OutOfRange
      [] v[1] \in {"I64", "U64"} /\ type = "Float64" -> FloatValue(Finite(v[2]))
      [] v[1] = "Decimal" /\ type = "Float64" -> <<"Float64", "computed">>
      [] v[1] \in {"I64", "U64"} /\ type = "Decimal" -> new_decimal(v[2], 0)
      [] v[1] = "Text" /\ type = "Decimal" -> OrMismatch(parse_decimal_text(v[2]))
      [] OTHER -> v
Accepted(converted, column) ==
    IF IsError(converted) THEN converted
    ELSE IF converted[1] = "Null" /\ ~column.nullable THEN NotNull
    ELSE IF converted[1] \notin {"Null", column.type} THEN Mismatch
    ELSE converted
coerce_value(v, column) == Accepted(Converted(v, column.type), column)

(* The unary minus of literal_value.                                       *)
negate_literal(v) ==
    CASE v[1] = "I64" -> IF v[2] = -I64Max - 1 THEN OutOfRange ELSE <<"I64", -v[2]>>
      [] v[1] = "Decimal" -> new_decimal(-v[2][1], v[2][2])
      [] OTHER -> <<"error", "invalid operands">>

(* A number of the parser: i64 when it fits, otherwise a decimal.          *)
literal_number(s) ==
    IF AllDigits(s) /\ s # <<>> /\ Number(s) <= I64Max THEN <<"I64", Number(s)>>
    ELSE LET parsed == parse_decimal_text(s) IN IF IsError(parsed) THEN OutOfRange ELSE parsed

scalar_abs(v) ==
    CASE v[1] = "I64" -> IF v[2] = -I64Max - 1 THEN OutOfRange ELSE <<"I64", Abs(v[2])>>
      [] v[1] = "Decimal" -> new_decimal(Abs(v[2][1]), v[2][2])
      [] v[1] = "Null" -> NullValue
      [] OTHER -> Unsupported
===========================================================================
