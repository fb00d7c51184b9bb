---------------------------- MODULE HyliumUnits ----------------------------
(***************************************************************************)
(* The amount codec of the GUI, src/src/qt/hyliumunits.cpp: HyliumUnits:: *)
(* format, formatWithUnit, formatWithPrivacy and parse, over the four      *)
(* display units, and the unit's QDataStream encoding (ToQint8/FromQint8). *)
(* A QString is a sequence of characters; a character is a one-letter     *)
(* string, THIN the thin space U+2009.  Amounts are CAmount values below   *)
(* 2^31 (the caller bounds them).                                          *)
(***************************************************************************)
EXTENDS Integers, Sequences
LOCAL INSTANCE SequencesExt

Units == {"HYL", "mHYL", "uHYL", "SAT"}
SeparatorStyles == {"NEVER", "STANDARD", "ALWAYS"}
THIN == "thin"

MAX_DIGITS_HYL == 16

\* HyliumUnits::factor and HyliumUnits::decimals.
factor   == [HYL |-> 100000000, mHYL |-> 100000, uHYL |-> 100, SAT |-> 1]
decimals == [HYL |-> 8, mHYL |-> 5, uHYL |-> 2, SAT |-> 0]

\* shortName(unit): the unit's ticker, one token here.
shortName(unit) == <<unit>>

\* The characters '0' .. '9': DigitChar[d] for the digit d.
DigitChar == [d \in 0 .. 9 |-> <<"0", "1", "2", "3", "4", "5", "6", "7", "8", "9">>[d + 1]]
IsDigit(c) == \E d \in 0 .. 9 : DigitChar[d] = c
DigitValue(c) == CHOOSE d \in 0 .. 9 : DigitChar[d] = c

\* QString::number(n) for n >= 0: its decimal digits, no leading zero.
RECURSIVE NumberStr(_)
NumberStr(n) ==
    IF n < 10 THEN <<DigitChar[n]>> ELSE NumberStr(n \div 10) \o <<DigitChar[n % 10]>>

\* QString::rightJustified / leftJustified(width, fill): pad to width,
\* a longer string left as it is (truncate = false).
Fill(w, c) == [i \in 1 .. w |-> c]
RightJustified(s, w, c) == IF Len(s) >= w THEN s ELSE Fill(w - Len(s), c) \o s
LeftJustified(s, w, c)  == IF Len(s) >= w THEN s ELSE s \o Fill(w - Len(s), c)

\* for (int i = 3; i < q_size; i += 3) quotient_str.insert(q_size - i, thin_sp);
RECURSIVE InsertSeparators(_, _, _)
InsertSeparators(s, q_size, i) ==
    IF i >= q_size THEN s
    ELSE InsertSeparators(InsertAt(s, q_size - i + 1, THIN), q_size, i + 3)

\* Mutant: the remainder printed without its leading zeros.
FormatNoZeroPad(unit, n, fPlus, separators, justify) ==
    LET n_abs == IF n > 0 THEN n ELSE -n
        q     == NumberStr(n_abs \div factor[unit])
        qj    == IF justify THEN RightJustified(q, MAX_DIGITS_HYL - decimals[unit], " ") ELSE q
        qs    == IF separators = "ALWAYS" \/ (separators = "STANDARD" /\ Len(qj) > 4)
                 THEN InsertSeparators(qj, Len(qj), 3) ELSE qj
        signed == IF n < 0 THEN <<"-">> \o qs ELSE IF fPlus /\ n > 0 THEN <<"+">> \o qs ELSE qs
    IN  IF decimals[unit] > 0 THEN signed \o <<".">> \o NumberStr(n_abs % factor[unit])
        ELSE signed

\* HyliumUnits::format: the quotient, justified to 16 - decimals, thin
\* spaces every three digits from the right, the sign, then the
\* remainder zero-padded to the unit's decimals.
Format(unit, n, fPlus, separators, justify) ==
    LET n_abs == IF n > 0 THEN n ELSE -n
        q     == NumberStr(n_abs \div factor[unit])
        qj    == IF justify THEN RightJustified(q, MAX_DIGITS_HYL - decimals[unit], " ") ELSE q
        qs    == IF separators = "ALWAYS" \/ (separators = "STANDARD" /\ Len(qj) > 4)
                 THEN InsertSeparators(qj, Len(qj), 3) ELSE qj
        signed == IF n < 0 THEN <<"-">> \o qs ELSE IF fPlus /\ n > 0 THEN <<"+">> \o qs ELSE qs
    IN  IF decimals[unit] > 0
        THEN signed \o <<".">> \o RightJustified(NumberStr(n_abs % factor[unit]), decimals[unit], "0")
        ELSE signed

\* formatWithUnit: format(...) + " " + shortName(unit).
FormatWithUnit(unit, amount, plussign, separators) ==
    Format(unit, amount, plussign, separators, FALSE) \o <<" ">> \o shortName(unit)

\* Mutant: the privacy mask formatted without justification.
FormatWithPrivacyUnjustified(unit, amount, separators, privacy) ==
    IF privacy THEN ReplaceAll(Format(unit, 0, FALSE, separators, FALSE), "0", "#") \o <<" ">> \o shortName(unit)
    ELSE Format(unit, amount, FALSE, separators, TRUE) \o <<" ">> \o shortName(unit)

\* formatWithPrivacy (assert(amount >= 0) is the caller's bound): the
\* justified zero with every '0' replaced by '#', or the justified amount.
FormatWithPrivacy(unit, amount, separators, privacy) ==
    IF privacy THEN ReplaceAll(Format(unit, 0, FALSE, separators, TRUE), "0", "#") \o <<" ">> \o shortName(unit)
    ELSE Format(unit, amount, FALSE, separators, TRUE) \o <<" ">> \o shortName(unit)

-----------------------------------------------------------------------------
\* removeSpaces (declared in hyliumunits.h, not in the repository): drops
\* the spaces and thin spaces format puts in.
RemoveSpaces(s) == SelectSeq(s, LAMBDA c : c \notin {" ", THIN})

\* QString::split("."): the fields between the dots (one more than dots).
RECURSIVE SplitDot(_)
SplitDot(s) ==
    LET k == SelectInSeq(s, LAMBDA c : c = ".")
    IN  IF k = 0 THEN <<s>> ELSE <<SubSeq(s, 1, k - 1)>> \o SplitDot(SubSeq(s, k + 1, Len(s)))

\* The value of a string of decimal digits.
DigitsValue(s) == FoldLeft(LAMBDA acc, c : acc * 10 + DigitValue(c), 0, s)

\* QString::toLongLong(&ok), base 10: an optional '+' or '-', then one
\* or more digits; anything else gives ok = false and 0.
ToLongLong(str) ==
    LET signed == Len(str) > 0 /\ str[1] \in {"+", "-"}
        body   == IF signed THEN Tail(str) ELSE str
        ok     == Len(body) > 0 /\ \A i \in 1 .. Len(body) : IsDigit(body[i])
    IN  [ok |-> ok,
         val |-> IF ~ok THEN 0 ELSE IF signed /\ str[1] = "-" THEN -DigitsValue(body) ELSE DigitsValue(body)]

\* Mutant: the fraction padded on the left (rightJustified) instead of the right.
ParseRightPad(unit, value) ==
    IF Len(value) = 0 THEN [ok |-> FALSE, val |-> 0]
    ELSE LET parts == SplitDot(RemoveSpaces(value))
             decs  == IF Len(parts) > 1 THEN parts[2] ELSE <<>>
             str   == parts[1] \o RightJustified(decs, decimals[unit], "0")
         IN  IF Len(parts) > 2 \/ Len(decs) > decimals[unit] \/ Len(str) > 18
             THEN [ok |-> FALSE, val |-> 0]
             ELSE ToLongLong(str)

\* HyliumUnits::parse: the result ok and *val_out (0 on an early return,
\* where val_out is not written).  Spaces dropped, split at '.', at most
\* one dot and decimals[unit] fraction digits, the fraction padded with
\* zeros on the right, at most 18 characters, then toLongLong.
Parse(unit, value) ==
    IF Len(value) = 0 THEN [ok |-> FALSE, val |-> 0]
    ELSE LET parts == SplitDot(RemoveSpaces(value))
             decs  == IF Len(parts) > 1 THEN parts[2] ELSE <<>>
             str   == parts[1] \o LeftJustified(decs, decimals[unit], "0")
         IN  IF Len(parts) > 2 \/ Len(decs) > decimals[unit] \/ Len(str) > 18
             THEN [ok |-> FALSE, val |-> 0]
             ELSE ToLongLong(str)

-----------------------------------------------------------------------------
\* The QDataStream form of a unit (operator<< / operator>>): ToQint8, and
\* FromQint8, which reaches assert(false) on any other byte (result "abort").
ToQint8 == [HYL |-> 0, mHYL |-> 1, uHYL |-> 2, SAT |-> 3]
FromQint8(num) == IF \E u \in Units : ToQint8[u] = num
                  THEN CHOOSE u \in Units : ToQint8[u] = num ELSE "abort"


\* operator<< and operator>> of QDataStream: a unit is written as its
\* qint8, and the qint8 read back (any of -128 .. 127) goes through FromQint8.
StreamOut(unit) == ToQint8[unit]
StreamIn(byte) == FromQint8(byte)

=============================================================================
