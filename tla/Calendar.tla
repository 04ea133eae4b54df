-------------------------------- MODULE Calendar --------------------------------
(***************************************************************************)
(* Time as text: the days that sp_time_exp_t::geti counts, the forms that  *)
(* dates are written in, and Time::fromHttp, which reads them and others   *)
(* of the kind.  A text is a sequence of characters.  gmtime and localtime *)
(* are taken to know the calendar: here it goes on day by day.             *)
(*                                                                         *)
(* A moment is its day since 1970 and its second of that day.  Fractions   *)
(* of a second, which are floating-point numbers when read, are left out.  *)
(* localtime's offset is one number: ltz_geti takes that of the present    *)
(* for a time of any season.                                               *)
(***************************************************************************)
EXTENDS Integers, Sequences, SequencesExt

CONSTANTS
    Starts,      \* the days to begin with, each the 1st of January of a year
    Span,        \* bound: how many days from there
    Clock,       \* times of a day, as hour, minute and second
    Locals,      \* minutes that a local time is ahead of GMT, or behind if negative
    Zones        \* minutes of the zones that others write as an offset of four digits

VARIABLES
    day,     \* the day since 1 January 1970
    date,    \* its year (since 1900), month (from 0), day of the month and weekday (0 for Sunday)
    left     \* the days that are still to come

vars == <<day, date, left>>

IsLeap(year) == LET y == 1900 + year IN y % 4 = 0 /\ (y % 100 = 0 => y % 400 = 0)

MonthLength(year, mon) ==
    IF mon = 1 THEN (IF IsLeap(year) THEN 29 ELSE 28) ELSE IF mon \in {3, 5, 8, 10} THEN 30 ELSE 31

DayAfter(d) ==
    LET weekday == (d.wday + 1) % 7
    IN  IF d.mday < MonthLength(d.year, d.mon) THEN [d EXCEPT !.mday = @ + 1, !.wday = weekday]
        ELSE IF d.mon < 11 THEN [d EXCEPT !.mon = @ + 1, !.mday = 1, !.wday = weekday]
        ELSE [year |-> d.year + 1, mon |-> 0, mday |-> 1, wday |-> weekday]

Init ==
    /\ \E start \in Starts :
         /\ day = start.day
         /\ date = [year |-> start.year, mon |-> 0, mday |-> 1, wday |-> (4 + start.day) % 7]
    /\ left = Span

Tomorrow == left > 0 /\ left' = left - 1 /\ day' = day + 1 /\ date' = DayAfter(date)

Next == Tomorrow

Spec == Init /\ [][Next]_vars

--------------------------------------------------------------------------------
(* Moments *)

DayOffset == <<306, 337, 0, 31, 61, 92, 122, 153, 184, 214, 245, 275>>

\* Mutant: a century's leap year is that of the next one.
CenturyDaysEarly(year) == (year \div 100 + 4) \div 4

\* The days by which the centuries that are leap years make up for the others.
CenturyDays(year) == (year \div 100 + 3) \div 4

\* geti: the year begins in March, days are counted from 1 March 1900.
Geti(e) ==
    LET year == IF e.mon < 2 THEN e.year - 1 ELSE e.year
        days == (year * 365) + (year \div 4) - (year \div 100) + CenturyDays(year)
    IN  <<days + DayOffset[e.mon + 1] + e.mday - 1 - 25508, (e.hour * 3600) + (e.min * 60) + e.sec>>

Minus(moment, seconds) ==
    LET second == moment[2] - seconds
    IN  <<moment[1] + (second \div 86400), second % 86400>>

--------------------------------------------------------------------------------
(* Writing *)

Numerals == <<"0", "1", "2", "3", "4", "5", "6", "7", "8", "9">>
One(n) == <<Numerals[n + 1]>>
Two(n) == One(n \div 10) \o One(n % 10)
Four(n) == Two(n \div 100) \o Two(n % 100)

Months == <<<<"J", "a", "n">>, <<"F", "e", "b">>, <<"M", "a", "r">>, <<"A", "p", "r">>,
            <<"M", "a", "y">>, <<"J", "u", "n">>, <<"J", "u", "l">>, <<"A", "u", "g">>,
            <<"S", "e", "p">>, <<"O", "c", "t">>, <<"N", "o", "v">>, <<"D", "e", "c">>>>

Days == <<<<"S", "u", "n">>, <<"M", "o", "n">>, <<"T", "u", "e">>, <<"W", "e", "d">>,
          <<"T", "h", "u">>, <<"F", "r", "i">>, <<"S", "a", "t">>>>

GMT == <<"G", "M", "T">>
Hms(t) == Two(t[1]) \o <<":">> \o Two(t[2]) \o <<":">> \o Two(t[3])

\* encodeRfc822, encodeCTime and encodeIso8601 without a fraction
Rfc822(d, t) ==
    Days[d.wday + 1] \o <<",", " ">> \o Two(d.mday) \o <<" ">> \o Months[d.mon + 1] \o <<" ">>
        \o Four(1900 + d.year) \o <<" ">> \o Hms(t) \o <<" ">> \o GMT

CTime(d, t) ==
    Days[d.wday + 1] \o <<" ">> \o Months[d.mon + 1] \o <<" ">> \o Two(d.mday) \o <<" ">>
        \o Hms(t) \o <<" ">> \o Four(1900 + d.year)

Ymd(d) == Four(1900 + d.year) \o <<"-">> \o Two(d.mon + 1) \o <<"-">> \o Two(d.mday)

Iso8601(d, t) == Ymd(d) \o <<"T">> \o Hms(t) \o <<"Z">>

\* Others write the date with dots, or the day of the month in one digit, or the year in two,
\* or the time of another zone.
Dotted(d) == Two(d.mday) \o <<".">> \o Two(d.mon + 1) \o <<".">> \o Four(1900 + d.year)

OneDigit(d, t) ==
    (IF d.mday < 10 THEN One(d.mday) ELSE Two(d.mday))
        \o <<" ">> \o Months[d.mon + 1] \o <<" ">> \o Four(1900 + d.year) \o <<" ">> \o Hms(t) \o <<" ">> \o GMT

Rfc850(d, t) ==
    Days[d.wday + 1] \o <<"d", "a", "y", ",", " ">> \o Two(d.mday) \o <<"-">> \o Months[d.mon + 1]
        \o <<"-">> \o Two(d.year % 100) \o <<" ">> \o Hms(t) \o <<" ">> \o GMT

Atom(d, t, zone) == Ymd(d) \o <<"T">> \o Hms(t) \o zone

--------------------------------------------------------------------------------
(* Reading: positions in a text count from 0 *)

Digit == ToSet(Numerals)
Lower == {"a", "b", "c", "d", "e", "g", "h", "i", "l", "n", "o", "p", "r", "t", "u", "v", "y"}
Upper == {"A", "D", "F", "G", "J", "M", "N", "O", "S", "T", "W", "Z"}

Is(c, mark) ==
    CASE mark = "#" -> c \in Digit
      [] mark = "~" -> c \in Digit \cup {" "}
      [] mark = "@" -> c \in Upper
      [] mark = "$" -> c \in Lower
      [] OTHER -> c = mark

\* sp_date_checkmask; a star stands at the end of a mask only.
CheckMask(text, mask) ==
    LET fixed == SelectSeq(mask, LAMBDA mark : mark # "*")
    IN  /\ Len(text) >= Len(fixed) /\ (fixed = mask => Len(text) = Len(fixed))
        /\ \A i \in DOMAIN fixed : Is(text[i], fixed[i])

YmdMask == <<"#", "#", "#", "#", "-", "#", "#", "-", "#", "#">>
HmsMask == <<"#", "#", ":", "#", "#", ":", "#", "#">>
NameMask == <<"@", "$", "$">>

Value == [c \in Digit |-> SelectInSeq(Numerals, LAMBDA n : n = c) - 1]
At(text, i) == text[i + 1]
Sub(text, i) == SubSeq(text, i + 1, Len(text))
Number(text, i) == (10 * Value[At(text, i)]) + Value[At(text, i + 1)]
Year(text, i) == ((Number(text, i) - 19) * 100) + Number(text, i + 2)

RECURSIVE SkipUntilDigit(_), Digits(_)
SkipUntilDigit(text) == IF text = <<>> \/ Head(text) \in Digit THEN text ELSE SkipUntilDigit(Tail(text))
Digits(text) == IF text = <<>> \/ Head(text) \notin Digit THEN <<>> ELSE <<Head(text)>> \o Digits(Tail(text))

\* sp_time_exp_check_mon, and what sp_time_exp_read_mon checks. A month 00, which is not
\* refused, is left out.
CheckMon(e) ==
    /\ e.mday > 0 /\ e.mday <= 31 /\ e.mon < 12
    /\ ~(e.mday = 31 /\ e.mon \in {3, 5, 8, 10})
    /\ ~(e.mon = 1 /\ (e.mday > 29 \/
            (e.mday = 29 /\ (e.year % 4 # 0 \/ (e.year % 100 = 0 /\ e.year % 400 # 100)))))

\* sp_time_exp_read_time
CheckTime(e) == e.hour <= 23 /\ e.min <= 59 /\ e.sec <= 61

\* readInteger, whose base is 0 unless it is given one: digits behind a zero are octal, and the
\* number ends before one that is not.
ReadInteger(digits) ==
    LET base == IF Head(digits) = "0" THEN 8 ELSE 10
        other == SelectInSeq(digits, LAMBDA c : Value[c] >= base)
    IN  FoldLeft(LAMBDA n, c : (base * n) + Value[c], 0,
                 IF other = 0 THEN digits ELSE SubSeq(digits, 1, other - 1))

\* sp_time_exp_read_gmt: minutes behind a colon are not found, as the colon is not skipped, and
\* the offset is dropped with its hours.
Gmt(text) ==
    LET off1 == Digits(Tail(text))
        sign == CASE Head(text) = "-" -> -1 [] Head(text) = "+" -> 1 [] OTHER -> 0
        offset == ReadInteger(off1)
        seconds == ((offset \div 100) * 3600) + ((offset % 100) * 60)
    IN  CASE text = <<>> -> [type |-> "local", gmtoff |-> 0]
          [] text = GMT -> [type |-> "set", gmtoff |-> 0]
          [] text \notin {<<>>, GMT} /\ Len(off1) = 4 -> [type |-> "set", gmtoff |-> sign * seconds]
          [] OTHER -> [type |-> IF Head(text) = "Z" THEN "set" ELSE "unset", gmtoff |-> 0]

Bad == [ok |-> FALSE]

Fields(year, mon, mday, text, i, zone) ==
    LET e == [year |-> year, mon |-> mon, mday |-> mday,
              hour |-> Number(text, i), min |-> Number(text, i + 3), sec |-> Number(text, i + 6)]
    IN  IF year >= 0 /\ CheckMon(e) /\ CheckTime(e) THEN [ok |-> TRUE, exp |-> e, gmt |-> zone] ELSE Bad

Midnight == Two(0) \o <<":">> \o Two(0) \o <<":">> \o Two(0)

\* sp_time_exp_read_mon: 12 for an unknown name
MonthAt(text, i) ==
    LET name == SubSeq(text, i + 1, i + 3)
    IN  IF name \in ToSet(Months) THEN SelectInSeq(Months, LAMBDA m : m = name) - 1 ELSE 12

ZoneOf(rest) == Gmt(IF rest = <<>> THEN <<"Z">> ELSE rest)

\* The forms without a space.
ReadJoined(r) ==
    CASE CheckMask(r, YmdMask \o <<"T">> \o HmsMask \o <<"*">>) ->
            Fields(Year(r, 0), Number(r, 5) - 1, Number(r, 8), r, 11, ZoneOf(Sub(r, 19)))
      [] CheckMask(r, YmdMask \o <<"*">>) /\ ~CheckMask(r, YmdMask \o <<"T">> \o HmsMask \o <<"*">>) ->
            Fields(Year(r, 0), Number(r, 5) - 1, Number(r, 8), Midnight, 0, ZoneOf(Sub(r, 10)))
      [] CheckMask(r, <<"#", "#", ".", "#", "#", ".", "#", "#", "#", "#">>) ->
            Fields(Year(r, 6), Number(r, 3) - 1, Number(r, 0), Midnight, 0, Gmt(<<"Z">>))
      [] OTHER -> Bad

CTimeMask == NameMask \o <<" ">> \o NameMask \o <<" ", "~", "#", " ">> \o HmsMask \o <<" ", "*">>

ReadCTime(r) ==
    LET ydate == SkipUntilDigit(Sub(r, 20))
    IN  IF Len(ydate) < 4 THEN Bad
        ELSE Fields(Year(ydate, 0), MonthAt(r, 4), IF At(r, 8) = " " THEN Value[At(r, 9)] ELSE Number(r, 8),
                    r, 11, [type |-> "local", gmtoff |-> 0])

Unset == [type |-> "unset", gmtoff |-> 0]
After(r, i) == IF Sub(r, i) = <<>> THEN Unset ELSE Gmt(Sub(r, i))

FullYear == <<" ">> \o NameMask \o <<" ", "#", "#", "#", "#", " ">> \o HmsMask \o <<" ", "*">>
ShortYear == <<"#", "#", "-">> \o NameMask \o <<"-", "#", "#", " ">> \o HmsMask \o <<" ", "*">>

ReadHttp(r) ==
    CASE CheckMask(r, <<"#", "#">> \o FullYear) ->
            Fields(Year(r, 7), MonthAt(r, 3), Number(r, 0), r, 12, After(r, 21))
      [] CheckMask(r, <<"#">> \o FullYear) ->
            Fields(Year(r, 6), MonthAt(r, 2), Value[At(r, 0)], r, 11, After(r, 20))
      [] CheckMask(r, ShortYear) ->
            Fields(IF Number(r, 7) < 70 THEN Number(r, 7) + 100 ELSE Number(r, 7),
                   MonthAt(r, 3), Number(r, 0), r, 10, After(r, 19))
      [] OTHER -> Bad

Read(r) ==
    CASE " " \notin ToSet(r) -> ReadJoined(r)
      [] CheckMask(r, CTimeMask) -> ReadCTime(r)
      [] OTHER -> ReadHttp(SkipUntilDigit(r))

\* Time::fromHttp, where the local time is some minutes ahead of GMT: a text that is not
\* understood is the beginning of 1970.
FromHttp(text, local) ==
    LET ds == Read(text)
    IN  IF ~ds.ok THEN <<0, 0>>
        ELSE CASE ds.gmt.type = "set" -> Minus(Geti(ds.exp), ds.gmt.gmtoff)
               [] ds.gmt.type = "local" -> Minus(Geti(ds.exp), local * 60)
               [] ds.gmt.type = "unset" -> Geti(ds.exp)

--------------------------------------------------------------------------------
(* Properties *)

TypeOK ==
    /\ day \in Nat /\ left \in 0 .. Span
    /\ date.mon \in 0 .. 11 /\ date.mday \in 1 .. MonthLength(date.year, date.mon) /\ date.wday \in 0 .. 6

DayBefore(d) ==
    LET month == IF d.mon > 0 THEN [d EXCEPT !.mon = @ - 1] ELSE [d EXCEPT !.year = @ - 1, !.mon = 11]
        weekday == (d.wday + 6) % 7
    IN  IF d.mday > 1 THEN [d EXCEPT !.mday = @ - 1, !.wday = weekday]
        ELSE [month EXCEPT !.mday = MonthLength(month.year, month.mon), !.wday = weekday]

\* What a zone some minutes ahead of GMT has on its calendar and clock, at the time t in GMT.
There(t, minutes) ==
    LET m == (t[1] * 60) + t[2] + minutes
    IN  <<CASE m < 0 -> DayBefore(date) [] m \in 0 .. 1439 -> date [] m > 1439 -> DayAfter(date),
          <<(m % 1440) \div 60, m % 60, t[3]>>>>

\* The offset of a zone, without a colon.
Zone(minutes) ==
    LET m == IF minutes < 0 THEN -minutes ELSE minutes
    IN  <<IF minutes < 0 THEN "-" ELSE "+">> \o Two(m \div 60) \o Two(m % 60)

\* Each form of a date is read as the moment that was written, on every day of leap years, of
\* others, and of centuries that are either (TimeTest tries the present): in GMT, in the local
\* time, ahead or behind, and with an offset of four digits of ten hours or more, ahead or
\* behind, in whole hours or not.  No other offsets are claimed, for they are not read so: one
\* with a colon, which the comment on Atom's form has (SPTime.cc:333), is dropped, and one with
\* a zero in front is read as an octal number (:462), +0300 as two hours and 32 minutes.
ReadsBack ==
    \A t \in Clock :
        LET moment == <<day, (t[1] * 3600) + (t[2] * 60) + t[3]>>
            asMoment == {Rfc822(date, t), OneDigit(date, t), Iso8601(date, t)}
                        \cup (IF date.year \in 70 .. 169 THEN {Rfc850(date, t)} ELSE {})
                        \cup {Atom(There(t, z)[1], There(t, z)[2], Zone(z)) : z \in Zones}
            asDay == {Ymd(date), Dotted(date)}
        IN  \A local \in Locals :
                /\ \A text \in asMoment : FromHttp(text, local) = moment
                /\ \A text \in asDay : FromHttp(text, local) = <<day, 0>>
                /\ FromHttp(CTime(There(t, local)[1], There(t, local)[2]), local) = moment

\* The dates that are accepted are those of the calendar.
DatesExist ==
    date.mday = 1 => \A mday \in 0 .. 32 : CheckMon([date EXCEPT !.mday = mday])
                                            <=> mday \in 1 .. MonthLength(date.year, date.mon)
================================================================================
