---------------------------------- MODULE Time ----------------------------------
(***************************************************************************)
(* Class Time (src/code/Time.cpp): an int64 of microseconds since 1970,    *)
(* here a number of seconds and the microseconds past it, since TLC's      *)
(* integers are short.  It is both an instant and a duration.              *)
(*                                                                         *)
(* A text is the list of the values it shows, and the position of one that *)
(* is not what the format asks for (0 if there is none).  A month is       *)
(* its number, also where its name is written: names are read in any case. *)
(*                                                                         *)
(* The calendar is that of the Apache Portable Runtime, from 1970 on, as   *)
(* the class documents; the local zone is one that has summer time.        *)
(***************************************************************************)
EXTENDS Integers, Sequences

CONSTANTS STANDARD,  \* the local zone: seconds east of Greenwich in winter
          Summers    \* pairs of seconds: when summer time begins and ends

Zones == {"UTC", "LOCAL"}
Units == {"SECONDS", "MINUTES", "HOURS", "DAYS", "WEEKS"}
MICROS == 1000000
MINUTE == 60
HOUR   == 60 * MINUTE
DAY    == 24 * HOUR

(* Any number of microseconds as whole seconds and a rest that is not      *)
(* negative.                                                               *)
apr_time_make(sec, usec) == [sec |-> sec + usec \div MICROS, usec |-> usec % MICROS]

Plus(t, u)  == apr_time_make(t.sec + u.sec, t.usec + u.usec)
Negated(t)  == apr_time_make(-t.sec, -t.usec)
Minus(t, u) == Plus(t, Negated(u))
Below(t, u) == t.sec < u.sec \/ (t.sec = u.sec /\ t.usec < u.usec)

(* The quotient and the remainder of a time by whole seconds, towards zero *)
(* as C has them.                                                          *)
TowardsZero(i, n) == IF i >= 0 THEN i \div n ELSE -((-i) \div n)

Quot(t, seconds) == IF t.sec >= 0 THEN t.sec \div seconds ELSE -(Negated(t).sec \div seconds)
Rem(t, seconds)  == Minus(t, apr_time_make(Quot(t, seconds) * seconds, 0))

(* operator struct timeval: both parts may be negative. *)
Timeval(t) == [sec |-> Quot(t, 1), usec |-> IF t.sec < 0 /\ t.usec # 0 THEN t.usec - MICROS ELSE t.usec]

-----------------------------------------------------------------------------
(* The calendar. *)
IsLeap(y) == y % 4 = 0 /\ (y % 100 # 0 \/ y % 400 = 0)
Years     == 1970..2037
YearDays(y) == 365 * (y - 1970) + (y - 1969) \div 4 - (y - 1901) \div 100 + (y - 1601) \div 400
MonthDays == <<0, 31, 59, 90, 120, 151, 181, 212, 243, 273, 304, 334>>
DaysOf(y, mon, mday) ==
  YearDays(y) + MonthDays[mon + 1] + (IF mon > 1 /\ IsLeap(y) THEN 1 ELSE 0) + mday - 1

GmtOff(sec) == IF \E s \in Summers : s[1] <= sec /\ sec < s[2] THEN STANDARD + HOUR ELSE STANDARD

(* apr_time_exp_tz; months count from 0, days of the week from Sunday. *)
apr_time_exp_tz(t, offset) ==
  LET wall == t.sec + offset
      day == wall \div DAY
      year == CHOOSE y \in Years : YearDays(y) <= day /\ day < YearDays(y + 1)
      mon == CHOOSE m \in 0..11 :
               DaysOf(year, m, 1) <= day /\ (m < 11 => day < DaysOf(year, m + 1, 1))
  IN [year |-> year, mon |-> mon, mday |-> day - DaysOf(year, mon, 1) + 1,
      hour |-> (wall % DAY) \div HOUR, min |-> (wall % HOUR) \div MINUTE, sec |-> wall % MINUTE,
      usec |-> t.usec, wday |-> (day + 4) % 7, gmtoff |-> offset]

apr_time_exp(t, tz) == apr_time_exp_tz(t, IF tz = "LOCAL" THEN GmtOff(t.sec) ELSE 0)

Thrown == [ok |-> FALSE, time |-> apr_time_make(0, 0)]
Made(t) == [ok |-> TRUE, time |-> t]

(* No field is held against its limits, but the date may not be before     *)
(* 1970.                                                                   *)
apr_time_exp_gmt_get(et) ==
  LET wall == DaysOf(et.year, et.mon, et.mday) * DAY + et.hour * HOUR + et.min * MINUTE + et.sec
  IN IF et.mon \notin 0..11 \/ wall < 0 THEN Thrown
     ELSE Made(apr_time_make(wall - et.gmtoff, et.usec))

-----------------------------------------------------------------------------
(* What each format shows; "month" is its name. *)
YMD == <<"year", "mon", "mday">>
YBD == <<"year", "month", "mday">>
DBY == <<"mday", "month", "year">>
HMS == <<"hour", "min", "sec">>
FORMAT_STRINGS == [
  YYYYMMMDD_HHMMSSUU |-> YBD \o HMS \o <<"usec">>,
  YYYYMMDD_HHMMSSUU  |-> YMD \o HMS \o <<"usec">>,
  YYYYMMDD_HHMMSSMM  |-> YMD \o HMS \o <<"msec">>,
  YYYYMMMDD_HHMMSS   |-> YBD \o HMS,
  YYYYMMDD_HHMMSS    |-> YMD \o HMS,
  DDMMMYYYY_HHMMSS   |-> DBY \o HMS,
  YYYYMMMDD          |-> YBD,
  YYYYMMDD           |-> YMD,
  DDMMYYYY           |-> <<"mday", "mon", "year">>,
  HHMMSSUU           |-> HMS \o <<"usec">>,
  HHMMSSMM           |-> HMS \o <<"msec">>,
  HHMMSS             |-> HMS,
  SSS_MMM            |-> <<"seconds", "msec">>,
  SSS_UUU            |-> <<"seconds", "usec">>,
  ISO_YYYYMMDD       |-> YMD,
  ISO_YYYYMMDDHHMMSS |-> YMD \o HMS,
  MMDDYYYY_HHMMSSMM  |-> <<"mon", "mday", "year">> \o HMS \o <<"msec">>,
  OFFSET             |-> <<"days", "hours", "minutes", "seconds", "usec">>,
  RFC_822            |-> DBY \o HMS \o <<"GMT">>,
  DDMMMYYYY          |-> DBY,
  YYYYMMDDTHHMMSS    |-> YMD \o HMS,
  ISO_YYYYMMDDTHHMMSS |-> YMD \o HMS,
  ISO_8601_SEC_UTC   |-> YMD \o HMS \o <<"Z">>,
  ISO_8601_MSEC_UTC  |-> YMD \o HMS \o <<"msec", "Z">>,
  ISO_8601_USEC_UTC  |-> YMD \o HMS \o <<"usec", "Z">>,
  YYYYMMDD_HHMMSSMM_WITHDASH |-> YMD \o HMS \o <<"msec">>,
  HHMM               |-> <<"hour", "min">>,
  DDMMMYYYY_HHMMSS_NODASH    |-> DBY \o HMS,
  DDMMMYYYY_HHMMSS_TZ_NODASH |-> DBY \o HMS \o <<"zone">>]

Formats   == DOMAIN FORMAT_STRINGS
Elapsed   == {"SSS_MMM", "SSS_UUU"}
Durations == Elapsed \cup {"OFFSET"}
AlwaysUTC == {"ISO_8601_SEC_UTC", "ISO_8601_MSEC_UTC", "ISO_8601_USEC_UTC"}
Shows(f, field) == \E i \in DOMAIN FORMAT_STRINGS[f] : FORMAT_STRINGS[f][i] = field

checkTimezoneFormatConsistency(f, tz) == f \in AlwaysUTC => tz = "UTC"

Text(values) == [values |-> values, bad |-> 0]

-----------------------------------------------------------------------------
(* static const char * format(t, buf, f, tz) *)
Printed(et, field) ==
  CASE field \in {"mon", "month"} -> et.mon + 1
    [] field = "msec" -> et.usec \div 1000
    [] field \in {"GMT", "Z", "zone"} -> 0
    [] OTHER -> et[field]

FormatElapsed(t, f) ==
  LET tv == Timeval(t) IN
  <<tv.sec, IF f = "SSS_UUU" THEN tv.usec ELSE TowardsZero(tv.usec, 1000)>>

FormatOffset(t) ==
  LET hours == Rem(t, DAY)
      minutes == Rem(hours, HOUR)
      seconds == Rem(minutes, MINUTE)
  IN <<Quot(t, DAY), Quot(hours, HOUR), Quot(minutes, MINUTE), Quot(seconds, 1), Timeval(t).usec>>

Format(t, f, tz) ==
  CASE f \in Elapsed -> Text(FormatElapsed(t, f))
    [] f = "OFFSET" -> Text(FormatOffset(t))
    [] OTHER -> LET et == apr_time_exp(t, tz) IN
                Text([i \in DOMAIN FORMAT_STRINGS[f] |-> Printed(et, FORMAT_STRINGS[f][i])])

-----------------------------------------------------------------------------
(* Time(str, f, tz) *)
Lacks(f, text) == Len(text.values) < Len(FORMAT_STRINGS[f])
IsBad(f, text, fields) == text.bad # 0 /\ FORMAT_STRINGS[f][text.bad] \in fields

(* SSS_MMM and SSS_UUU print with %lu, a negative number as 2^64 less what *)
(* it is below 0; read is as much of the second number as is three or six  *)
(* digits wide, of such a number 184 or 184467.                            *)
ScanElapsed(f, v) ==
  LET micros == IF f = "SSS_MMM"
                THEN 1000 * (IF v[2] < 0 THEN 184 ELSE v[2])
                ELSE IF v[2] < 0 THEN 184467 ELSE v[2]
  IN Made(apr_time_make(v[1], micros))

(* Every value of OFFSET has a width, which is exceeded by 100 days and by *)
(* numbers below -9: then what follows does not match.  After the last one *)
(* follows nothing.                                                        *)
ScanOffset(v) ==
  IF \E i \in 1..4 : v[i] < -9 \/ v[i] > 99 THEN Thrown
  ELSE Made(apr_time_make(v[1] * DAY + v[2] * HOUR + v[3] * MINUTE + v[4],
                          IF v[5] < -99999 THEN TowardsZero(v[5], 10) ELSE v[5]))

Component(field) == CASE field = "month" -> "mon" [] field = "msec" -> "usec" [] OTHER -> field
Meant(field, value) ==
  CASE field \in {"mon", "month"} -> value - 1 [] field = "msec" -> 1000 * value [] OTHER -> value

(* Fields that the text does not show keep what they are now, but for the  *)
(* fractions and the seconds of a time of day that is shown.               *)
Cleared(f, et) ==
  [et EXCEPT !.usec = IF Shows(f, "hour") /\ ~Shows(f, "usec") /\ ~Shows(f, "msec") THEN 0 ELSE @,
             !.sec = IF Shows(f, "hour") /\ ~Shows(f, "sec") THEN 0 ELSE @]

Scanned(f, values, et) ==
  LET fields == FORMAT_STRINGS[f] IN
  [component \in DOMAIN et |->
     IF \E i \in DOMAIN fields : Component(fields[i]) = component
     THEN LET i == CHOOSE j \in DOMAIN fields : Component(fields[j]) = component
          IN Meant(fields[i], values[i])
     ELSE et[component]]

(* Defect: the date is converted with no offset. *)
ScanDateNoOffset(f, text, tz, now) ==
  apr_time_exp_gmt_get([Scanned(f, text.values, Cleared(f, apr_time_exp(now, tz))) EXCEPT !.gmtoff = 0])

ScanDate(f, text, tz, now) ==
  apr_time_exp_gmt_get(Scanned(f, text.values, Cleared(f, apr_time_exp(now, tz))))

(* YYYYMMDDTHHMMSS is no case of the switch; a zone that is shown is read  *)
(* over and not looked at.                                                 *)
Parse(f, text, tz, now) ==
  IF \/ ~checkTimezoneFormatConsistency(f, tz) \/ f = "YYYYMMDDTHHMMSS"
     \/ Lacks(f, text) \/ (text.bad # 0 /\ ~IsBad(f, text, {"zone"}))
  THEN Thrown
  ELSE IF f \in Elapsed THEN ScanElapsed(f, text.values)
  ELSE IF f = "OFFSET" THEN ScanOffset(text.values)
  ELSE ScanDate(f, text, tz, now)

-----------------------------------------------------------------------------
(* Time round(unit, tz): the fields below the unit are cleared; for a week *)
(* the day goes back to Sunday, the day of the month perhaps below 1.      *)

(* Defect: a week begins on any day. *)
RoundedNoDay(et, unit) ==
  [et EXCEPT !.hour = IF unit \in {"WEEKS", "DAYS"} THEN 0 ELSE @,
             !.min  = IF unit \in {"WEEKS", "DAYS", "HOURS"} THEN 0 ELSE @,
             !.sec  = IF unit # "SECONDS" THEN 0 ELSE @,
             !.usec = 0]

Rounded(et, unit) ==
  [et EXCEPT !.mday = IF unit = "WEEKS" THEN @ - et.wday ELSE @,
             !.hour = IF unit \in {"WEEKS", "DAYS"} THEN 0 ELSE @,
             !.min  = IF unit \in {"WEEKS", "DAYS", "HOURS"} THEN 0 ELSE @,
             !.sec  = IF unit # "SECONDS" THEN 0 ELSE @,
             !.usec = 0]

Round(t, unit, tz) == apr_time_exp_gmt_get(Rounded(apr_time_exp(t, tz), unit))

getDayOfWeek(t, timezoneOffset) == apr_time_exp_tz(t, timezoneOffset * 60).wday

LengthOf(unit) == CASE unit = "SECONDS" -> 1 [] unit = "MINUTES" -> MINUTE [] unit = "HOURS" -> HOUR
                    [] unit = "DAYS" -> DAY [] OTHER -> 7 * DAY

(* addSeconds, addMinutes, addHours, addDays and their differences; weeks  *)
(* have neither.                                                           *)
Add(t, unit, delta)      == Plus(t, apr_time_make(delta * LengthOf(unit), 0))
Diff(higher, lower, unit) == Quot(Minus(higher, lower), LengthOf(unit))
diffAsMillis(higher, lower) == LET d == Minus(higher, lower) IN
  1000 * Timeval(d).sec + TowardsZero(Timeval(d).usec, 1000)

(* The constants of the class; the last depends on when the program starts. *)
MIN_TIME == apr_time_make(0, 0)
MAX_TIME(start) == Parse("ISO_YYYYMMDD", Text(<<2030, 1, 1>>), "UTC", start).time
=============================================================================
