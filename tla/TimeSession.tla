------------------------------- MODULE TimeSession -------------------------------
(***************************************************************************)
(* A program that keeps one Time (src/code/Time.cpp), writes it as text    *)
(* and reads the text some time later, in the same format and zone.        *)
(***************************************************************************)
EXTENDS Time, FiniteSets

CONSTANTS Instants,   \* the times the clock may show
          Starts,     \* the times the object may be made with
          Spans,      \* the durations among them, added and subtracted
          Deltas,     \* what is added, in units
          Offsets,    \* minutes east of Greenwich
          MAX_CALLS   \* bound: calls of a session

(* The calendar goes from 1970 to the last of the Years. *)
InCalendar(sec) == sec \in 0..(YearDays(2038) * DAY - 1)
HasDate(t) == InCalendar(t.sec) /\ InCalendar(t.sec + GmtOff(t.sec))

Times == [sec : Int, usec : 0..(MICROS - 1)]

ASSUME TimeAssumption ==
  /\ STANDARD \in Int /\ Summers \subseteq Int \X Int
  /\ Instants \subseteq Times /\ \A t \in Instants : HasDate(t)
  /\ Starts \subseteq Times /\ Spans \subseteq Times
  /\ Deltas \subseteq Int /\ Offsets \subseteq Int
  /\ MAX_CALLS \in Nat

VARIABLES time, now, text, answer, calls
timeVars == <<time, now, text, answer, calls>>

NoText   == [format |-> "none", zone |-> "UTC", of |-> MIN_TIME, shown |-> Text(<<>>)]
NoAnswer == [op |-> "none", args |-> <<>>, result |-> 0, now |-> MIN_TIME]

TimeInit ==
  /\ time = MIN_TIME
  /\ now \in Instants
  /\ text = NoText
  /\ answer = NoAnswer
  /\ calls = 0

Answers(op, args, result) ==
  answer' = [op |-> op, args |-> args, result |-> result, now |-> now]

(* What has been written is read before anything else is done. *)
Called ==
  /\ text = NoText
  /\ calls < MAX_CALLS
  /\ calls' = calls + 1
  /\ UNCHANGED now

(* The object is given a value. *)
Becomes(t, op, args) ==
  /\ Called
  /\ time' = t
  /\ Answers(op, <<time>> \o args, t)
  /\ UNCHANGED text

(* Time(), Time(timeval), Time(int64), Time(time_t, int32), operator=, the *)
(* constants.                                                              *)
Make == calls = 0 /\ \E t \in Starts \cup {now, MIN_TIME, MAX_TIME(now)} : Becomes(t, "make", <<>>)

AddUnits ==
  \E unit \in Units \ {"WEEKS"}, delta \in Deltas :
    Becomes(Add(time, unit, delta), "add", <<unit, delta>>)

(* operator+=, operator-=, operator+, operator- *)
PlusTime  == \E t \in Spans : Becomes(Plus(time, t), "plus", <<t>>)
MinusTime == \E t \in Spans : Becomes(Minus(time, t), "minus", <<t>>)

(* operator%, by DAY, HOUR, MINUTE or SECOND *)
Modulo == \E unit \in Units \ {"WEEKS"} : Becomes(Rem(time, LengthOf(unit)), "modulo", <<unit>>)

RoundDown ==
  /\ Called
  /\ HasDate(time)
  /\ \E unit \in Units, tz \in Zones :
       LET r == Round(time, unit, tz) IN
       /\ Answers("round", <<time, unit, tz>>, r)
       /\ time' = IF r.ok THEN r.time ELSE time
  /\ UNCHANGED text

Compare ==
  /\ Called
  /\ \E t \in Starts, unit \in Units \ {"WEEKS"} :
       Answers("compare", <<time, t, unit>>,
               [below |-> Below(time, t), equal |-> time = t, diff |-> Diff(time, t, unit)])
  /\ UNCHANGED <<time, text>>

DayOfWeek ==
  /\ Called
  /\ HasDate(time)
  /\ \E offset \in Offsets :
       /\ InCalendar(time.sec + 60 * offset)
       /\ Answers("weekday", <<time, offset>>, getDayOfWeek(time, offset))
  /\ UNCHANGED <<time, text>>

(* format() and the functions that choose a format. *)
WriteText ==
  /\ Called
  /\ \E f \in Formats, tz \in Zones :
       /\ checkTimezoneFormatConsistency(f, tz)
       /\ f \notin Durations => HasDate(time)
       /\ text' = [format |-> f, zone |-> tz, of |-> time, shown |-> Format(time, f, tz)]
  /\ answer' = NoAnswer
  /\ UNCHANGED time

(* The text as it is, cut short, or with a value that is none. *)
Spoilt(shown) ==
  {[shown EXCEPT !.values = SubSeq(@, 1, Len(@) - 1)]}
  \cup {[shown EXCEPT !.bad = i] : i \in DOMAIN shown.values}

ReadText ==
  /\ text # NoText
  /\ \E shown \in {text.shown} \cup Spoilt(text.shown) :
       LET r == Parse(text.format, shown, text.zone, now) IN
       Answers("read", <<text, shown>>, r)
  /\ UNCHANGED <<time, now, text, calls>>

(* The clock matters as long as there is something to call or to read. *)
Tick ==
  /\ calls < MAX_CALLS \/ text # NoText
  /\ now' \in {t \in Instants : Below(now, t)}
  /\ answer' = NoAnswer
  /\ UNCHANGED <<time, text, calls>>

TimeNext ==
  \/ Make \/ AddUnits \/ PlusTime \/ MinusTime \/ Modulo \/ RoundDown
  \/ Compare \/ DayOfWeek \/ WriteText \/ ReadText \/ Tick

TimeSpec == TimeInit /\ [][TimeNext]_timeVars

-----------------------------------------------------------------------------
(* A text that is read gives the time that was written, as far as the      *)
(* format shows it.  What it does not show is the clock's: the time of day *)
(* where there is only a date, the day where there is only a time.  In the *)
(* local zone the difference to Greenwich is the clock's too, and not that *)
(* of the date.  A text that is cut short or spoilt is refused, but for a  *)
(* zone; a duration that takes 100 days or is negative may be.             *)
Grain(f) == CASE Shows(f, "usec") -> 1 [] Shows(f, "msec") -> 1000 [] OTHER -> MICROS
Wall(t, tz) == t.sec + IF tz = "LOCAL" THEN GmtOff(t.sec) ELSE 0

ReadExpected(written, f, tz, clock) ==
  LET w == Wall(written, tz)
      c == Wall(clock, tz)
      day  == IF Shows(f, "year") THEN w \div DAY ELSE c \div DAY
      tod  == IF Shows(f, "sec") THEN w % DAY
              ELSE IF Shows(f, "hour") THEN (w % DAY) - (w % MINUTE) ELSE c % DAY
      usec == IF Shows(f, "hour") THEN written.usec - (written.usec % Grain(f)) ELSE clock.usec
  IN apr_time_make(day * DAY + tod - (c - clock.sec), usec)

ReadsBack ==
  answer.op = "read" =>
    LET f == answer.args[1].format
        written == answer.args[1].of
        got == answer.result
        spoilt == answer.args[2] # answer.args[1].shown
    IN /\ spoilt => ~got.ok \/ IsBad(f, answer.args[2], {"zone"})
       /\ ~spoilt /\ f \in Durations /\ written.sec \in 0..(100 * DAY - 1) =>
            got = Made(apr_time_make(written.sec, written.usec - (written.usec % Grain(f))))
       /\ f = "OFFSET" /\ got.ok => Quot(written, DAY) < 100
       /\ ~spoilt /\ f \notin Durations /\ f # "YYYYMMDDTHHMMSS" =>
            got = Made(ReadExpected(written, f, answer.args[1].zone, answer.now))

(* Where units begin on the clock of a zone: weeks on Sunday, at midnight. *)
SUNDAY == 3 * DAY  \* the fourth of January 1970
Past(wall, unit) == (wall - IF unit = "WEEKS" THEN SUNDAY ELSE 0) % LengthOf(unit)

(* Times in units.  A time that is rounded goes back, by less than the     *)
(* unit, to where one begins on the clock that the zone has at the time    *)
(* itself; where the zone was changed in between, the clock of the result  *)
(* shows another time, off by as much as it was changed.  Only what began  *)
(* before 1970 is refused.  Times are ordered as their difference says, a  *)
(* difference in a unit is cut towards zero, and adding it back leads to   *)
(* within one unit.                                                        *)
RoundsDown ==
  answer.op = "round" =>
    LET t == answer.args[1]
        unit == answer.args[2]
        tz == answer.args[3]
        r == answer.result.time
        changed == (Wall(r, tz) - r.sec) - (Wall(t, tz) - t.sec)
        shown == Wall(r, tz) - changed
    IN /\ answer.result.ok <=> Wall(t, tz) >= Past(Wall(t, tz), unit)
       /\ answer.result.ok =>
            /\ r.usec = 0
            /\ Past(shown, unit) = 0
            /\ shown <= Wall(t, tz) /\ Wall(t, tz) < shown + LengthOf(unit)

(* What the documentation says of round(): the result is where the unit    *)
(* begins, in the zone (Time.hpp:218-229).                                 *)
RoundsToUnit ==
  answer.op = "round" /\ answer.result.ok =>
    Past(Wall(answer.result.time, answer.args[3]), answer.args[2]) = 0

DiffsAgree ==
  /\ answer.op = "compare" =>
       LET t == answer.args[1]
           u == answer.args[2]
           unit == answer.args[3]
           back == Add(u, unit, answer.result.diff)
       IN /\ answer.result.below <=> Minus(t, u).sec < 0
          /\ answer.result.equal <=> ~Below(t, u) /\ ~Below(u, t)
          /\ ~Below(t, u) => ~Below(t, back) /\ Below(t, Add(back, unit, 1))
          /\ Diff(u, t, unit) = -answer.result.diff
  /\ answer.op \in {"plus", "minus"} =>
       answer.args[1] = IF answer.op = "plus" THEN Minus(time, answer.args[2]) ELSE Plus(time, answer.args[2])

UnitsOfTime == RoundsDown /\ DiffsAgree
=============================================================================
