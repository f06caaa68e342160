------------------------------ MODULE Timestamp ------------------------------
(***************************************************************************)
(* Dates and times: os_fields_to_timestamp and os_timestamp_to_fields of   *)
(* both back ends, the fields that blud.timestamp takes, and the dates of  *)
(* touch -t.  A time is a number of seconds since 1970 began in UTC.       *)
(* Nanoseconds are copied everywhere and are left out.                     *)
(***************************************************************************)
EXTENDS Integers

CONSTANTS Zone,   \* [from, offset]: the offsets of local time, and since when
          Now     \* the system's clock

ASSUME ZoneAssumption ==
  /\ Now \in Int
  /\ \A z \in Zone : z.from \in Int /\ z.offset \in Int
  /\ \E z \in Zone : z.from <= Now

-----------------------------------------------------------------------------
(* The calendar, as the C library and Windows compute it. *)
Leap(year) == year % 4 = 0 /\ (year % 100 # 0 \/ year % 400 = 0)
DaysIn(year, month) ==
  CASE month = 2 -> IF Leap(year) THEN 29 ELSE 28
    [] month \in {4, 6, 9, 11} -> 30
    [] OTHER -> 31

LeapDays(year) == year \div 4 - year \div 100 + year \div 400
YearBegins(year) == 365 * (year - 1970) + LeapDays(year - 1) - LeapDays(1969)
(* The days of a year before each of its months, without 29 February.     *)
DaysBefore == <<0, 31, 59, 90, 120, 151, 181, 212, 243, 273, 304, 334>>
MonthBegins[year \in Int] ==
  [month \in 1 .. 12 |->
     YearBegins(year) + DaysBefore[month] + IF month > 2 /\ Leap(year) THEN 1 ELSE 0]

(* Seconds of a date in UTC.  A day or a second too many runs over into    *)
(* the next month or minute.                                               *)
Seconds(f) ==
  (((MonthBegins[f.year][f.month] + f.day - 1) * 24 + f.hour) * 60 + f.minute) * 60
  + f.second

Civil(seconds) ==
  LET days == seconds \div 86400
      rest == seconds % 86400
      guess == 1970 + (400 * days) \div 146097
      year == CHOOSE y \in guess - 1 .. guess + 1 :
                YearBegins(y) <= days /\ days < YearBegins(y + 1)
      month == CHOOSE m \in 1 .. 12 :
                 /\ MonthBegins[year][m] <= days
                 /\ days < MonthBegins[year][m] + DaysIn(year, m)
  IN  [year |-> year, month |-> month, day |-> days - MonthBegins[year][month] + 1,
       hour |-> rest \div 3600, minute |-> (rest \div 60) % 60, second |-> rest % 60]

Offset(time) ==
  (CHOOSE z \in Zone :
     /\ z.from <= time
     /\ \A y \in Zone : y.from <= time => y.from <= z.from).offset

(* The times at which clocks show what they show at a date: none when it   *)
(* is skipped, two when it is repeated.  mktime and Windows then take one  *)
(* of the offsets.                                                         *)
Shown(local) ==
  {time \in {local - z.offset : z \in Zone} : time + Offset(time) = local}
OfLocal(local) ==
  IF Shown(local) # {} THEN Shown(local) ELSE {local - z.offset : z \in Zone}

-----------------------------------------------------------------------------
(* blud.timestamp refuses fields out of these ranges. *)
InRange(f) ==
  /\ f.month \in 1 .. 12 /\ f.day \in 1 .. 31
  /\ f.hour \in 0 .. 23 /\ f.minute \in 0 .. 59 /\ f.second \in 0 .. 60

(* "seconds == (time_t)-1" also stands for the last second of 1969. *)
LinuxTimeInUtc(f) == {Seconds(f)}           \* mutant: timegm for mktime
LinuxTime(f) == {time \in OfLocal(Seconds(f)) : time # -1}

Exists(f) == f.day <= DaysIn(f.year, f.month) /\ f.second < 60
Word(n) == n % 65536
WindowsTime(f) ==
  LET input == [f EXCEPT !.year = Word(@)]
  IN  {time \in OfLocal(Seconds(input)) :
         Exists(input) /\ input.year >= 1601 /\ time >= 0}

LinuxFields(time) == Civil(time + Offset(time))
WindowsFields(time) == Civil(time + Offset(time))

-----------------------------------------------------------------------------
(* touch -t [[CC]YY]MMDDhhmm[.ss]: the digits of a date, of which there    *)
(* are 8, 10 or 12, and what they stand for.                               *)
Century(year) == IF year >= 69 THEN year + 1900 ELSE year + 2000

Year(date) == CASE date.digits = 8 -> LinuxFields(Now).year
                [] date.digits = 10 -> Century(date.year)
                [] date.digits = 12 -> date.year
Fields(date) ==
  [year |-> Year(date), month |-> date.month, day |-> date.day,
   hour |-> date.hour, minute |-> date.minute, second |-> date.second]
=============================================================================
