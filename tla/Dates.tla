------------------------------- MODULE Dates -------------------------------
(***************************************************************************)
(* The dates of butil.c, "Tue, 15 Nov 1994 08:12:31 GMT": a record of day, *)
(* month, year, hour, minute and second; the month is its three letters in *)
(* lower case, the day of the week is not looked at.  A time is the number *)
(* of seconds since 1970.  Of the time zone the code sees two offsets from *)
(* GMT: that of 48 hours into 1970, and the one mktime takes for standard *)
(* time at the date (tm_isdst is 0).                                       *)
(***************************************************************************)
EXTENDS Integers, Sequences, FiniteSets

CONSTANT Years     \* the years that occur, with one before and one after

Months ==
  <<<<"j","a","n">>, <<"f","e","b">>, <<"m","a","r">>, <<"a","p","r">>, <<"m","a","y">>, <<"j","u","n">>,
    <<"j","u","l">>, <<"a","u","g">>, <<"s","e","p">>, <<"o","c","t">>, <<"n","o","v">>, <<"d","e","c">>>>

-----------------------------------------------------------------------------
(* The calendar of the C library. *)

Leap(y) == y % 4 = 0 /\ (y % 100 # 0 \/ y % 400 = 0)

\* Days from 1 January 1970 to the first of January, and to that of a month.
ToYear(y) == 365 * (y - 1970) + ((y - 1) \div 4) - ((y - 1) \div 100) + ((y - 1) \div 400) - 477
ToMonth(y, m) ==
  ToYear(y) + <<0, 31, 59, 90, 120, 151, 181, 212, 243, 273, 304, 334>>[m]
            + (IF m > 2 /\ Leap(y) THEN 1 ELSE 0)

\* timegm: a day that the month does not have runs into the next one.
Seconds(y, m, d, hh, mm, ss) == (ToMonth(y, m) + d - 1) * 86400 + hh * 3600 + mm * 60 + ss

\* gmtime_r, and strftime.
DateAt(t) ==
  LET days == t \div 86400
      secs == t % 86400
      y == CHOOSE y \in Years : ToYear(y) <= days /\ days < ToYear(y + 1)
      m == CHOOSE m \in 1 .. 12 : /\ ToMonth(y, m) <= days
                                  /\ m = 12 \/ days < ToMonth(y, m + 1)
  IN [day |-> days - ToMonth(y, m) + 1, month |-> Months[m], year |-> y,
      hh |-> secs \div 3600, mm |-> (secs \div 60) % 60, ss |-> secs % 60]

\* mktime.
LocalTime(zone, y, m, d, hh, mm, ss) == Seconds(y, m, d, hh, mm, ss) - zone.standard

-----------------------------------------------------------------------------
\* Faulty form of MonthOf: July is not told from June.
JuneOrJuly(w) == {m \in 1 .. 12 : Months[m] = w /\ m # 7} \cup {m \in {6} : w = Months[7]}

\* The switch over the letters: as the set of at most one month.  After a j
\* that no a follows any second letter will do.
MonthOf(w) ==
  {m \in 1 .. 12 : Months[m] = w}
    \cup {m \in {6, 7} : w[1] = "j" /\ w[2] # "a" /\ w[3] = Months[m][3]}

InRange(d) == d.day \in 0 .. 31 /\ d.hh \in 0 .. 23 /\ d.mm \in 0 .. 59 /\ d.ss \in 0 .. 59

\* The seconds of GMT less those of local time, 48 hours after the epoch.
GmtOff(zone) == 3 * 86400 - (3 * 86400 + zone.early)

\* butil_rfc2616_date_to_time of a date whose fields are all there; err_time
\* is 0.
DateToTime(d, zone) ==
  IF ~ InRange(d) \/ MonthOf(d.month) = {} THEN 0
  ELSE LET m == CHOOSE m \in MonthOf(d.month) : TRUE
       IN LocalTime(zone, d.year, m, d.day, d.hh, d.mm, d.ss) - GmtOff(zone)

BadDate == [day |-> 1, month |-> Months[1], year |-> 2015, hh |-> 0, mm |-> 0, ss |-> 0]

\* butil_time_to_rfc2616_date; strftime fails when the buffer is too small.
TimeToDate(t, room) == IF room THEN DateAt(t) ELSE BadDate
=============================================================================
