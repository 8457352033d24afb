------------------------------ MODULE FatxTime ------------------------------
(***************************************************************************)
(* The time stamps of directory entries: two 16-bit words that             *)
(* src/fatx/datetime.rs takes apart and fatx_datetime_to_systemtime        *)
(* (src/fatx_runner.rs) turns into the times that programs are told.       *)
(***************************************************************************)
EXTENDS Integers

CONSTANT Moments  \* moments that the console may have written

\* A field of `width` bits, `shift` bits from the low end of a word.
Bits(word, shift, width) == (word \div 2^shift) % 2^width

\* Date::from_fatx_encoding
DecodeDate(word) ==
  [year |-> 2000 + Bits(word, 9, 7), month |-> Bits(word, 5, 4), day |-> Bits(word, 0, 5)]

\* Mutant: the hour in four bits, "(encoded >> 11) & 0xf".
HourOfFourBits(word) == Bits(word, 11, 4)
Hour(word) == Bits(word, 11, 5)

\* Time::from_fatx_encoding, which keeps five of the minute's six bits.
DecodeTime(word) ==
  [hour |-> Hour(word), minute |-> Bits(word, 5, 5), second |-> 2 * Bits(word, 0, 5)]

IsLeap(year) == year % 4 = 0 /\ (year % 100 # 0 \/ year % 400 = 0)

DaysIn(year, month) ==
  CASE month = 2 -> IF IsLeap(year) THEN 29 ELSE 28
    [] month \in {4, 6, 9, 11} -> 30
    [] month \in {1, 3, 5, 7, 8, 10, 12} -> 31
    [] OTHER -> 0

\* chrono: from_ymd_opt and and_hms_opt accept what a calendar and a clock show.
IsDate(date) == date.day \in 1 .. DaysIn(date.year, date.month)
IsTime(time) == time.hour < 24 /\ time.minute < 60 /\ time.second < 60

Moment(date, time) == [date |-> date, time |-> time]
Fallback ==
  Moment([year |-> 2000, month |-> 1, day |-> 1], [hour |-> 0, minute |-> 0, second |-> 0])

\* fatx_datetime_to_systemtime
SystemTime(dateWord, timeWord) ==
  LET date == DecodeDate(dateWord)
      time == DecodeTime(timeWord)
  IN IF IsDate(date) /\ IsTime(time) THEN Moment(date, time) ELSE Fallback

-----------------------------------------------------------------------------
(* What the console writes: FAT's encoding, with years from 2000 and steps  *)
(* of two seconds.                                                         *)

Dates ==
  {d \in [year : 2000 .. 2127, month : 1 .. 12, day : 1 .. 31] : IsDate(d)}
Times ==
  {t \in [hour : 0 .. 23, minute : 0 .. 59, second : 0 .. 58] : t.second % 2 = 0}

ASSUME MomentsAssumption == \A m \in Moments : m.date \in Dates /\ m.time \in Times

DateWord(date) == (date.year - 2000) * 512 + date.month * 32 + date.day
TimeWord(time) == time.hour * 2048 + time.minute * 32 + time.second \div 2

\* The words of a moment, and what is left of it: the minute less 32, from 32 on.
Words(m) == <<DateWord(m.date), TimeWord(m.time)>>
Kept(m) == Moment(m.date, [m.time EXCEPT !.minute = @ % 32])

\* A moment that the console wrote is told with its date, hour and second, and
\* what is left of its minute: never as the fallback.
StampsSurvive == \A m \in Moments : SystemTime(Words(m)[1], Words(m)[2]) = Kept(m)
=============================================================================
