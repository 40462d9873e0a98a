----------------------------- MODULE TimeHelper -----------------------------
(***************************************************************************)
(* The arithmetic of TimeHelper (util.h, util.cpp) and CZoneTime           *)
(* (zone_time.h) on times as numbers.  A time_t is a number of seconds     *)
(* since 1970 that fits its type; what localtime and mktime do with a      *)
(* calendar is not modelled.  TimeCounter, the stopwatch of a main loop,   *)
(* is the state machine at the end.                                        *)
(***************************************************************************)
EXTENDS Integers

ONE_HOUR_SECOND == 3600
ONE_DAY_SECOND == 86400
ONE_WEEK_SECOND == 604800

(* Division of C++, which rounds towards zero. *)
Quot(a, b) == IF a >= 0 THEN a \div b ELSE -((-a) \div b)

-----------------------------------------------------------------------------
(* Local time is always UTC+8. *)
TimeNow(now) == now + 8 * ONE_HOUR_SECOND
GetCurHour(now) == Quot(TimeNow(now) % ONE_DAY_SECOND, ONE_HOUR_SECOND)
GetCurDay(now) == Quot(TimeNow(now), ONE_DAY_SECOND)
GetCurWeek(now) == Quot(TimeNow(now) + 3 * ONE_DAY_SECOND, ONE_WEEK_SECOND)

isSameWeek(time1, time2) == Quot(time1, ONE_WEEK_SECOND) = Quot(time2, ONE_WEEK_SECOND)

IsSameDay(time1, time2, start) ==
  Quot(TimeNow(time1) - start * ONE_HOUR_SECOND, ONE_DAY_SECOND)
    = Quot(TimeNow(time2) - start * ONE_HOUR_SECOND, ONE_DAY_SECOND)

(* The argument is called tm_year: in a struct tm, years since 1900. *)
IsLeapYear(tm_year) ==
  (tm_year % 4 = 0 /\ tm_year % 100 # 0) \/ tm_year % 400 = 0

(* RefreshTimeZone: from the hours that localtime_r and gmtime_r show. *)
TimeZone(local_hour, gmt_hour) ==
  LET d == local_hour - gmt_hour
  IN  IF d < -12 THEN d + 24 ELSE IF d > 12 THEN d - 24 ELSE d

-----------------------------------------------------------------------------
(* operator< and msbetween, t1 - t2 in milliseconds, for a timespec and    *)
(* for a timeval.                                                          *)
Below(n) == {k \in Nat : k < n}
Timespec == [tv_sec : Nat, tv_nsec : Below(1000000000)]
Timeval == [tv_sec : Nat, tv_usec : Below(1000000)]

LessSpec(t1, t2) ==
  t1.tv_sec < t2.tv_sec \/ (t1.tv_sec = t2.tv_sec /\ t1.tv_nsec < t2.tv_nsec)
LessVal(t1, t2) ==
  t1.tv_sec < t2.tv_sec \/ (t1.tv_sec = t2.tv_sec /\ t1.tv_usec < t2.tv_usec)

UsecOf(t1, t2) ==
  (t1.tv_sec - t2.tv_sec) * 1000000 + Quot(t1.tv_nsec - t2.tv_nsec, 1000)

msbetween(t1, t2) ==
  IF LessSpec(t1, t2) THEN -Quot(UsecOf(t2, t1), 1000) ELSE Quot(UsecOf(t1, t2), 1000)

msbetweenVal(t1, t2) ==
  IF LessVal(t1, t2)
    THEN -Quot((t2.tv_sec - t1.tv_sec) * 1000000 + t2.tv_usec - t1.tv_usec, 1000)
    ELSE Quot((t1.tv_sec - t2.tv_sec) * 1000000 + t1.tv_usec - t1.tv_usec, 1000)

Nsec(t) == t.tv_sec * 1000000000 + t.tv_nsec
-----------------------------------------------------------------------------
(* CZoneTime::RefreshTime: the members derived from the clock, in          *)
(* microseconds, and from the distance a game master has set, in seconds.  *)
Refreshed(usec, distance) ==
  LET shifted == usec + distance * 1000000
  IN  [realUsec_ |-> usec, realmsec_ |-> Quot(usec, 1000), realTime_ |-> Quot(usec, 1000000),
       usec_ |-> shifted, msec_ |-> Quot(shifted, 1000), time_ |-> Quot(shifted, 1000000)]
-----------------------------------------------------------------------------
(* TimeCounter: MsToPrevTime returns the milliseconds since the last lap   *)
(* and starts the next one, by a clock that never goes back.               *)
VARIABLES now,         (* CLOCK_MONOTONIC                                    *)
          last_time_,
          started,     (* history: when the counter was made                 *)
          laps, total  (* history: calls, and the sum of their results       *)

counterVars == <<now, last_time_, started, laps, total>>

CounterInit ==
  /\ now \in Timespec /\ last_time_ = now /\ started = now
  /\ laps = 0 /\ total = 0

TimePasses ==
  /\ now' \in Timespec /\ LessSpec(now, now')
  /\ UNCHANGED <<last_time_, started, laps, total>>

MsToPrevTime ==
  /\ total' = total + msbetween(now, last_time_)
  /\ last_time_' = now
  /\ laps' = laps + 1
  /\ UNCHANGED <<now, started>>

CounterNext == TimePasses \/ MsToPrevTime

CounterSpec == CounterInit /\ [][CounterNext]_counterVars

(* A loop that adds up what MsToPrevTime returns is never ahead of the     *)
(* clock by more than a microsecond a lap, and falls behind it by up to a  *)
(* millisecond a lap: the rests it drops are lost for good.                *)
Drift ==
  LET elapsed == Nsec(last_time_) - Nsec(started)
  IN  /\ 1000000 * total <= elapsed + 999 * laps
      /\ elapsed <= 1000000 * total + 999999 * laps
=============================================================================
