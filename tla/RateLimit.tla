----------------------------- MODULE RateLimit -----------------------------
(***************************************************************************)
(* The rate limiter of main/ratelimit.c: a count of LLM requests per hour,  *)
(* in RAM, and one per day, in RAM and in flash, each for the hour and the  *)
(* day that the clock shows. LlmRequests calls it around every request.     *)
(*                                                                          *)
(* The clock counts ticks. A device that has not heard from NTP since its   *)
(* restart is in the first day of the epoch. A change of the timezone moves *)
(* local time as the first synchronisation does and has no action here.     *)
(***************************************************************************)
EXTENDS Integers, FiniteSets

CONSTANTS
    MaxPerHour,    \* RATELIMIT_MAX_PER_HOUR
    MaxPerDay,     \* RATELIMIT_MAX_PER_DAY
    TicksPerHour, HoursPerDay, DaysPerYear,
    Epoch,         \* what a synced clock shows when the model starts
    MaxTime,       \* bound: ticks of true time
    MaxRestarts,   \* bound: restarts
    Unset          \* -1 in RAM, no such key in flash

ASSUME RateLimitAssumption ==
    /\ MaxPerHour \in Nat \ {0} /\ MaxPerDay \in Nat \ {0}
    /\ TicksPerHour \in Nat \ {0} /\ HoursPerDay \in Nat \ {0}
    /\ DaysPerYear \in Nat \ {0}
    /\ Epoch \in Nat /\ MaxTime \in Nat /\ MaxRestarts \in Nat
    /\ Unset \notin Nat

VARIABLES
    now,                     \* true time
    clock, synced,           \* the device's clock, and whether NTP has set it
    restarts,
    s_requests_this_hour, s_requests_today,
    s_last_hour, s_last_day, s_last_year,
    nvs,                     \* rl_daily, rl_day and rl_year
    window,                  \* the day and year the limiter last saw
    made,                    \* answered requests recorded in that window
    intact,                  \* since its first, no flash write of it has failed
    calls                    \* requests recorded since the clock was last set,
                             \* by their age in ticks, for an hour

time == <<now, clock, synced, restarts>>
counters == <<s_requests_this_hour, s_requests_today, s_last_hour, s_last_day,
              s_last_year>>
seen == <<window, made, intact, calls>>
limiter == <<counters, nvs, seen>>

Ages == 0..(TicksPerHour - 1)
NoCalls == [a \in Ages |-> 0]

-----------------------------------------------------------------------------
(* localtime_r *)

TicksPerDay == TicksPerHour * HoursPerDay
Hour == (clock \div TicksPerHour) % HoursPerDay
Day == (clock \div TicksPerDay) % DaysPerYear
Year == clock \div (TicksPerDay * DaysPerYear)

-----------------------------------------------------------------------------
RateLimitInit ==
    /\ now = 0 /\ clock = 0 /\ synced = FALSE /\ restarts = 0
    /\ s_requests_this_hour = 0 /\ s_requests_today = 0
    /\ s_last_hour = Unset /\ s_last_day = Unset /\ s_last_year = Unset
    /\ nvs = [daily |-> Unset, day |-> Unset, year |-> Unset]
    /\ window = <<Unset, Unset>> /\ made = 0 /\ intact = TRUE /\ calls = NoCalls

(* The clock *)

Tick == /\ now < MaxTime
        /\ now' = now + 1 /\ clock' = clock + 1
        /\ calls' = [a \in Ages |-> IF a = 0 THEN 0 ELSE calls[a - 1]]
        /\ UNCHANGED <<synced, restarts, counters, nvs, window, made, intact>>

\* SNTP sets the clock, some time after a restart.
Sync == /\ ~synced
        /\ synced' = TRUE /\ clock' = Epoch + now
        /\ calls' = NoCalls
        /\ UNCHANGED <<now, restarts, counters, nvs, window, made, intact>>

-----------------------------------------------------------------------------
(* The limiter *)

\* Mutant: the year is not loaded, so every restart is a new day.
InitWithoutYear ==
    /\ s_requests_today' = IF nvs.daily = Unset THEN 0 ELSE nvs.daily
    /\ s_last_day' = nvs.day /\ s_last_year' = Unset
    /\ s_requests_this_hour' = 0 /\ s_last_hour' = Unset

ratelimit_init ==
    /\ s_requests_today' = IF nvs.daily = Unset THEN 0 ELSE nvs.daily
    /\ s_last_day' = nvs.day /\ s_last_year' = nvs.year
    /\ s_requests_this_hour' = 0 /\ s_last_hour' = Unset

\* update_time_window, and one value to add to the counts that it leaves: a count
\* of another hour, or of another day or year, starts at zero.
NewDay == Day # s_last_day \/ Year # s_last_year
HourCount == IF Hour # s_last_hour THEN 0 ELSE s_requests_this_hour
DayCount == IF NewDay THEN 0 ELSE s_requests_today

CountInWindow(n) ==
    /\ s_requests_this_hour' = HourCount + n /\ s_last_hour' = Hour
    /\ s_requests_today' = DayCount + n /\ s_last_day' = Day /\ s_last_year' = Year

\* A write of flash may fail, or be lost to a restart before it, which is a
\* failure followed by the restart.
MayWrite(key, values) == {nvs[key]} \cup values

\* The writes for a new day: day, year and a count of zero; and the counts that
\* are written on any day.
Persist(counts) ==
    /\ nvs' \in [daily : MayWrite("daily", counts \cup (IF NewDay THEN {0} ELSE {})),
                 day   : MayWrite("day", IF NewDay THEN {Day} ELSE {}),
                 year  : MayWrite("year", IF NewDay THEN {Year} ELSE {})]
    /\ window' = <<Day, Year>>
    /\ made' = (IF window' = window THEN made ELSE 0) + Cardinality(counts)
    /\ intact' = /\ intact \/ (NewDay /\ window' # window)
                 /\ nvs' = [daily |-> s_requests_today', day |-> s_last_day',
                            year |-> s_last_year']

\* ratelimit_check: its windows, and then its verdict.
CheckWindow ==
    /\ CountInWindow(0) /\ Persist({})
    /\ UNCHANGED <<time, calls>>

\* Mutant: the limit itself is let through.
HourSpentLate == HourCount > MaxPerHour

HourSpent == HourCount >= MaxPerHour
DaySpent == DayCount >= MaxPerDay

ratelimit_record_request ==
    /\ CountInWindow(1) /\ Persist({DayCount + 1})
    /\ calls' = [calls EXCEPT ![0] = @ + 1]
    /\ UNCHANGED time

\* A restart: the clock starts over, RAM is loaded from flash.
LimiterRestarts ==
    /\ restarts < MaxRestarts
    /\ restarts' = restarts + 1
    /\ clock' = 0 /\ synced' = FALSE
    /\ ratelimit_init
    /\ calls' = NoCalls
    /\ UNCHANGED <<now, nvs, window, made, intact>>
=============================================================================
