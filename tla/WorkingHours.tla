---------------------------- MODULE WorkingHours ----------------------------
(***************************************************************************)
(* The thread of Exchange that opens and closes the market                 *)
(* (is_working_thread) and the calendar it reads.  A day has minutes       *)
(* 0 .. LastMinute, an hour and minute of the code is one of them.  The    *)
(* thread samples the time, sleeps until an opening and then acts on the   *)
(* time it had sampled before it slept.                                    *)
(***************************************************************************)
EXTENDS Integers, Sequences

CONSTANTS
    Opening, Closing,   \* opening_h:opening_m and closing_h:closing_m
    LastMinute,         \* last minute of a day
    Hour,               \* minutes by which daylight saving time moves the clocks
    Forward, Back,      \* days that begin with the clocks put forward, or back
    StartDate,          \* [tm_year, tm_mon, tm_mday] of the first day
    StartWeekday,       \* its day of the week, 0 for Sunday
    MaxDay              \* bound on the days that pass

ASSUME HoursAssumption ==
    /\ Opening \in Nat /\ Closing \in Nat /\ LastMinute \in Nat /\ MaxDay \in Nat
    /\ 0 < Opening /\ Opening < Closing /\ Closing < LastMinute
    /\ Hour \in Nat /\ Hour <= Opening /\ Opening + Hour < Closing
    /\ Forward \subseteq Nat /\ Back \subseteq Nat
    /\ StartDate \in [year: Nat, mon: 0 .. 11, mday: 1 .. 31]
    /\ StartWeekday \in 0 .. 6

VARIABLES
    day,        \* days since the start
    minute,     \* minute of the day
    date,       \* tm_year, tm_mon (from 0) and tm_mday of the day
    weekday,    \* the real day of the week
    working,    \* _working
    stop,       \* has the destructor asked the thread to stop?
    pc,         \* the thread: "read", "sleep" or "done"
    curr,       \* curr_h and curr_m, and the day they were read
    target,     \* when the sleep ends: day and minute
    moved,      \* days target_time.tm_mday was moved by
    checked     \* day of the last check_date_orders, and of the closing it follows

clockVars == <<day, minute, date, weekday>>
vars == <<clockVars, working, stop, pc, curr, target, moved, checked>>

Minute == 0 .. LastMinute

-----------------------------------------------------------------------------
(* The calendar *)

DaysIn(d) ==
    IF d.mon = 1 THEN (IF d.year % 4 = 0 THEN 29 ELSE 28)
    ELSE IF d.mon \in {3, 5, 8, 10} THEN 30 ELSE 31

NextDate(d) ==
    IF d.mday < DaysIn(d) THEN [d EXCEPT !.mday = @ + 1]
    ELSE IF d.mon < 11 THEN [d EXCEPT !.mon = @ + 1, !.mday = 1]
    ELSE [year |-> d.year + 1, mon |-> 0, mday |-> 1]

Offset == <<0, 3, 2, 5, 0, 3, 5, 1, 4, 6, 2, 4>>

(* day_of_week as it is called, with tm_mon and tm_year: the days it may    *)
(* take d for.  In January t[m - 1] is read in front of the array.          *)
DayOfWeek(d) ==
    LET y == IF d.mon < 3 THEN d.year - 1 ELSE d.year
        sum(o) == (y + y \div 4 - y \div 100 + y \div 400 + o + d.mday) % 7
    IN IF d.mon = 0 THEN {sum(o) : o \in 0 .. 6} ELSE {sum(Offset[d.mon])}

(* How far the opening after a closing is moved. *)
DaysToMove(dow) == IF dow = 5 THEN 3 ELSE IF dow = 6 THEN 2 ELSE 1

(* Does one of the days S begin after day from, and not after day to? *)
Between(S, from, to) == \E d \in S : from < d /\ d <= to

(* Mutant of WakeMinute: the thread wakes a minute after the opening. *)
WakeMinuteLate(m, from, to) == m + 1

(* What mktime makes of minute m of day to: all three branches aim at an    *)
(* opening, but tm_isdst is that of the time read, on day from, so when the *)
(* clocks are put forward or back in between the thread wakes an hour off.  *)
WakeMinute(m, from, to) ==
    IF Between(Forward, from, to) THEN m + Hour
    ELSE IF Between(Back, from, to) THEN m - Hour ELSE m

-----------------------------------------------------------------------------
Init ==
    /\ day = 0
    /\ minute \in Minute
    /\ date = StartDate
    /\ weekday = StartWeekday
    /\ working = FALSE
    /\ stop = FALSE
    /\ pc = "read"
    /\ curr = [day |-> -1, minute |-> 0]
    /\ target = [day |-> 0, minute |-> 0]
    /\ moved = 0
    /\ checked = [ran |-> 0, closed |-> 0]

(* Mutant of Running: a loop that does not look at its stop token. *)
RunningAlways == TRUE

(* The condition of the loop. *)
Running == ~stop

(* Read the time and choose when to wake: the opening of this day, which    *)
(* has passed when the market is open, or after closing that of a later one. *)
ReadTime ==
    /\ pc = "read"
    /\ Running
    /\ curr' = [day |-> day, minute |-> minute]
    /\ \/ minute < Closing /\ moved' = 0
       \/ minute >= Closing /\ \E dow \in DayOfWeek(date) : moved' = DaysToMove(dow)
    /\ target' = [day |-> day + moved', minute |-> WakeMinute(Opening, day, day + moved')]
    /\ pc' = "sleep"
    /\ UNCHANGED <<clockVars, working, stop, checked>>

Reached(t) == day > t.day \/ (day = t.day /\ minute >= t.minute)

(* The sleep is over; the time compared with is the one read before it. *)
WakeUp ==
    /\ pc = "sleep"
    /\ Reached(target)
    /\ working' = IF curr.minute = Opening THEN TRUE
                  ELSE IF curr.minute = Closing THEN FALSE ELSE working
    /\ checked' = IF curr.minute = Closing THEN [ran |-> day, closed |-> curr.day] ELSE checked
    /\ pc' = "read"
    /\ UNCHANGED <<clockVars, stop, curr, target, moved>>

Finish ==
    /\ pc = "read"
    /\ ~Running
    /\ pc' = "done"
    /\ UNCHANGED <<clockVars, working, stop, curr, target, moved, checked>>

(* The destructor of Exchange, while there are days left to wait for it. *)
RequestStop ==
    /\ ~stop
    /\ day + 3 < MaxDay
    /\ stop' = TRUE
    /\ UNCHANGED <<clockVars, working, pc, curr, target, moved, checked>>

(* A minute passes.  The loop takes far less than a minute: the thread has  *)
(* read this one, is asleep or has ended.                                   *)
Tick ==
    /\ \/ pc = "done"
       \/ pc = "sleep" /\ ~Reached(target)
       \/ curr = [day |-> day, minute |-> minute]
    /\ IF minute < LastMinute
       THEN minute' = minute + 1 /\ UNCHANGED <<day, date, weekday>>
       ELSE /\ day < MaxDay
            /\ minute' = 0
            /\ day' = day + 1
            /\ date' = NextDate(date)
            /\ weekday' = (weekday + 1) % 7
    /\ UNCHANGED <<working, stop, pc, curr, target, moved, checked>>

Thread == ReadTime \/ WakeUp \/ Finish

Next == Thread \/ RequestStop \/ Tick

Spec == Init /\ [][Next]_vars

(* The thread is scheduled and time goes on. *)
FairSpec == Spec /\ WF_vars(Thread) /\ WF_vars(Tick)

-----------------------------------------------------------------------------
(* Correctness *)

(* Times are times of the calendar, and a sleep is three days at most. *)
TypeOK ==
    /\ day \in 0 .. MaxDay
    /\ minute \in Minute
    /\ date \in [year: Nat, mon: 0 .. 11, mday: 1 .. 31]
    /\ weekday \in 0 .. 6
    /\ working \in BOOLEAN /\ stop \in BOOLEAN
    /\ pc \in {"read", "sleep", "done"}
    /\ curr \in [day: -1 .. MaxDay, minute: Minute]
    /\ target \in [day: 0 .. MaxDay + 3, minute: Minute]
    /\ moved \in {0, 1, 2, 3}
    /\ checked \in [ran: 0 .. MaxDay, closed: 0 .. MaxDay]

(* The market that is_working_thread closes, when it wakes on a later day,  *)
(* is opened again that day: it stays closed only until the thread has read *)
(* the opening minute and woken, never for the rest of the trading hours.   *)
(* Only when the clocks have been put forward since the closing was read is *)
(* the opening slept through, and the market closed for a day.              *)
Reopens ==
    checked.ran > 0 /\ ~working /\ ~stop =>
        \/ Between(Forward, checked.closed, checked.ran)
        \/ /\ day = checked.ran
           /\ minute <= Opening \/ (pc = "sleep" /\ curr = [day |-> day, minute |-> Opening])

(* Whenever the exchange is started, the thread comes to open the market,   *)
(* although it opens only when the minute it read before the sleep is the   *)
(* opening one, and sleeps through that one when the clocks went forward.   *)
OpensInTheEnd == ~working /\ day + 7 < MaxDay ~> working \/ stop

(* The destructor's join comes back: the thread wakes and sees the stop     *)
(* request, up to three days later.                                         *)
ShutdownCompletes == stop ~> pc = "done"

-----------------------------------------------------------------------------
(* What the comments say *)

(* orderbook.cpp:422, check_date_orders is "Run at the end of each day": it *)
(* runs on the day whose closing it follows.                                *)
CheckedAtDayEnd == checked.ran = checked.closed

(* exchange.cpp:138, "friday move 3 days": the opening is moved by three    *)
(* days after the closing of a Friday only.                                 *)
FridayMovesThree == [][moved' = 3 /\ moved # 3 => weekday = 5]_vars

=============================================================================
