------------------------- MODULE WorkingHoursProofs -------------------------
(***************************************************************************)
(* Proofs about WorkingHours for all opening hours, every calendar, any    *)
(* days on which the clocks are put forward or back and any number of days.*)
(***************************************************************************)
EXTENDS WorkingHours, TLAPS

(* The thread is woken in time: it aims at the opening of the day it has    *)
(* read or, after a closing, at what it takes for that of a later day, which *)
(* has not passed.                                                          *)
SleepInv ==
    pc = "sleep" =>
        /\ 0 <= curr.day /\ curr.day <= day
        /\ curr.minute < Closing => target.day = curr.day /\ target.minute = Opening
        /\ curr.minute >= Closing =>
            /\ curr.day < target.day
            /\ target.minute = WakeMinute(Opening, curr.day, target.day)
            /\ day < target.day \/ (day = target.day /\ minute <= target.minute)

(* Unless the clocks were put forward, time stands still between the        *)
(* wake-up that closes the market and the next reading, and runs up to the  *)
(* opening, or one minute further when that is the minute read.             *)
ClosedInv ==
    checked.ran > 0 /\ ~working /\ ~stop =>
        \/ Between(Forward, checked.closed, checked.ran)
        \/ /\ day = checked.ran
           /\ \/ /\ pc = "read" /\ minute <= Opening
                 /\ curr.day < day \/ curr.minute < minute
              \/ /\ pc = "sleep" /\ curr.day = day /\ curr.minute <= Opening
                 /\ minute <= Opening \/ (curr.minute = Opening /\ minute = Opening + 1)

HoursInv == TypeOK /\ (pc = "done" => stop) /\ SleepInv /\ ClosedInv

(* The day after a date is a date. *)
LEMMA NextDateType ==
    ASSUME NEW d \in [year: Nat, mon: 0 .. 11, mday: 1 .. 31]
    PROVE  NextDate(d) \in [year: Nat, mon: 0 .. 11, mday: 1 .. 31]
<1>1. DaysIn(d) \in 28 .. 31
  BY DEF DaysIn
<1>2. CASE d.mday < DaysIn(d)
  BY <1>1, <1>2 DEF NextDate
<1>3. CASE ~(d.mday < DaysIn(d)) /\ d.mon < 11
  <2>1. NextDate(d) = [year |-> d.year, mon |-> d.mon + 1, mday |-> 1]
    BY <1>3 DEF NextDate
  <2> QED
    BY <1>3, <2>1
<1>4. CASE ~(d.mday < DaysIn(d)) /\ ~(d.mon < 11)
  BY <1>4 DEF NextDate
<1> QED
  BY <1>2, <1>3, <1>4

(* A thread wakes within the trading day, on the same day at the opening    *)
(* and never after it unless the clocks were put forward.                   *)
LEMMA WakeMinuteRange ==
    ASSUME NEW from \in Int, NEW to \in Int
    PROVE  /\ WakeMinute(Opening, from, to) \in 0 .. LastMinute
           /\ from = to => WakeMinute(Opening, from, to) = Opening
           /\ ~Between(Forward, from, to) => WakeMinute(Opening, from, to) <= Opening
<1>1. from = to => ~Between(Forward, from, to) /\ ~Between(Back, from, to)
  BY HoursAssumption DEF Between
<1> QED
  BY <1>1, HoursAssumption DEF WakeMinute

(* Every step keeps the types. *)
LEMMA HoursTypes ==
    ASSUME HoursInv, [Next]_vars
    PROVE  TypeOK'
<1> USE HoursAssumption DEF TypeOK, Minute, HoursInv
<1>1. CASE ReadTime
  <2>1. moved' \in {0, 1, 2, 3}
    BY <1>1 DEF ReadTime, DaysToMove
  <2>2. /\ UNCHANGED <<day, minute, date, weekday, working, stop, checked>>
        /\ pc' = "sleep"
        /\ curr' = [day |-> day, minute |-> minute]
        /\ target' = [day |-> day + moved', minute |-> WakeMinute(Opening, day, day + moved')]
    BY <1>1 DEF ReadTime, clockVars
  <2>3. /\ day \in -1 .. MaxDay /\ day + moved' \in 0 .. MaxDay + 3
        /\ WakeMinute(Opening, day, day + moved') \in 0 .. LastMinute
    <3> HIDE DEF HoursInv
    <3>1. day \in 0 .. MaxDay
      BY DEF HoursInv
    <3>2. moved' = 0 \/ moved' = 1 \/ moved' = 2 \/ moved' = 3
      BY <2>1
    <3>3. PICK to \in Int : to = day + moved'
      BY <3>1, <3>2
    <3>4. WakeMinute(Opening, day, to) \in 0 .. LastMinute
      <4>1. day \in Int /\ to \in Int
        BY <3>1
      <4> QED
        BY <4>1, WakeMinuteRange, Zenon
    <3> QED
      BY <3>1, <3>2, <3>3, <3>4
  <2>4. curr' \in [day: -1 .. MaxDay, minute: Minute]' /\ target' \in [day: 0 .. MaxDay + 3, minute: Minute]'
    BY <2>2, <2>3
  <2> QED
    BY <2>1, <2>2, <2>4
<1>2. CASE WakeUp
  <2>1. curr.day \in 0 .. MaxDay /\ day \in 0 .. MaxDay
    BY <1>2 DEF WakeUp, SleepInv
  <2>2. checked' \in [ran: 0 .. MaxDay, closed: 0 .. MaxDay] /\ working' \in BOOLEAN
    BY <1>2, <2>1 DEF WakeUp
  <2> QED
    BY <1>2, <2>2 DEF WakeUp, clockVars
<1>3. CASE Finish \/ RequestStop \/ UNCHANGED vars
  BY <1>3 DEF Finish, RequestStop, clockVars, vars
<1>4. CASE Tick
  <2>1. CASE minute < LastMinute
    BY <1>4, <2>1 DEF Tick
  <2>2. CASE ~(minute < LastMinute)
    BY <1>4, <2>2, NextDateType DEF Tick
  <2> QED
    BY <2>1, <2>2
<1> QED
  BY <1>1, <1>2, <1>3, <1>4 DEF Next, Thread

(* Every step keeps what is known of the thread. *)
LEMMA HoursStep ==
    ASSUME HoursInv, [Next]_vars
    PROVE  HoursInv'
<1>t. TypeOK'
  BY HoursTypes
<1> USE HoursAssumption DEF TypeOK, Minute, HoursInv
<1>1. CASE ReadTime
  <2> USE <1>1 DEF ReadTime, clockVars
  <2>1. minute >= Closing => moved' \in {1, 2, 3}
    BY DEF DaysToMove
  <2>2. SleepInv'
    <3>1. minute < Closing => moved' = 0 /\ WakeMinute(Opening, day, day + moved') = Opening
      BY WakeMinuteRange
    <3> QED
      BY <2>1, <3>1 DEF SleepInv
  <2>3. ClosedInv'
    BY DEF ClosedInv
  <2> QED
    BY <1>t, <2>2, <2>3
<1>2. CASE WakeUp
  <2> USE <1>2 DEF WakeUp, clockVars
  <2>1. SleepInv'
    BY DEF SleepInv
  <2>2. ClosedInv'
    <3>1. CASE curr.minute = Opening
      BY <3>1 DEF ClosedInv
    <3>2. CASE curr.minute = Closing
      <4>1. /\ day = target.day /\ curr.day < day
            /\ minute = WakeMinute(Opening, curr.day, day)
        BY <3>2 DEF SleepInv, Reached
      <4>2. checked'.ran = day /\ checked'.closed = curr.day
        BY <3>2
      <4>3. Between(Forward, curr.day, day) \/ minute <= Opening
        BY <4>1, WakeMinuteRange
      <4>4. pc' = "read" /\ UNCHANGED <<day, minute, curr>>
        OBVIOUS
      <4> QED
        BY <4>1, <4>2, <4>3, <4>4 DEF ClosedInv
    <3>3. CASE curr.minute # Opening /\ curr.minute # Closing
      BY <3>3 DEF ClosedInv, SleepInv, Reached
    <3> QED
      BY <3>1, <3>2, <3>3
  <2> QED
    BY <1>t, <2>1, <2>2
<1>3. CASE Finish
  BY <1>t, <1>3 DEF Finish, Running, clockVars, SleepInv, ClosedInv
<1>4. CASE RequestStop
  BY <1>t, <1>4 DEF RequestStop, clockVars, SleepInv, ClosedInv
<1>5. CASE Tick
  <2> USE <1>5 DEF Tick, Reached
  <2>1. SleepInv'
    BY DEF SleepInv
  <2>2. ClosedInv'
    BY DEF ClosedInv, SleepInv
  <2> QED
    BY <1>t, <2>1, <2>2
<1>6. CASE UNCHANGED vars
  BY <1>t, <1>6 DEF vars, clockVars, SleepInv, ClosedInv
<1> QED
  BY <1>1, <1>2, <1>3, <1>4, <1>5, <1>6 DEF Next, Thread

(* The market that the thread closes, a day or more late, is open again a   *)
(* minute after the opening at most, for all opening hours and whatever day *)
(* of the week the thread takes a date for, unless the clocks were put      *)
(* forward in its sleep.                                                    *)
THEOREM MarketReopens == Spec => [](TypeOK /\ Reopens)
<1>1. Init => HoursInv
  <2> SUFFICES ASSUME Init PROVE HoursInv
    OBVIOUS
  <2>1. TypeOK
    <3>1. curr = [day |-> -1, minute |-> 0] /\ target = [day |-> 0, minute |-> 0]
      BY DEF Init
    <3>2. curr \in [day: -1 .. MaxDay, minute: Minute]
      BY <3>1, HoursAssumption DEF Minute
    <3>3. target \in [day: 0 .. MaxDay + 3, minute: Minute]
      BY <3>1, HoursAssumption DEF Minute
    <3>4. checked \in [ran: 0 .. MaxDay, closed: 0 .. MaxDay] /\ day \in 0 .. MaxDay
      BY HoursAssumption DEF Init
    <3>5. /\ minute \in Minute /\ date \in [year: Nat, mon: 0 .. 11, mday: 1 .. 31]
          /\ weekday \in 0 .. 6 /\ working \in BOOLEAN /\ stop \in BOOLEAN
          /\ pc \in {"read", "sleep", "done"} /\ moved \in {0, 1, 2, 3}
      BY HoursAssumption DEF Init
    <3> QED
      BY <3>2, <3>3, <3>4, <3>5, Zenon DEF TypeOK
  <2>2. SleepInv /\ ClosedInv /\ pc # "done"
    BY DEF Init, SleepInv, ClosedInv
  <2> QED
    BY <2>1, <2>2 DEF HoursInv
<1>2. HoursInv /\ [Next]_vars => HoursInv'
  BY HoursStep
<1>3. HoursInv => TypeOK /\ Reopens
  <2> SUFFICES ASSUME HoursInv, checked.ran > 0, ~working, ~stop,
                      ~Between(Forward, checked.closed, checked.ran)
               PROVE  TypeOK /\ day = checked.ran
                        /\ (minute <= Opening \/ (pc = "sleep" /\ curr = [day |-> day, minute |-> Opening]))
    BY DEF HoursInv, Reopens
  <2>1. day = checked.ran /\ (minute <= Opening \/ (pc = "sleep" /\ curr.day = day /\ curr.minute = Opening))
    BY DEF HoursInv, ClosedInv
  <2>2. curr \in [day: -1 .. MaxDay, minute: Minute]
    BY DEF HoursInv, TypeOK
  <2>3. curr = [day |-> curr.day, minute |-> curr.minute]
    BY <2>2
  <2> QED
    BY <2>1, <2>3 DEF HoursInv
<1> QED
  BY <1>1, <1>2, <1>3, PTL DEF Spec
=============================================================================
