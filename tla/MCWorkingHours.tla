-------------------------- MODULE MCWorkingHours --------------------------
(* Instances of WorkingHours for TLC: the days around a change of month. *)
EXTENDS WorkingHours

(* Tuesday 30 January 2024. *)
EndOfJanuary == [year |-> 124, mon |-> 0, mday |-> 30]

(* Monday 5 February 2024. *)
EarlyFebruary == [year |-> 124, mon |-> 1, mday |-> 5]
=============================================================================
