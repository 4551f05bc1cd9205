----------------------------- MODULE MCExchange -----------------------------
(***************************************************************************)
(* An instance of Exchange for TLC: two listed instruments and one that is *)
(* not, or is added later.                                                 *)
(***************************************************************************)
EXTENDS Exchange

CONSTANTS first, second, extra

TwoListed == <<first, second>>

Some(op, instrument, valid) == [op |-> op, instrument |-> instrument, valid |-> valid]

(* Each handler's request, for an instrument of its own and for another's,  *)
(* and what the handlers turn down.                                         *)
SomeRequest ==
    {Some("create", first, TRUE), Some("create", second, TRUE), Some("create", first, FALSE),
     Some("create", extra, TRUE), Some("update", first, TRUE), Some("cancel", first, TRUE),
     Some("cancel", extra, FALSE), Some("get", first, TRUE), Some("snapshot", first, TRUE)}
=============================================================================
