---------------------------- MODULE MCBookReader ----------------------------
(***************************************************************************)
(* An instance of BookReader for TLC: resting orders at three prices.      *)
(***************************************************************************)
EXTENDS BookReader

Gtc(s, p, q) ==
    [side |-> s, type |-> "LIMIT", price |-> p, stop_price |-> 0, params |-> {"GTC"},
     expire_time |-> 0, qty |-> q]

(* Levels in front of, between and behind those the reader has passed, and  *)
(* a bid that takes from two of them.                                       *)
ReaderRequest ==
    {Gtc("SELL", 1, 1), Gtc("SELL", 2, 1), Gtc("SELL", 3, 1), Gtc("BUY", 1, 1), Gtc("BUY", 2, 2)}
=============================================================================
