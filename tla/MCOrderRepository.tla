-------------------------- MODULE MCOrderRepository --------------------------
(***************************************************************************)
(* Instances of OrderRepository for TLC.                                   *)
(***************************************************************************)
EXTENDS OrderRepository

Req(s, t, p, sp, ps, e, q) ==
    [side |-> s, type |-> t, price |-> p, stop_price |-> sp,
     params |-> ps, expire_time |-> e, qty |-> q]

(* Resting orders that match each other, one of them for the day, a         *)
(* stop order that is kept aside and a stop market order: its price is      *)
(* reached, so that it is immediate or cancelled.                           *)
DurableRequest ==
    {Req("BUY", "LIMIT", 2, 0, {"GTC"}, -1, 2),
     Req("SELL", "LIMIT", 1, 0, {"GFD"}, 1, 1),
     Req("BUY", "LIMIT", 1, 0, {"STOP"}, -1, 1),
     Req("BUY", "MARKET", 1, 2, {"STOP"}, -1, 1)}

(* The ids in an order that is not the one of arrival. *)
LastFirst == [i \in Ref |-> MaxOrders + 1 - i]
=============================================================================
