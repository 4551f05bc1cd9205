---------------------------- MODULE MCOrderBook ----------------------------
(***************************************************************************)
(* Instances of OrderBook for TLC.  Each set of requests keeps to what the *)
(* JSON mapper can build: a stop price only when the parameters are        *)
(* exactly STOP, an expire time only for dated orders (else -1).           *)
(***************************************************************************)
EXTENDS OrderBookClaims

Req(s, t, p, sp, ps, e, q) ==
    [side |-> s, type |-> t, price |-> p, stop_price |-> sp,
     params |-> ps, expire_time |-> e, qty |-> q]

(* Resting, immediate and all-or-nothing orders at two prices, a day order. *)
FillRequest ==
    {Req(s, "LIMIT", p, 0, {k}, -1, q) : s \in Side, p \in Price, k \in {"GTC", "AON"}, q \in {1, 2}}
        \cup {Req(s, "MARKET", p, 0, {"IOC"}, -1, 2) : s \in Side, p \in Price}
        \cup {Req("SELL", "LIMIT", 2, 0, {"GFD"}, 1, 1)}

(* The same, and resting orders for a negative quantity. *)
MatchRequest == FillRequest \cup {Req(s, "LIMIT", 1, 0, {"GTC"}, -1, -1) : s \in Side}

(* Good-till-cancelled orders only, for longer histories. *)
RestingRequest ==
    {Req(s, "LIMIT", p, 0, {"GTC"}, -1, q) : s \in Side, p \in Price, q \in {1, 2}}

(* Stop orders of both types and a few resting orders that move the market. *)
StopRequest ==
    {Req(s, t, p, sp, {"STOP"}, -1, 1) :
        s \in Side, t \in {"LIMIT", "MARKET"}, p \in Price, sp \in Price}
        \cup {Req(s, "LIMIT", p, 0, {"GTC"}, -1, 1) : s \in Side, p \in Price}

(* Stop orders among orders for the day and till a date, two of them with   *)
(* the same date.                                                           *)
DateRequest ==
    {Req("BUY", "LIMIT", 1, 0, {k}, e, 1) : k \in {"GFD", "GTD"}, e \in {1, 3}}
        \cup {Req(s, "LIMIT", 1, sp, {"STOP"}, -1, 1) : s \in Side, sp \in Price}
        \cup {Req("SELL", "MARKET", 1, 1, {"STOP"}, -1, 1),
              Req("SELL", "LIMIT", 1, 0, {"GTC"}, -1, 1),
              Req("SELL", "LIMIT", 1, 0, {"STOP", "GFD"}, 3, 1)}
=============================================================================
