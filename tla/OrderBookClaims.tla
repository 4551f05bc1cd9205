-------------------------- MODULE OrderBookClaims --------------------------
(***************************************************************************)
(* What the README, the comments and the tests of the repository say of    *)
(* the order book, and the code does not do: TLC refutes every claim.      *)
(***************************************************************************)
EXTENDS OrderBook

(* README.md:41, "The market price is set at the last trade price": the     *)
(* market price (set_market_price) moves only for an order that has traded. *)
MarketIsLastTrade ==
    [][market' # market => qty[taker] < order[taker].qty]_vars

(* README.md:44-45, "Stop Bids are activated when the market price is above *)
(* or equal to the stop price", asks when it is below or equal: between     *)
(* requests no order whose condition holds is still kept aside (line 34 of  *)
(* orderbook.cpp keeps exactly those).                                      *)
StopsActivated ==
    pc = "idle" =>
        /\ \A r \in stop["BUY"] : market < order[r].stop_price
        /\ \A r \in stop["SELL"] : market > order[r].stop_price

(* README.md:12, the stop price "will activate the order once the market    *)
(* price crosses it": a pending stop order is not lost, it leaves the stop  *)
(* tree only to be cancelled.  OrderComparator compares price and second of *)
(* arrival, and RBTree::insert replaces an equal order.                     *)
StopsKept == [][\A s \in Side : stop[s] \ stop'[s] \subseteq cancelled']_vars

(* README.md:13, AON: "Don't allow partial fills", also of an order that    *)
(* modify_order has left resting.                                           *)
NoPartialFill ==
    \A r \in Created : "AON" \in params[r] => qty[r] \in {0, order[r].qty}

(* README.md:9, a limit order executes at "$x or less for a bid, or $y or   *)
(* more for an ask": both parties of a match accept the price of the level, *)
(* also an order whose price modify_order has changed (and not its side).   *)
LimitRespected ==
    [][SidesKept => \A m \in Created :
        qty'[m] # qty[m] => Accepts(order[m].side, order[m].price, level)]_vars

(* README.md:48-49, a match is between a bid and an ask, "A Bid of $25 and  *)
(* an Ask of $24 will be matched": the two parties are on different sides,  *)
(* also when modify_order was given another side (no handler compares it).  *)
MatchIsBidAndAsk ==
    [][\A m \in Ref : qty'[m] < qty[m] /\ m # taker =>
        order[m].side # order[taker].side]_vars

(* enums.hpp:11, GFD is "good-for-day", and orderbook.cpp:422, "Run at the  *)
(* end of each day": no GFD order is left in the index when                 *)
(* check_date_orders returns.                                               *)
DayOrdersEnd ==
    [][pc = "expire" /\ pc' = "idle" =>
        \A id \in Ref : index[id] # 0 => ~HasParam(index[id], {"GFD"})]_vars

(* README.md:34-35, bids are "sorted by price (descending)": the best bid   *)
(* get_spread reports is no worse than any bid level.                       *)
BestBidReported == \A p \in Levels("BUY") : GetSpread.best_bid >= p

(* README.md:62, trades are kept in the trade repository: whenever a maker  *)
(* is taken from, resolve_orders hands a trade to handle_trade.             *)
TradesRecorded ==
    [][\A m \in Ref : qty'[m] < qty[m] /\ m # taker => trades' = HandleTrade(m)]_vars

(* test_orderbook.cpp:127-128, after cancel_order the order is no longer    *)
(* among get_bids (or get_asks).                                            *)
CancelRemoves ==
    pc = "idle" /\ reply.status = "CANCELLED" =>
        \A s \in Side : reply.order \notin Resting(s)

(* enums.hpp:10, GTC is "good-till-cancelled": an order that rests in the   *)
(* book and is not cancelled can be cancelled (the index finds it).         *)
RestingIsCancellable ==
    \A s \in Side : \A r \in Resting(s) \ cancelled : index[order[r].id] = r
=============================================================================
