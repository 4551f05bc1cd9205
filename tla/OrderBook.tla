------------------------------ MODULE OrderBook ------------------------------
(***************************************************************************)
(* One limit order book (orderbook.cpp) driven by the worker thread of its *)
(* instrument: the two price trees, the FIFO queue of every price level,   *)
(* the two trees of pending stop orders, the tree of dated orders, the     *)
(* index of the cancellable orders and the market price.                   *)
(*                                                                         *)
(* A request is one or more steps.  The loops of match_order and           *)
(* process_limit_order take one step per level and per maker, so that a    *)
(* reader on another thread, or the repository thread that holds the same  *)
(* Order objects, has its place between them.                              *)
(*                                                                         *)
(* Order objects are numbered in order of creation (a Ref); the object a   *)
(* modification brings carries the id of the one it replaces.  Prices and  *)
(* quantities are integers in place of floats: the code only compares,     *)
(* adds and subtracts them.  No handler checks their sign.                 *)
(***************************************************************************)
EXTENDS Integers, Sequences, FiniteSetsExt

CONSTANTS
    Price,          \* the prices orders may carry
    Request,        \* the orders clients may send, as the JSON mapper builds them
    InitialPrice,   \* market price the book is constructed with
    OneHour,        \* the 3600 seconds check_date_orders looks ahead
    NoLimit,        \* the null Limit pointer
    Dangling,       \* a shared_ptr read from freed memory
    MaxOrders,      \* bound on Order objects
    MaxClock        \* bound on the clock, in seconds

(* What is_buy() tells apart: an update may also carry the side UNKOWN,     *)
(* which no handler refuses there and which is a sell order to the book.    *)
Side   == {"BUY", "SELL"}
Param  == {"STOP", "AON", "IOC", "GTC", "GFD", "GTD"}
Ref    == 1 .. MaxOrders
Limit  == Side \X Price
Status == {"ACCEPTED", "MATCHED", "NOT_MATCHED", "CANCELLED", "MODIFIED", "NOT_FOUND"}

OrderRequest ==
    [side: Side, type: {"MARKET", "LIMIT"}, price: Price, stop_price: Int,
     params: SUBSET Param, expire_time: Int, qty: Int]

ASSUME BookAssumption ==
    /\ Price \subseteq Int
    /\ Request \subseteq OrderRequest
    /\ InitialPrice \in Int
    /\ OneHour \in Nat
    /\ NoLimit \notin Limit
    /\ Dangling \notin Ref
    /\ MaxOrders \in Nat
    /\ MaxClock \in Nat

VARIABLES
    objects,    \* number of Order objects created
    order,      \* their immutable fields
    qty,        \* _current_qty
    params,     \* _params (set_params replaces it)
    cancelled,  \* the orders whose _cancelled flag is set
    parent,     \* _parent, the Limit an order was put in
    tree,       \* _bid_limits and _ask_limits: side -> price -> Limit
    queue,      \* the list from _head to _tail of every Limit
    volume,     \* _active_volume of every Limit
    index,      \* _orders: order id -> Order object, 0 when absent
    stop,       \* _bid_stop_orders and _ask_stop_orders
    date,       \* _date_orders
    market,     \* _market_price
    clock,      \* time(0)
    pc,         \* where the worker thread is
    taker,      \* match_order: the incoming order
    todo,       \* match_order: prices of the levels the iterator has still to visit
    level,      \* match_order: price of the level being processed
    walk,       \* process_limit_order: the makers from curr_order to the tail
    removed,    \* check_date_orders: removed_orders
    outbox,     \* what the last request has enqueued to the order repository
    trades,     \* what it has enqueued to the trade repository
    reply       \* its answer: status and the object it was about (NONE: no answer)

bookVars  == <<parent, tree, queue, volume>>
matchVars == <<taker, todo, level, walk>>
vars == <<objects, order, qty, params, cancelled, bookVars, index, stop, date,
          market, clock, pc, matchVars, removed, outbox, trades, reply>>

-----------------------------------------------------------------------------
(* Orders and their comparators *)

Opposite(s) == IF s = "BUY" THEN "SELL" ELSE "BUY"

HasParam(r, ps) == params[r] \cap ps # {}

FOK   == {"AON", "IOC"}
Dated == {"GFD", "GTD"}

NewOrder(req, id) ==
    [id |-> id, side |-> req.side, type |-> req.type, price |-> req.price,
     stop_price |-> req.stop_price, qty |-> req.qty,
     timestamp |-> clock, expire_time |-> req.expire_time]

BlankOrder ==
    [id |-> 0, side |-> "BUY", type |-> "LIMIT", price |-> 0,
     stop_price |-> 0, qty |-> 0, timestamp |-> 0, expire_time |-> 0]

(* LimitComparator: bids in descending, asks in ascending order of price. *)
Before(s, p, q) == IF s = "BUY" THEN p > q ELSE p < q

(* Mutant of First: the comparator of the wrong side. *)
FirstReversed(s, S, p) == p \in S /\ \A q \in S \ {p} : Before(s, q, p)

(* Where an iterator over the levels S of side s stands first. *)
First(s, S, p) == p \in S /\ \A q \in S \ {p} : Before(s, p, q)

(* OrderComparator: neither order is before the other. *)
SameStopKey(f, a, b) ==
    f[a].price = f[b].price /\ f[a].timestamp = f[b].timestamp

(* RBTree::insert replaces the value of an equal key, RBTree::remove deletes *)
(* whatever value has an equal key.                                          *)
StopInsert(f, S, r) == {x \in S : ~SameStopKey(f, x, r)} \cup {r}
StopRemove(f, S, r) == {x \in S : ~SameStopKey(f, x, r)}

DateInsert(f, S, r) == {x \in S : f[x].expire_time # f[r].expire_time} \cup {r}
DateRemove(f, S, R) == {x \in S : \A r \in R : f[x].expire_time # f[r].expire_time}

-----------------------------------------------------------------------------
(* Price levels *)

(* Position of the first occurrence of r in s. *)
FirstIndex(s, r) ==
    CHOOSE i \in DOMAIN s : s[i] = r /\ \A j \in 1 .. i - 1 : s[j] # r

(* Mutant of Unlink: only the head of the list is taken out. *)
UnlinkHeadOnly(s, r) == IF s # << >> /\ Head(s) = r THEN Tail(s) ELSE s

(* The list s with r unlinked, s itself when r is not linked in it. *)
Unlink(s, r) ==
    IF \E i \in DOMAIN s : s[i] = r
    THEN [j \in 1 .. Len(s) - 1 |-> IF j < FirstIndex(s, r) THEN s[j] ELSE s[j + 1]]
    ELSE s

(* Mutant of Decrease: the whole level's volume is forgotten. *)
DecreaseToZero(v, q) == 0

(* Limit::decrease_volume *)
Decrease(v, q) == IF v > q THEN v - q ELSE 0

Levels(s) == {p \in Price : tree[s][p] # NoLimit}

(* limits.find(limit): the tree's own Limit of that price, else the new one. *)
Home(s, l) == IF tree[s][l[2]] # NoLimit THEN tree[s][l[2]] ELSE l

(* Mutant of AddLimitOrder: a level that has become empty keeps a null head. *)
AddBehindTailOnly(n, s, q, l, qu, vo) ==
    LET h == Home(s, l) IN
    /\ parent' = [parent EXCEPT ![n] = h]
    /\ tree' = [tree EXCEPT ![s][l[2]] = h]
    /\ queue' = [qu EXCEPT ![h] = IF tree[s][l[2]] = NoLimit THEN <<n>>
                                  ELSE IF @ = << >> THEN @ ELSE Append(@, n)]
    /\ volume' = [vo EXCEPT ![h] = @ + q]

(* Mutant of AddLimitOrder: the order goes to the head of the level. *)
AddAtHead(n, s, q, l, qu, vo) ==
    LET h == Home(s, l) IN
    /\ parent' = [parent EXCEPT ![n] = h]
    /\ tree' = [tree EXCEPT ![s][l[2]] = h]
    /\ queue' = [qu EXCEPT ![h] = <<n>> \o @]
    /\ volume' = [vo EXCEPT ![h] = @ + q]

(* add_limit_order of object n, of side s and quantity q, to the Limit l;   *)
(* qu and vo are the queues and volumes it starts from.  A Limit that the   *)
(* tree does not hold is inserted and gets n as its only order.             *)
AddLimitOrder(n, s, q, l, qu, vo) ==
    LET h == Home(s, l) IN
    /\ parent' = [parent EXCEPT ![n] = h]
    /\ tree' = [tree EXCEPT ![s][l[2]] = h]
    /\ queue' = [qu EXCEPT ![h] = IF tree[s][l[2]] # NoLimit THEN Append(@, n) ELSE <<n>>]
    /\ volume' = [vo EXCEPT ![h] = @ + q]

(* Mutant of RemoveLimitOrder: the index keeps the order. *)
RemoveLimitOrderOnly(r, q) ==
    /\ queue' = [queue EXCEPT ![parent[r]] = Unlink(@, r)]
    /\ volume' = [volume EXCEPT ![parent[r]] = Decrease(@, q)]
    /\ UNCHANGED index

(* remove_limit_order of object r, whose current quantity is q. *)
RemoveLimitOrder(r, q) ==
    /\ queue' = [queue EXCEPT ![parent[r]] = Unlink(@, r)]
    /\ volume' = [volume EXCEPT ![parent[r]] = Decrease(@, q)]
    /\ index' = [index EXCEPT ![order[r].id] = 0]

-----------------------------------------------------------------------------
Init ==
    /\ objects = 0
    /\ order = [r \in Ref |-> BlankOrder]
    /\ qty = [r \in Ref |-> 0]
    /\ params = [r \in Ref |-> {}]
    /\ cancelled = {}
    /\ parent = [r \in Ref |-> NoLimit]
    /\ tree = [s \in Side |-> [p \in Price |-> NoLimit]]
    /\ queue = [l \in Limit |-> << >>]
    /\ volume = [l \in Limit |-> 0]
    /\ index = [r \in Ref |-> 0]
    /\ stop = [s \in Side |-> {}]
    /\ date = {}
    /\ market = InitialPrice
    /\ clock = 0
    /\ pc = "idle"
    /\ taker = 0
    /\ todo = {}
    /\ level = 0
    /\ walk = << >>
    /\ removed = {}
    /\ outbox = << >>
    /\ trades = << >>
    /\ reply = [status |-> "NONE", order |-> 0]

-----------------------------------------------------------------------------
(* add_order *)

(* A new Order object for req with the given id (0: a fresh one). *)
Create(req, id) ==
    LET n == objects + 1 IN
    /\ n <= MaxOrders
    /\ objects' = n
    /\ order' = [order EXCEPT ![n] = NewOrder(req, IF id = 0 THEN n ELSE id)]
    /\ qty' = [qty EXCEPT ![n] = req.qty]

(* The test of line 34: the book keeps the order aside. *)
StopPending(req) ==
    /\ "STOP" \in req.params
    /\ \/ req.side = "BUY" /\ market > req.stop_price
       \/ req.side = "SELL" /\ market < req.stop_price

(* The Defer of line 26 is a temporary that dies at its own semicolon: the *)
(* order is enqueued to the repository first, before it is processed.      *)
AddStopOrder(req) ==
    LET n == objects + 1 IN
    /\ pc = "idle"
    /\ StopPending(req)
    /\ Create(req, 0)
    /\ params' = [params EXCEPT ![n] = req.params]
    /\ outbox' = <<n>>
    /\ trades' = << >>
    /\ stop' = [stop EXCEPT ![req.side] = StopInsert(order', @, n)]
    /\ date' = IF req.params \cap Dated # {} THEN DateInsert(order', date, n) ELSE date
    /\ reply' = [status |-> "ACCEPTED", order |-> n]
    /\ UNCHANGED <<cancelled, bookVars, index, market, clock, pc, matchVars, removed>>

(* Any other order is matched; a triggered stop market order becomes IOC. *)
AddOrder(req) ==
    LET n == objects + 1 IN
    /\ pc = "idle"
    /\ ~StopPending(req)
    /\ Create(req, 0)
    /\ params' = [params EXCEPT ![n] =
                    IF "STOP" \in req.params /\ req.type = "MARKET" THEN {"IOC"} ELSE req.params]
    /\ outbox' = <<n>>
    /\ trades' = << >>
    /\ pc' = "match"
    /\ taker' = n
    /\ todo' = Levels(Opposite(req.side))
    /\ UNCHANGED <<cancelled, bookVars, index, stop, date, market, clock, level, walk,
                   removed, reply>>

-----------------------------------------------------------------------------
(* match_order: one step per level *)

(* add_order returns; the locals of match_order are gone. *)
Return(status) ==
    /\ pc' = "idle"
    /\ taker' = 0
    /\ todo' = {}
    /\ level' = 0
    /\ walk' = << >>
    /\ reply' = [status |-> status, order |-> taker]

TakerSide == order[taker].side

(* The Limit the iterator stands on. *)
LevelOf(p) == tree[Opposite(TakerSide)][p]

(* An all-or-nothing order passes a level whose volume is too small. *)
Skips(p) == HasParam(taker, {"AON"}) /\ volume[LevelOf(p)] < qty[taker]

(* Mutant of Crosses: any price crosses. *)
CrossesAlways(s, price, p) == TRUE

(* calculate_cross_price has a value *)
Crosses(s, price, p) == IF s = "BUY" THEN price >= p ELSE price <= p

(* calculate_cross_price: the price the market price is set to. *)
CrossPrice(p) ==
    IF order[taker].type = "LIMIT" /\ TakerSide = "BUY" THEN order[taker].price ELSE p

(* Mutant of MatchSkip: the iterator is not advanced. *)
MatchSkipStuck(p) ==
    /\ pc = "match"
    /\ First(Opposite(TakerSide), todo, p)
    /\ Skips(p)
    /\ UNCHANGED vars

MatchSkip(p) ==
    /\ pc = "match"
    /\ First(Opposite(TakerSide), todo, p)
    /\ Skips(p)
    /\ todo' = todo \ {p}
    /\ UNCHANGED <<objects, order, qty, params, cancelled, bookVars, index, stop, date, market,
                   clock, pc, taker, level, walk, removed, outbox, trades, reply>>

MatchEnter(p) ==
    /\ pc = "match"
    /\ First(Opposite(TakerSide), todo, p)
    /\ ~Skips(p)
    /\ Crosses(TakerSide, order[taker].price, p)
    /\ todo' = todo \ {p}
    /\ pc' = "fill"
    /\ level' = p
    /\ walk' = queue[LevelOf(p)]
    /\ UNCHANGED <<objects, order, qty, params, cancelled, bookVars, index, stop, date, market,
                   clock, taker, removed, outbox, trades, reply>>

(* The loop ends without a full match: no level left, or no cross. *)
NoMatch ==
    /\ pc = "match"
    /\ \/ todo = {}
       \/ \E p \in todo : /\ First(Opposite(TakerSide), todo, p)
                          /\ ~Skips(p)
                          /\ ~Crosses(TakerSide, order[taker].price, p)

(* FOK has the bits of AON and IOC: an order with either is cancelled. *)
KillOrder ==
    /\ NoMatch
    /\ HasParam(taker, FOK)
    /\ cancelled' = cancelled \cup {taker}
    /\ Return("NOT_MATCHED")
    /\ UNCHANGED <<objects, order, qty, params, bookVars, index, stop, date, market, clock,
                   removed, outbox, trades>>

(* What is left of any other order rests in the book. *)
RestOrder ==
    /\ NoMatch
    /\ ~HasParam(taker, FOK)
    /\ AddLimitOrder(taker, TakerSide, qty[taker], <<TakerSide, order[taker].price>>, queue, volume)
    /\ index' = [index EXCEPT ![order[taker].id] = taker]
    /\ date' = IF HasParam(taker, Dated) THEN DateInsert(order, date, taker) ELSE date
    /\ Return("ACCEPTED")
    /\ UNCHANGED <<objects, order, qty, params, cancelled, stop, market, clock,
                   removed, outbox, trades>>

-----------------------------------------------------------------------------
(* process_limit_order: one step per maker *)

(* Mutants of Resolved: the quantities are not compared; all-or-nothing is  *)
(* not asked for; the maker taken in full keeps its quantity.               *)
ResolvedUnchecked(m) == [qty EXCEPT ![m] = @ - qty[taker], ![taker] = 0]

ResolvedInPart(m) ==
    IF qty[m] >= qty[taker]
    THEN [qty EXCEPT ![m] = @ - qty[taker], ![taker] = 0]
    ELSE [qty EXCEPT ![taker] = @ - qty[m], ![m] = 0]

ResolvedOneSided(m) ==
    IF qty[m] >= qty[taker]
    THEN [qty EXCEPT ![m] = @ - qty[taker], ![taker] = 0]
    ELSE IF HasParam(taker, {"AON"}) THEN qty
         ELSE [qty EXCEPT ![taker] = @ - qty[m]]

(* resolve_orders: the two quantities after maker m meets the taker. *)
Resolved(m) ==
    IF qty[m] >= qty[taker]
    THEN [qty EXCEPT ![m] = @ - qty[taker], ![taker] = 0]
    ELSE IF HasParam(taker, {"AON"}) THEN qty
         ELSE [qty EXCEPT ![taker] = @ - qty[m], ![m] = 0]

(* handle_trade runs when the local copy order_qty differs from the copy    *)
(* before_trade made of it two lines above.                                 *)
TradeSeen(order_qty, before_trade) == order_qty # before_trade

(* handle_trade enqueues a trade between the taker and maker m. *)
HandleTrade(m) == Append(trades, <<taker, m>>)

ResolveOrders ==
    LET m == Head(walk) IN
    /\ pc = "fill"
    /\ qty[taker] > 0
    /\ walk # << >>
    /\ qty' = Resolved(m)
    /\ walk' = Tail(walk)
    /\ IF qty'[m] = 0 THEN RemoveLimitOrder(m, qty'[m]) ELSE UNCHANGED <<queue, volume, index>>
    /\ trades' = IF TradeSeen(qty[taker], qty[taker]) THEN HandleTrade(m) ELSE trades
    /\ UNCHANGED <<objects, order, params, cancelled, parent, tree, stop, date, market, clock,
                   pc, taker, todo, level, removed, outbox, reply>>

(* Mutant of LeaveLevel: an emptied level leaves the tree. *)
LeaveLevelErases ==
    /\ pc = "fill"
    /\ qty[taker] <= 0 \/ walk = << >>
    /\ market' = CrossPrice(level)
    /\ tree' = IF queue[LevelOf(level)] = << >>
               THEN [tree EXCEPT ![Opposite(TakerSide)][level] = NoLimit] ELSE tree
    /\ IF qty[taker] = 0
       THEN Return("MATCHED")
       ELSE /\ pc' = "match"
            /\ UNCHANGED <<matchVars, reply>>
    /\ UNCHANGED <<objects, order, qty, params, cancelled, parent, queue, volume, index, stop,
                   date, clock, removed, outbox, trades>>

(* The end of a level: the market price is set whether or not it traded.    *)
(* The Defer of lines 145-154 has run before the loop, with empty vectors:  *)
(* emptied levels stay in the tree and changed makers are not enqueued.     *)
LeaveLevel ==
    /\ pc = "fill"
    /\ qty[taker] <= 0 \/ walk = << >>
    /\ market' = CrossPrice(level)
    /\ IF qty[taker] = 0
       THEN Return("MATCHED")
       ELSE /\ pc' = "match"
            /\ UNCHANGED <<matchVars, reply>>
    /\ UNCHANGED <<objects, order, qty, params, cancelled, bookVars, index, stop, date, clock,
                   removed, outbox, trades>>

-----------------------------------------------------------------------------
(* cancel_order and modify_order *)

(* Mutant of RemoveStopOrder: the order itself joins the stop tree. *)
KeepStopOrder(f, r) ==
    /\ stop' = [stop EXCEPT ![f[r].side] = StopInsert(f, @, r)]
    /\ index' = [index EXCEPT ![f[r].id] = 0]

(* remove_stop_order: r leaves the stop tree of its side and the index. *)
RemoveStopOrder(f, r) ==
    /\ stop' = [stop EXCEPT ![f[r].side] = StopRemove(f, @, r)]
    /\ index' = [index EXCEPT ![f[r].id] = 0]

(* cancel_order of an id the index holds.  An order with the STOP bit is    *)
(* looked for among the stop orders, even when it rests in the book.  The   *)
(* enqueue of line 257 goes through the iterator that has been erased: it   *)
(* finds the pointer still there, or freed memory.                          *)
CancelEntry(id, sent) ==
    LET r == index[id] IN
    /\ r # 0
    /\ cancelled' = cancelled \cup {r}
    /\ IF HasParam(r, {"STOP"})
       THEN RemoveStopOrder(order, r) /\ UNCHANGED <<queue, volume>>
       ELSE RemoveLimitOrder(r, qty[r]) /\ UNCHANGED stop
    /\ \E x \in {r, Dangling} : outbox' = Append(sent, x)

CancelOrder(id) ==
    /\ pc = "idle"
    /\ \/ /\ CancelEntry(id, << >>)
          /\ reply' = [status |-> "CANCELLED", order |-> index[id]]
       \/ /\ index[id] = 0
          /\ outbox' = << >>
          /\ reply' = [status |-> "NOT_FOUND", order |-> 0]
          /\ UNCHANGED <<cancelled, queue, volume, index, stop>>
    /\ trades' = << >>
    /\ UNCHANGED <<objects, order, qty, params, parent, tree, date, market, clock, pc,
                   matchVars, removed>>

(* modify_order: the new object takes the place of the old one, in the old  *)
(* one's Limit whatever price it carries, and is not entered in the index.  *)
(* Nothing compares the sides: an order that changes side takes the old     *)
(* Limit into the other tree, unless that tree has a Limit of that price,   *)
(* and is then the Limit's only order.                                      *)
(* Line 104 reads the parent through the erased iterator; the Limit itself  *)
(* is kept alive by the tree, so the pointer is still good.                 *)
ModifyOrder(id, req) ==
    LET n == objects + 1
        r == index[id]
        l == parent[r]
    IN
    /\ pc = "idle"
    /\ r # 0
    /\ r \notin cancelled
    /\ qty[r] # 0
    /\ Create(req, id)
    /\ params' = [params EXCEPT ![n] = req.params]
    /\ cancelled' = cancelled \cup {r}
    /\ IF HasParam(r, {"STOP"})
       THEN /\ stop' = [stop EXCEPT ![req.side] = StopInsert(order', @, n)]
            /\ UNCHANGED bookVars
       ELSE /\ AddLimitOrder(n, req.side, req.qty, l,
                             [queue EXCEPT ![l] = Unlink(@, r)],
                             [volume EXCEPT ![l] = Decrease(@, qty[r])])
            /\ UNCHANGED stop
    /\ index' = [index EXCEPT ![id] = 0]
    /\ outbox' = <<n>>
    /\ trades' = << >>
    /\ reply' = [status |-> "MODIFIED", order |-> n]
    /\ UNCHANGED <<date, market, clock, pc, matchVars, removed>>

(* modify_order of an id that is absent, cancelled or fulfilled. *)
ModifyNotFound(id) ==
    /\ pc = "idle"
    /\ index[id] # 0 => index[id] \in cancelled \/ qty[index[id]] = 0
    /\ outbox' = << >>
    /\ trades' = << >>
    /\ reply' = [status |-> "NOT_FOUND", order |-> 0]
    /\ UNCHANGED <<objects, order, qty, params, cancelled, bookVars, index, stop, date, market,
                   clock, pc, matchVars, removed>>

-----------------------------------------------------------------------------
(* check_date_orders: one step per order of the date tree *)

Earliest(S, r) == r \in S /\ \A x \in S : order[r].expire_time <= order[x].expire_time

(* Mutant of Due: every dated order is. *)
AlwaysDue(r) == TRUE

Due(r) == HasParam(r, {"GFD"}) \/ order[r].expire_time < clock + OneHour

CheckDateOrders ==
    /\ pc = "idle"
    /\ pc' = "expire"
    /\ removed' = {}
    /\ outbox' = << >>
    /\ trades' = << >>
    /\ reply' = [status |-> "NONE", order |-> 0]
    /\ UNCHANGED <<objects, order, qty, params, cancelled, bookVars, index, stop, date, market,
                   clock, matchVars>>

ExpireOrder(r) ==
    /\ pc = "expire"
    /\ Earliest(date \ removed, r)
    /\ Due(r)
    /\ \/ CancelEntry(order[r].id, outbox)
       \/ /\ index[order[r].id] = 0
          /\ UNCHANGED <<cancelled, queue, volume, index, stop, outbox>>
    /\ removed' = removed \cup {r}
    /\ UNCHANGED <<objects, order, qty, params, parent, tree, date, market, clock, pc,
                   matchVars, trades, reply>>

ExpireDone ==
    /\ pc = "expire"
    /\ \A r \in date \ removed : Earliest(date \ removed, r) => ~Due(r)
    /\ date' = DateRemove(order, date, removed)
    /\ removed' = {}
    /\ pc' = "idle"
    /\ UNCHANGED <<objects, order, qty, params, cancelled, bookVars, index, stop, market, clock,
                   matchVars, outbox, trades, reply>>

(* Time passes between requests; only a request reads the clock. *)
Tick ==
    /\ pc = "idle"
    /\ clock < MaxClock
    /\ clock' = clock + 1
    /\ UNCHANGED <<objects, order, qty, params, cancelled, bookVars, index, stop, date, market,
                   pc, matchVars, removed, outbox, trades, reply>>

-----------------------------------------------------------------------------
(* Steps of a request in progress *)
Match ==
    \/ \E p \in Price : MatchSkip(p) \/ MatchEnter(p)
    \/ KillOrder
    \/ RestOrder
    \/ ResolveOrders
    \/ LeaveLevel

Expire == (\E r \in Ref : ExpireOrder(r)) \/ ExpireDone

(* Requests a client or the closing-time thread may bring *)
Submit ==
    \/ \E req \in Request : AddStopOrder(req) \/ AddOrder(req)
    \/ \E id \in Ref : CancelOrder(id) \/ ModifyNotFound(id)
    \/ \E id \in Ref, req \in Request : ModifyOrder(id, req)
    \/ CheckDateOrders

Next == Submit \/ Match \/ Expire \/ Tick

Spec == Init /\ [][Next]_vars

(* The worker thread goes on with the request it has taken. *)
FairSpec == Spec /\ WF_vars(Match \/ Expire)

-----------------------------------------------------------------------------
(* What a reader of the book is told *)

(* get_spread: _bid_limits.last() and _ask_limits.first(), -1 for an empty  *)
(* tree.  The bid tree is sorted in descending order of price.              *)
GetSpread ==
    [best_bid |-> IF Levels("BUY") = {} THEN -1 ELSE Min(Levels("BUY")),
     best_ask |-> IF Levels("SELL") = {} THEN -1 ELSE Min(Levels("SELL")),
     market_price |-> market]

(* get_bids, get_asks: the orders of a side, walking the tree and its queues. *)
Resting(s) == UNION {{queue[tree[s][p]][i] : i \in DOMAIN queue[tree[s][p]]} : p \in Levels(s)}

-----------------------------------------------------------------------------
(* Correctness *)

Created == 1 .. objects

(* What no handler makes sure of: no modification has changed the side of   *)
(* its order (objects live on, so that the one which brought the id can be  *)
(* asked), and no order is for a negative quantity.  What rests on them is  *)
(* stated under them.                                                       *)
SidesKept    == \A r \in Created : order[r].side = order[order[r].id].side
NoneNegative == \A r \in Created : order[r].qty >= 0
Regular      == SidesKept /\ NoneNegative

Linked(r, l) == \E i \in DOMAIN queue[l] : queue[l][i] = r

(* The orders of a level. *)
Orders(l) == {queue[l][i] : i \in DOMAIN queue[l]}

(* The sum of f[x] over the elements x of S. *)
SumOver(f, S) == MapThenSumSet(LAMBDA x : f[x], S)

OrderRecord ==
    [id: Nat, side: Side, type: {"MARKET", "LIMIT"}, price: Int, stop_price: Int,
     qty: Int, timestamp: Nat, expire_time: Int]

(* Every variable of the book, the match in progress and the reply keeps its type. *)
TypeOK ==
    /\ objects \in 0 .. MaxOrders
    /\ order \in [Ref -> OrderRecord]
    /\ qty \in [Ref -> Int]
    /\ params \in [Ref -> SUBSET Param]
    /\ cancelled \subseteq Ref
    /\ parent \in [Ref -> Limit \cup {NoLimit}]
    /\ tree \in [Side -> [Price -> Limit \cup {NoLimit}]]
    /\ queue \in [Limit -> Seq(Ref)]
    /\ volume \in [Limit -> Int]
    /\ index \in [Ref -> Ref \cup {0}]
    /\ stop \in [Side -> SUBSET Ref]
    /\ date \subseteq Ref
    /\ market \in Int
    /\ clock \in 0 .. MaxClock
    /\ pc \in {"idle", "match", "fill", "expire"}
    /\ taker \in Ref \cup {0}
    /\ todo \subseteq Price
    /\ level \in Price \cup {0}
    /\ walk \in Seq(Ref)
    /\ removed \subseteq Ref
    /\ outbox \in Seq(Ref \cup {Dangling})
    /\ trades \in Seq(Ref \X Ref)
    /\ reply \in [status: Status \cup {"NONE"}, order: Ref \cup {0}]

(* resolve_orders never asks decrease_qty for more than an order has left   *)
(* (it would throw in the worker), and nothing fills an order twice or      *)
(* gives it back what was taken: what is left of an order is between        *)
(* nothing and what it was for, as long as no order is for a negative       *)
(* quantity.                                                                *)
NeverOverdrawn == NoneNegative => \A r \in Created : qty[r] \in 0 .. order[r].qty

(* Every bid level that holds an order lies below every ask level that does. *)
NoCross ==
    \A b, a \in Price :
        /\ tree["BUY"][b] # NoLimit /\ queue[tree["BUY"][b]] # << >>
        /\ tree["SELL"][a] # NoLimit /\ queue[tree["SELL"][a]] # << >>
        => b < a

(* match_order leaves nothing to match: as long as quantities have not been *)
(* negative and modifications have kept the side of their order, the book   *)
(* is not crossed, whatever orders, cancellations and modifications have    *)
(* come.  (modify_order lets an order change side without matching it, and  *)
(* process_limit_order passes every maker for a negative quantity.)         *)
Uncrossed == Regular => NoCross

(* An id the index finds is an order of that id which is still linked in    *)
(* the queue of its Limit, and that Limit is the one its side's tree holds. *)
EntriesLinked ==
    \A id \in Ref : index[id] # 0 =>
        LET r == index[id] IN
        /\ r <= objects
        /\ order[r].id = id
        /\ r \notin cancelled
        /\ \E p \in Price : /\ parent[r] = <<order[r].side, p>>
                            /\ tree[order[r].side][p] = parent[r]
        /\ Linked(r, parent[r])

(* As long as modifications have kept the side of their order, cancel_order *)
(* and modify_order can trust the parent pointer of the order they find in  *)
(* _orders.  (A change of side may hang the Limit into the other tree with  *)
(* the new order alone; the Limit's other orders are then still in _orders  *)
(* and in no list.)                                                         *)
IndexSound == SidesKept => EntriesLinked

(* Time priority: the orders of a level stand in order of arrival, also     *)
(* after cancellations, fills and modifications out of the middle.          *)
TimePriority ==
    \A l \in Limit : \A i, j \in DOMAIN queue[l] : i < j => queue[l][i] < queue[l][j]

(* The volume of a level is no less than what its orders have left. *)
Covered(l) == volume[l] >= SumOver(qty, Orders(l))

(* The volume match_order tests for an all-or-nothing order is never less   *)
(* than what the level really holds: no such order passes a level that      *)
(* could have filled it, as long as no order is for a negative quantity.    *)
VolumeCovers == NoneNegative => \A l \in Limit : Covered(l)

(* What the orders of a side have traded. *)
Filled(s) ==
    SumOver([r \in Ref |-> order[r].qty - qty[r]], {r \in Created : order[r].side = s})

(* What buyers have received is what sellers have delivered, at every step  *)
(* of a match, as long as modifications have kept the side of their order   *)
(* (a Limit that hangs in both trees lets resolve_orders match two orders   *)
(* of the same side).                                                       *)
Conservation == SidesKept => Filled("BUY") = Filled("SELL")

(* An all-or-nothing order that add_order matches is filled in one piece or *)
(* not at all, and one that is not filled does not stay in the book.        *)
AllOrNothing ==
    \A r \in Created :
        "AON" \in params[r] /\ order[r].id = r =>
            /\ qty[r] \in {0, order[r].qty}
            /\ \A l \in Limit : ~Linked(r, l)

(* The answer add_order and modify_order give tells where the order is.     *)
ReplyTruthful ==
    LET r == reply.order
        Live == (\E l \in Limit : Linked(r, l)) \/ r \in stop[order[r].side]
    IN
    pc = "idle" =>
        /\ reply.status = "MATCHED" => qty[r] = 0 /\ ~Live
        /\ reply.status = "NOT_MATCHED" => r \in cancelled /\ ~Live
        /\ reply.status \in {"ACCEPTED", "MODIFIED"} => r \notin cancelled /\ Live

(* Price-time priority: a maker that an order without AON takes from is the *)
(* first of its level, and no better level of its side holds an order.      *)
PricePriority ==
    [][\A m \in Created :
        qty'[m] < qty[m] /\ m # taker /\ "AON" \notin params[taker] =>
            \E p \in Price :
                LET l == tree[Opposite(TakerSide)][p] IN
                /\ l # NoLimit /\ queue[l] # << >> /\ Head(queue[l]) = m
                /\ \A q \in Price :
                    /\ tree[Opposite(TakerSide)][q] # NoLimit
                    /\ Before(Opposite(TakerSide), q, p)
                    => queue[tree[Opposite(TakerSide)][q]] = << >>]_vars

(* An order of side s with this limit may trade at price p. *)
Accepts(s, limit, p) == IF s = "BUY" THEN p <= limit ELSE p >= limit

(* A quantity changes only in a match: the taker and one maker of the other *)
(* side, whose level the taker's own price reaches, lose the same amount,   *)
(* as long as quantities have not been negative and modifications have kept *)
(* the side of their order.                                                 *)
FairExchange ==
    [][\A m \in Created : Regular /\ m # taker /\ qty'[m] # qty[m] =>
        /\ order[m].side = Opposite(TakerSide)
        /\ qty[m] - qty'[m] = qty[taker] - qty'[taker]
        /\ qty'[m] < qty[m]
        /\ \E p \in Price : parent[m] = <<order[m].side, p>>
                            /\ Accepts(TakerSide, order[taker].price, p)]_vars

(* check_date_orders cancels nothing but orders that are good for the day   *)
(* or whose date falls within the hour, although it cancels by id.          *)
ExpirySound ==
    [][pc = "expire" => \A r \in cancelled' \ cancelled : 
        HasParam(r, {"GFD"}) \/ (HasParam(r, {"GTD"}) /\ order[r].expire_time - OneHour < clock)]_vars

(* A pending stop order is really set aside: it has not traded, no level    *)
(* holds it and the index does not know it, although orders with the STOP   *)
(* bit also rest in the book and are cancelled through the stop trees.      *)
StopSetAside ==
    \A s \in Side : \A r \in stop[s] :
        /\ order[r].side = s
        /\ qty[r] = order[r].qty
        /\ r \notin cancelled
        /\ index[order[r].id] # r
        /\ \A l \in Limit : ~Linked(r, l)

(* An order that has been cancelled, replaced or killed rests nowhere in    *)
(* the book, with one exception: cancel_order and modify_order look for an  *)
(* order with the STOP bit among the stop orders only, and leave it in its  *)
(* level when it has been triggered.                                        *)
CancelledIsOut ==
    \A r \in cancelled : "STOP" \notin params[r] => \A l \in Limit : ~Linked(r, l)

(* Every request the worker takes is answered: the loops over levels,       *)
(* makers and dated orders come to an end.                                  *)
RequestCompletes == pc # "idle" ~> pc = "idle"

=============================================================================
