# A verification project for LimitOrderBook

LimitOrderBook is a small exchange in C++: an HTTP server takes orders, each
instrument has an order book that a worker thread of its own runs, and threads
talk to each other through lock-free ring buffers. This directory holds TLA+
models of its core, the TLC runs that check them on small instances and the
proofs, checked by TLAPS, of the results that hold for every instance.

Line numbers below are those of the files under `src/`.

## 1. The system

| Part | State | Operations | Talks to |
|---|---|---|---|
| `OrderBook` (`orderbook/orderbook.cpp`) | bid and ask trees of price levels, bid and ask stop trees, date tree, index `_orders` of the orders that can be cancelled, market price | `add_order`, `modify_order`, `cancel_order`, `check_date_orders`, getters, snapshot | `RBTree` for all trees; enqueues to both repositories |
| `Order`, `Limit` (`data_structures/`) | an order's quantity, parameters, flags, parent and neighbours; a level's list and volume | accessors, comparators, serialization | shared between the book and the repository thread |
| `RBTree` (`storage/rbtree.hpp`) | red-black tree with a sentinel, cached `_first`, `_last`, `_size` | `insert`, `remove`, `clear`, `find`, iterators, bounds | – |
| `RingBuffer` (`utils/ringbuffer.hpp`) | read and write position, a cached copy of each, the slots | `push`, `pop` | between callers and a worker, between workers and repositories |
| `FunctionTask`, `ThreadPool` | one ring and one thread per instrument | `enqueue`, polling loop | runs the tasks of `Exchange` |
| `Exchange` (`exchange/exchange.cpp`) | the books, the index of their workers, `_working` | requests that wait on a future; a thread for opening and closing; `add_instrument`, snapshot | handlers above, workers below |
| `OrderRepository` | a ring, a thread, a RocksDB column family | `enqueue`, `save`, `remove`, `get_all`, `get` | reads the worker's objects; read by the constructor of every `OrderBook` |
| `TradeRepository` | a ring, a thread, a ScyllaDB table | `enqueue`, `save`, two queries | – |
| Handlers, mapper, server, `main` | none of their own; one handler object serves all shards | parse, validate, call `Exchange`, format; start and shutdown | – |

A request is parsed by a handler, pushed as a task into the ring of the
instrument's worker, run there against the book, and answered through a future.
The worker pushes what it changed into the rings of the repositories.

What makes it hard:

* a match walks several levels and several orders of a level while it removes
  orders from the lists it walks;
* an order with the STOP bit may be pending in a stop tree or rest in a level,
  a modified order takes the place of the old one in the old one's level;
* clean-up is written with `Defer` temporaries that run at once instead of at
  the end of the function;
* trees are keyed by values that two orders can share;
* the positions of a ring are cached, and the code has more than one producer;
* the opening thread acts on a time it read before it slept;
* iterators are used after the entry they point at has been erased, and other
  threads (closing time, snapshot, repository) look at the worker's objects;
* after a restart the book is rebuilt from what the repository has kept.

What makes each part correct: the book is never crossed, trades by price and
time, neither creates nor loses quantity, tells the truth in its replies and
always answers; the tree is an ordered, balanced map that its iterators visit
completely; the ring is a FIFO channel; the market opens and shuts down; a task
runs once, while its caller waits, and every caller is answered; what the book
holds is in the database; a trade that was saved is found again; a snapshot is
what the book was; a shutdown loses nothing and ends.
`PROJECT.json` lists the hazards line by line, with the properties that watch them.

## 2. The modules

| Module | Models |
|---|---|
| `OrderBook` | one book and its worker |
| `OrderBookClaims` | statements of README, comments and tests about the book that the code does not keep |
| `MCOrderBook` | instances of both for TLC |
| `OrderBookProofs` | the proofs about `OrderBook` |
| `RBTree` | the red-black tree, pointer by pointer |
| `OrderedMap` | what a user of the tree may rely on; `RBTree` implements it |
| `RBTreeSurgery` | proofs about `RBTree`: search trees, rotations, colours, the two rebalancing loops |
| `RBTreeProofs` | on top of it: insert, remove and clear, the walks, the theorems |
| `RingBuffer` | push and pop, one step per access to shared memory |
| `Fifo` | what a user of the ring may rely on; `RingBuffer` implements it |
| `WorkingHours`, `MCWorkingHours` | the thread that opens and closes the market, and the calendar |
| `WorkingHoursProofs` | the proofs about `WorkingHours` |
| `Exchange`, `MCExchange` | handlers, workers, closing thread and shutdown around the books |
| `Calls` | what a handler may rely on when it calls the exchange; `Exchange` implements it |
| `ExchangeProofs` | the proofs about `Exchange` |
| `OrderRepository`, `MCOrderRepository` | a book, the repository that persists its orders, and restarts (extends `OrderBook`) |
| `OrderRepositoryProofs` | the proofs about `OrderRepository`, on top of `OrderBookProofs` |
| `TradeRepository` | the trade repository on top of its ring (extends `RingBuffer`) |
| `TradeRepositoryProofs` | the proofs about `RingBuffer` and about `TradeRepository` |
| `BookReader`, `MCBookReader` | a book and a server thread that takes a snapshot of it (extends `OrderBook`) |
| `BookReaderProofs` | the proofs about `BookReader`, on top of `OrderBookProofs` |

How they fit together: `Exchange` has what happens around a book and says of a
task only that it runs; `OrderBook` has what a task does; `OrderRepository` and
`BookReader` each add to the book one thread that looks at it from outside.
`RingBuffer` justifies the rings that other modules take as FIFO channels, and
shows where that ends (overlapping pushes, more under way than the capacity).

### OrderBook

Order objects are numbered as they are created; the number is the pointer. A
modification brings a new object with the id of the old one, which is why ids
and objects are different things here. `order` holds the fields that never
change, `qty`, `params`, `cancelled` and `parent` those that do. A `Limit` is
named by the side and price it was made for; `tree[s][p]` says which Limit the
tree of side `s` holds at price `p`, `queue` is the list from `_head` to
`_tail`, `volume` is `_active_volume`. `index` is `_orders`, `stop` and `date`
are the other trees with their replacement of equal keys. `outbox` and `trades`
are what the last request enqueued to the repositories.

| Code | Actions |
|---|---|
| `add_order`, lines 25-49 | `AddStopOrder` (kept aside), `AddOrder` (to be matched) |
| `match_order` | `MatchSkip`, `MatchEnter`, `LeaveLevel`: one step per level |
| `process_limit_order`, `resolve_orders`, `remove_limit_order` | `ResolveOrders`: one step per maker |
| `add_order`, lines 53-66 | `KillOrder`, `RestOrder` |
| `cancel_order` | `CancelOrder` |
| `modify_order` | `ModifyOrder`, `ModifyNotFound` |
| `check_date_orders` | `CheckDateOrders`, `ExpireOrder` per order, `ExpireDone` |
| `time(0)` | `Tick` |

Choices that matter:

* Both `Defer(...)` statements create temporaries. The one of `add_order`
  enqueues the order before it is processed, the one of `match_order` runs over
  empty vectors. So `AddOrder` sets `outbox` and `LeaveLevel` removes no level.
* `CancelEntry` enqueues through an erased iterator: `outbox` gets the order or
  `Dangling`. Line 104 reads a parent pointer the same way; the model takes the
  pointer that was there, because the Limit is kept alive by the tree. What
  would follow if the memory had been reused is a crash and has no step.
* A modification may bring any side: the update handler neither validates nor compares
  it (a side of `UNKOWN` is a sell order to the book). The old order's Limit is then
  hung into the other tree with the new order alone, and its other orders stay in the
  index and in no list (`AddLimitOrder` of a Limit that the tree does not hold).
* Prices and quantities are integers where the code has floats; it only compares, adds
  and subtracts them. Rounding is not modelled. Quantities may be negative: neither
  mapper nor handler refuses that.
* The properties that an update of the side or a negative quantity would break say so:
  `SidesKept` (every object has the side of the one that brought its id),
  `NoneNegative`, and `Regular` for both. They look at the objects created so far, so a
  property holds up to the first such request and promises nothing afterwards. What
  happens then is `MatchIsBidAndAsk` of `OrderBookClaims` and, with the properties that
  carry no condition, the runs `matching`, `priority` and `aside`.
* `check_date_orders` begins between requests in this module. In the code it runs
  on the closing thread; that the two can meet is `OneThreadPerBook` of `Exchange`.
* The book starts empty here; the reload in the constructor is in `OrderRepository`.

### RBTree and OrderedMap

A node is named by its key: `remove` relinks nodes and never copies keys, so a
node keeps its key for life. The two mirrored halves of every routine are one
definition with a direction. Links, colours and the sentinel's parent (which
`transplant` writes and `rebalance_delete` reads) are in the record `tree`.
`InsertNode`, `Remove` and `Clear` begin a call, `RebalanceInsert` and
`RebalanceDelete` are one iteration each, the `...Done` steps end it. Removing a
key that is absent changes nothing and has no step. The keys in `Rewritten` are
inserted with different values, so that the replacement of an equal key shows.

### RingBuffer and Fifo

`PushBegin` is a caller entering `push`; the loads, the full test, the write of
the slot and the store of the position are steps of their own, and likewise for
`pop`. `_read_pos_cache` belongs to all producers, as in the code. With one
producer and one consumer the release and acquire orderings make these
interleavings all there is; with several producers they are a subset of what
can happen, enough to show the loss (`ring_lost`).

Nothing in the ring keeps two pushes from overlapping, and its full test has no effect:
it compares the position before it is wrapped with a cached read position that stays 0.
The history variable `strained` is set when a push begins while another is under way, or
when all slots but one are taken; the model goes on from there with what the code does
(overwritten slots, positions that go back, empty values popped), and the abstract
channel `Fifo` has a step `Strain` after which it promises nothing. For the ring of a
worker the code bounds what is under way: each shard waits for its answer, and
`ExchangeTasks` proves that a ring holds a task of a shard at most once. For the rings
of the repositories nothing bounds it but the speed of the two threads, and as many
workers push as there are instruments.

### WorkingHours

A day is a handful of minutes. `ReadTime` reads the clock and computes the end
of the sleep, `WakeUp` compares the time read before with the opening and the
closing. `day_of_week` is called with `tm_mon` and `tm_year`; the read of
`t[-1]` in January is a choice over all weekdays. The calendar (`NextDate`) is
external. So is the change of the clocks: on the days `Forward` and `Back` they are put
forward or back by `Hour`, before the opening. The `tm` that `mktime` converts keeps the
`tm_isdst` of the time read, so a sleep over such a change ends an hour after the
opening or an hour before it (`WakeMinute`). `Tick` assumes that one turn of the loop takes less than a minute.

### Exchange and Calls

A shard handles one request at a time and blocks in `future.get`; a task is
named by the shard that waits for it. `Checks` lists what each handler tests and
in which order, `StatusOf` the reply when a test fails. `Refuse` is a request
turned down, `Accept` one that passes; then `EnqueueTask` (the task is made and
its push begins), `Pushed`, and `Answer` once the promise is set. `Read` is
`get_order` or a snapshot, on the shard's own thread. `RunTask` and `FinishTask`
are a turn of `process_messages` of a worker, `OpenMarket`, `CloseMarket` and one
`CheckBook` per instrument the closing thread, which may act at any time (when it
does is `WorkingHours`), also in the turn during which it is told to stop.
`StopServer`, `ServerStopped`, `JoinCloser` and `JoinWorkers` are the end of
`main`: the members of `Exchange` are destroyed in reverse order, so the pool goes
before the books.

* Two pushes into the same ring that overlap may lose one value (`ring_lost`).
  `clash` records that it has happened. From then on a push may have no effect, a
  worker may find any task that is still waited for (`RunOutOfTurn`: a producer that
  was overtaken publishes an older position), or a slot that was moved out of, whose
  call throws on the worker's thread (`RunEmptySlot`, `undefined`). The two liveness
  properties promise nothing then; the safety properties hold with these outcomes.
* `add_instrument` gives an index the pool does not have. The first task for it
  indexes past the end of a vector: `undefined`, where the behaviour ends.
* The map `_instruments` itself is changed by `add_instrument` while others read
  it; since nothing calls it, this race is not modelled.
* `MaxCloses` bounds how often the market closes.

### OrderRepository

`ring` receives what `OrderBook` enqueues. The thread pops a pointer and reads the
flags (`PopOrder`), serializes (`Serialize`) and writes (`SaveOrder`, `RemoveOrder`),
while the worker goes on with the same object. A write may fail; its status is
ignored, `failed` remembers the id. `Restart` ends the process anywhere, by a
crash or by the destructors, which drop the ring; `LoadOrder` is a turn of the
constructor's loop, in the order of the ids' bytes (`IdOrder`), `LoadDone` its end.

* A freed pointer in the ring leads to some key nobody knows, and has no effect.
* `ParamsRead`: `set_params` after the enqueue races with the serialization, for every
  set of parameters it replaces.
* `serialize` has no stop price; a reloaded order has 0 there.
* The clock stands still (`MaxClock` 0) and `MaxRing` bounds the ring: a request is
  taken only when there is room, as the real ring has 1024 slots.
* One instrument. With several, every book loads the orders of all of them.

### TradeRepository

The consumer of `RingBuffer` with `save` between two pops. Trades are all between
the same two users, so that the primary key is the time alone; `PerSecond` trades
share a second and `Day` seconds make a day: `cass_time_from_epoch` keeps only the
time of day. The destructor frees the session (`FreeSession`) before it stops the
thread (`RequestStop`, `Join`); a `save` in between is `SaveFreed`, after which the
thread is `undefined`. The repository is destroyed after the books, so nobody
pushes any more. A strained ring may deliver a trade that was moved out before: `saving`
is then `Null`, and its row, under two empty users, is none of those in `table`; `NoTrade`
says that the thread is not in `save`. As `handle_trade` is never reached (section 3) the ring is always
empty in the present code; the module says what holds once trades are made.

### BookReader

`GetSnapshot` begins the walk of the asks, `ReadLevel` copies price and volume,
`StepIterator` is `operator++`, `AsksDone` begins the bids, `ReadSpread` ends the
reading and `SnapshotSent` the reply. Between any two of them the worker takes
steps of `OrderBook`. Nodes never move in memory, so an iterator keeps its level;
an insertion into the tree while `operator++` follows its links (`raced`) may lead
it anywhere in that tree, and the snapshot is `torn`. Reads of single words
(price, volume, market price) are taken to be atomic. That the iterator never
stands on a freed level (`IteratorAlive`) rests on a defect: the clean-up of
`match_order` never removes an empty level. Its mutant removes them, and fails.

## 3. The runs

Passing runs (states are distinct states):

| Run | Instance | Shows |
|---|---|---|
| `matching` | 2 prices, 3 objects, GTC, AON, IOC of quantity 1 and 2, a GFD, GTC of quantity -1 (547 503) | nothing overdrawn, even exchange, conservation, all-or-nothing, volume bound, true replies, every request answered |
| `priority` | 2 prices, 4 objects, GTC (1 136 275) | uncrossed, sound index, price-time priority |
| `aside` | STOP, GFD, GTD, STOP_GFD with equal dates, 3 objects, 3 seconds (1 557 986) | pending stop orders are set aside; what is cancelled is out of the book, unless it is a triggered stop order; expiry cancels only what is due |
| `rbtree` | 8 keys, one of them with two values (126 660) | search order, balance, iteration, bounds, loops that climb, implements `OrderedMap` |
| `trades` | 3 slots, 2 producers, 4 trades: the ring wraps; 2 trades a second, days of 2 seconds (133 345) | until it is strained the ring is a FIFO channel that delivers in order; rows, every trade settled, safe shutdown when drained |
| `hours` | from Tuesday 30 January, 12 days, clocks forward on the fourth and back on the ninth (2 938) | the market opens; shutdown completes |
| `durable` | 2 prices, 3 objects, a ring of 2, one restart, ids in reverse order (1 499 261) | what the book holds is stored, with at least its quantity, removed only when finished, reloaded exactly |
| `exchange` | 2 shards, 2 listed instruments and one more, every kind of request (123 946) | tasks and callers, shutdown, implements `Calls`, every caller answered |
| `reader` | 3 prices, 3 objects (861 717) | live iterator, faithful snapshot, fitting best ask |

In all runs of the book a modification may change the side.

Why the bounds are enough to be interesting: three objects are a maker, a
second maker or a modified one, and a taker; four give removal from the middle
of a list before a match; two prices give a better and a worse level and a
modification that crosses its own limit. Eight keys reach every case of the
deletion loop, on both sides, up to the root. Two shards are two callers of one
worker or of two; two listed instruments give an index that a third one exceeds.
Three prices let a level appear in front of, between and behind those a reader has
passed. One restart suffices because `durable` reaches it from every state of a
first life and goes on after it. What is proved (section 4) has no such bound.

The type invariants (`TypeOK` of `OrderBook`, `RBTree`, `RingBuffer`, `WorkingHours` and
`Exchange`, `RepoTypeOK` of both repositories, `ReaderTypeOK`) hold on the same instances
when they are added to a configuration, and all of them are proved as a part of an
inductive invariant (section 4).

Runs that TLC refutes. Each states what a document or a test says, and the finding in
`PROJECT.json` quotes it:

| Run | Statement | What happens |
|---|---|---|
| `limit_price` | trades respect limits (`README.md:9`) | a modified order stays at its old level's price |
| `ring_lost` | values pushed by several threads all arrive (`test_ringbuffer.cpp:47`) | two producers take the same slot |
| `restart_rests` | an immediate order never rests (`README.md:14`) | it was saved before it was matched, and a restart puts it into its level |

More statements of documents, comments and tests that the code does not keep. They are
definitions without a run of their own; TLC refutes each one when it is put into a
configuration of its module (the third column names the set of requests in
`MCOrderBook` that shows it with at most three objects, or the module):

| Definition | Statement | With | What happens |
|---|---|---|---|
| `MatchIsBidAndAsk` | a match is between a bid and an ask (`README.md:48-49`) | `RestingRequest` | after an update of the side one Limit hangs in both trees |
| `RestingIsCancellable` | good till cancelled (`enums.hpp:10`) | `RestingRequest` | a modified order is no longer in the index |
| `NoPartialFill` | AON is never filled in part (`README.md:13`) | `FillRequest` | a modified AON order rests and is |
| `CancelRemoves` | a cancelled order is gone (`test_orderbook.cpp:127-128`) | `StopRequest` | a stop order that was triggered on arrival stays in its level |
| `StopsKept` | a stop order waits for its price (`README.md:12`) | `StopRequest` | an order of equal price and second replaces it |
| `StopsActivated` | stop bids are activated at or above the stop price (`README.md:44-45`) | `StopRequest` | exactly those are kept aside, and nothing activates them |
| `DayOrdersEnd` | day orders end with the day (`orderbook.cpp:422`, `enums.hpp:11`) | `DateRequest` | equal dates replace each other in the date tree |
| `BestBidReported` | the best bid is the first of a descending order (`README.md:34-35`) | `RestingRequest` | it is taken from the end of the tree: the lowest |
| `TradesRecorded` | trades are stored (`README.md:62`) | `RestingRequest` | `resolve_orders` compares two copies and never sees a trade |
| `MarketIsLastTrade` | the market price is the last trade price (`README.md:41`) | `FillRequest` | it is set for every crossed level, traded or not |
| `EmptyHasNoLast` | an empty tree has no last element (`test_rbtree.cpp:317`) | `RBTree` | `_last` points at the deleted node |
| `CheckedAtDayEnd` | dated orders are checked at the end of the day (`orderbook.cpp:422`) | `WorkingHours` | at the next opening |
| `FridayMovesThree` | Friday moves by three days (`exchange.cpp:138`) | `WorkingHours`, in February | other days do |
| `OneThreadPerBook` | objects communicate by ring buffers (`README.md:53`) | `Exchange` | snapshots and the closing thread enter a book beside its worker |
| `AcceptedIsStored` | an accepted order is found (`test_exchange.cpp:38`) | `OrderRepository` | the repository's thread may not have reached it (the test waits 10 ms) |
| `CancelledIsStored` | a cancelled order is found with its flag (`test_exchange.cpp:54-55`) | `OrderRepository` | it is removed |

`Uncrossed` and `TimePriority` hold in every run of the book but not after a restart
(`durable` refutes them when they are added): makers that were filled come back
with their old quantity, and orders come back in the order of their ids.

Every property of a passing run has a mutant in `PROJECT.json`: a plausible slip in
a mapped definition (they stand next to what they replace, marked "Mutant of") that
makes the property fail.

Fairness. `matching` assumes that the worker goes on with a request it has begun
(`WF` on its steps: it holds no lock and waits for nothing), `trades` that the thread
of the repository polls and saves (`process_messages` loops until it is stopped) and
that a destructor that has begun goes on, `hours` that the thread is scheduled and
that time passes, `exchange` that every thread goes on with what it has begun: a
handler with its request, a worker with its ring, the closing thread with the books
it has to check, `main` with the shutdown. Nobody has to send a request, push a
trade, open the market or stop the server. That the loops of `RBTree` end is stated
without fairness, as a measure that goes down, and so it can be proved.

`hours`, `trades` and `exchange` do not check for deadlock: there the days are bounded
and the threads and the process end. All other passing runs do.

## 4. The proofs

`OrderBookProofs`, for every set of prices and requests and any number of orders,
assuming only `BookAssumption`. No handler refuses an update of the side or a negative
quantity, so nothing is assumed about `Request`. Some theorems hold whatever is sent; the
others are under a condition on the state, `SidesKept`, `NoneNegative` or both (`Regular`),
and say what is true up to the first such request:

| Theorem | Statement |
|---|---|
| `BookShapes`, `BookTypes` | `[]ShapeInv`, `[]TypeOK` |
| `BookTimePriority`, `BookExpirySound`, `BookCancelledIsOut` | the property as the run checks it |
| `BookNeverOverdrawn` | the same; its condition is `NoneNegative`, inside the property |
| `BookUncrossed`, `BookFairExchange` | the same; their condition is `Regular`, inside the property |
| `BookInvariant`, `DetailInvariant` | `[](Regular => BookInv)`, `[](Regular => BookInv /\ DetailInv)` |
| `BookIndexSound`, `BookConservation` | `[](NoneNegative => P)`, with `SidesKept` inside `P` |
| `BookVolumeCovers` | `[](SidesKept => VolumeCovers)`, with `NoneNegative` inside |
| `BookStopSetAside`, `BookAllOrNothing`, `BookReplyTruthful` | `[](Regular => P)` |
| `BookPricePriority` | `Spec /\ []Regular => PricePriority` |

The weakest part, `ShapeInv`, is inductive by itself: whatever is sent, types are kept and
index, lists and the match in progress name objects that exist and have been put in a
Limit. Objects keep the side and the quantity they were created with, so that a state
which is `Regular` had a `Regular` predecessor (`RegularBefore`); the rest is then an
induction over `Regular => BookInv`, with `NaturalInv` (quantities and volumes are not
negative) for the arithmetic. `BookCancelledIsOut` needs no `Regular`: a list holds an
order once (`TimePriority`) and only where its parent says (`PlacedInv`), so that unlinking
it from its parent's list takes it out of the book, and the order being matched is in no
list (`TakerFree`) and not cancelled (`OutInv`).

Neither `Uncrossed` nor `IndexSound` is inductive. Resting the remainder of an
order keeps the book uncrossed only because the match before it has emptied
every level in reach; that is `SweepInv`: an order without AON has left no order
in the levels it reaches and has left behind, and in the level it is in, what it
has still to visit is the whole queue. (An order with AON never rests.) For that
the proof has to know which levels the iterator has still to visit (`TodoInv`),
that the makers it walks are of that level (`WalkInv`), that the order being
matched is in no list and no index (`TakerInv`), that a level links only its own
orders (`ParentInv`) and that a tree holds its own side's Limits (`TreeShape`).
Modification keeps the book uncrossed because the new order goes to a level that
held the old one; with a change of side this fails, and so does `TreeShape`.
`BookStep` has one lemma per action.

`TradeRepositoryProofs`, first sections, about the ring, for every capacity, any set of
producers and any number of pushes, assuming only `RingAssumption`:

* `RingInOrder`, `RingImplementsFifo`: until the ring is `strained`, it delivers in order
  and implements `Fifo`, which promises nothing afterwards.

The invariant `CalmInv` says that a ring which is not strained has at most one producer at
work (`Sole`), where each value under way is stored and that these slots are distinct
(`RingInv`). The test for a full ring takes no part in the argument: it never holds.

`ExchangeProofs`, for any number of shards, any finite set of instruments and any
set of requests, assuming only `ExchangeAssumption`:

* `ExchangeInvariant`: `Spec => []ExchangeInv`;
* `ExchangeTasks` (`TaskRefsLive`), `ExchangeShutdown` (`CleanShutdown`);
* `ExchangeCalls` (`ImplementsCalls`): each step is a call, an execution or a return
  of `Calls`, or leaves it unchanged.

`TaskRefsLive` is nearly inductive. It needs to know of a handler that waits that its
request was one for a worker and that it has no result before it waits
(`HandlerInv`), and the shutdown needs to know that nobody begins a request once the
server has stopped (`PhaseInv`). That no task is dropped then follows: a task in a
ring has a caller that waits, and after the server has stopped there is none. These
results hold in spite of `clash`: a lost push leaves its caller waiting for ever, a task
out of turn is still one whose caller waits, and an empty slot ends the behaviour.

`OrderBookProofs`, sections on matching: `DetailInvariant` and, from it, the theorems of the
table above about the queues, the stop orders, all-or-nothing, the replies, what is exchanged
and the volumes.

`DetailInv` adds to each of these what makes it inductive. A queue is in order of
arrival because whatever is appended is the newest object: the order being matched
is it (`TakerLatest`), and objects that do not exist yet have no quantity and no Limit
(`FreshInv`). Stop orders are set aside only if the match in progress has none of them
in its hands (`AsideInv`), an all-or-nothing order is whole only if it never becomes a
maker (`WholeInv`), the expiry check cancels what it meant to only because index and
date tree know no object with a foreign id (`OwnIdInv`), and a reply stays true while
dated orders are removed because there is none then (`ReplyInv`). The two exchange
properties need that the level being processed is in reach and better than all the
iterator has still to visit (`CrossInv`), and that an order is in a Limit of its own
side (`SideInv`). The `...Effect` lemmas say once, field by field, what an operation does.

`Conservation` and `VolumeCovers` are about sums over sets of orders (`SumOver`, a fold of
the community modules). What the steps need of a sum (it is 0 for the empty set, does not
depend on the order, changes by what one element changes, is monotone) is proved in
`OrderBookProofs`, section "Sums": the function that the fold computes exists and is the
only additive one. These are inductions over finite sets, which the provers cannot be
given; each is an argument about a smallest set that would be a counterexample
(`LeastSubset`). Conservation then needs only that a maker and its taker lose the same
quantity on different sides. `VolumeCovers` needs `TimePriority`: a level holds an order
once, so that removing it takes its quantity out of the sum once.

`BookReaderProofs`, assuming only `BookAssumption` and `ReaderAssumption`, whatever is sent:

* `ReaderInvariant`, with `SnapshotIteratorAlive`, `SnapshotIsFaithful` and
  `SnapshotBestAsk` as its consequences.

They rest on one lemma about the worker, `LevelsGrow`: a step of the book takes no level
out of a tree. So the level an iterator stands on stays (`AliveInv`), and so do the
levels that were there when the walk began and those that are listed (`ListedInv`).
Unless a walk met an insertion, the lists are sorted, the iterator is ahead of what
is listed, and what was there is listed or still to come (`FaithInv`); the sides are
walked one after the other (`TurnInv`), and the spread, read last, is about at least
the levels that are listed.

`TradeRepositoryProofs` goes on from the ring to the repository:

* `RepoImplementsRing`: the composition is a use of the ring;
* `RepoChannel` (the theorems of the ring, carried over), `RepoRowIsLatest`, and
  `RepoDrainedIsSafe`, the safety half of `DrainedShutdown`.

These too are for any capacity and any number of producers. What depends on the order of
delivery holds until the ring is strained; `RepoDrainedIsSafe` has no such condition, because
a ring whose positions are equal is empty whatever has been lost before.

`RowIsLatest` is inductive once it is known that the thread saves the last trade it has
popped, between two pops (`SavingInv`), that failed trades and the trades of rows are
settled (`SettledInv`), that a row is under the key of its trade (`KeyInv`) and that a
settled trade which did not fail is in the row of its key or a later one is (`RowInv`).
A drained repository is safe because nothing is pushed once the destructor has begun:
an empty ring stays empty and the thread has nothing to save (`DrainedInv`).

`WorkingHoursProofs`, for days of any length, any opening hours and any start:
`MarketReopens`. `Reopens` needs that the thread aims at an opening, that of the day it
has read or, after a closing, of a later day that has not passed (`SleepInv`), and that
between the wake-up that closes the market and the one that opens it time stands
still, but for one tick after the opening minute was read (`ClosedInv`). The clocks move the
wake-up by an hour (`WakeMinuteRange`); when they were put forward between the closing and
the wake-up the opening minute may be missed, and `Reopens` excepts that.

`OrderRepositoryProofs`, for any number of restarts, any order of ids and whatever is sent:

* `RepoInvariant`, with `RepoTypes`, `RepoStoredCovers` (as long as no order is for a negative
  quantity, inside the property) and `RepoDeletesFinished`;
* `RepoNothingForgotten`, about the orders with a quantity left: the thread takes an order of
  quantity 0 for a filled one and removes it from the database, and neither mapper nor
  handler refuses such an order;
* `RepoReloadExact`: the constructor rebuilds every level from the database exactly.

`BookInv` is not available here: after a restart the index is empty, the book may be
crossed and objects of the earlier run have lost their fields. `StepInv` is what
survives: types, only known objects in the book, each in one list once and where its
parent says, an id in the index for the first and only object of it, and of two objects
with the same id the earlier is cancelled (`ModifiedInv`). The ring holds objects in order of creation, and everything later than
what the thread has in its hands is behind it (`PipeInv`, `ItemInv`); so the last write
of an id is that of its latest object, and a removal by id hits a later object only
when that object is still in the ring (`DbInv`). What the book holds and was not
cancelled is stored, pending or failed (`HeldInv`). Quantities only go down, hence `StoredCovers`. `Effect` is the
one abstraction of a worker step that these proofs look at; each action is shown to
be one. `ReloadExact` is inductive (`ReloadInv`) once it is known that a level which is
not in the tree has no orders and that the keys still to come rank behind those added;
that a key has one rank follows by counting, because `IdOrder` is onto a finite set.

`RBTreeSurgery` and `RBTreeProofs`, for every finite set of keys and every set of
values, assuming only `TreeAssumption`:

* `TreeInvariant`: `Spec => []Inv`, and `TreeTypeOK`;
* `TreeSearchOrder`, `TreeBalanced`, `TreeIterationOrder`, `TreeBoundsRight`: the
  invariants of the run;
* `TreeLoopsClimb`: the action property that bounds the two loops;
* `TreeImplementsMap`: the refinement of `OrderedMap`.

The provers cannot be given an induction over trees. The argument does without: `Inv`
says that there is a function `D` from nodes to sets of nodes which obeys the
equation of "below" and is ordered (`Shape`), and a function `H` which obeys that of
the black height (`Heights`). What would be an induction is an argument about a node
lowest or highest in a set of counterexamples (`Lowest`, `Highest`): two nodes above a
third are above one another (`Comparable`), a subtree is an interval of the keys
(`Convex`).

* Surgery. Each primitive says which links it writes, and then how `D`, `H` and the
  colours change: a rotation at two nodes (`RotateShape`, `RotateHeights`,
  `RotateReds`), a splice by renaming the node that takes the place of the removed one
  (`ReplaceShape`, `Swapped`). The steps in the middle of a splice are no trees, so their
  links are followed one by one (`TransplantLinks`, `LiftLinks`, `SpliceMoves`).
* The loops. Inside `rebalance_insert` the only red node with a red parent is `cur`
  (`Inserting`); inside `rebalance_delete` exactly one link, the one to `cur`, misses a
  black node (`Heights` with a place, `Deleting`). The second is why the sibling exists,
  which the code dereferences without a test (`DeleteAround`).
* The ends. `insert` and `remove` patch `_first` and `_last` from the links of one node.
  For `remove` that is right only in a balanced tree: `_first` has no left child, so its
  right child is a red leaf, or the heights would differ (`RemoveEnd`). Iteration
  therefore depends on the colours. After `clear` the ends are stale, but there are no nodes
  then, and the next insertion sets both (`EndsRight`).
* The walks. `SearchTree`, `LastOnPath` and `Most` go down along `D` (`WalkEnds`). The others
  are iterations of bounded length: they have an invariant and a rank that goes down,
  and `IterateEnds` says that the rank is 0 at the end. The ranks are numbers of nodes
  above or below (`Above`), so that `Cardinality(Key)` steps are enough; in this way `Below` is `D`,
  `BlackDepth` is `H` of the root, `Depth` the number of nodes above, `Bound` the least
  node it looks for and `Neighbour` the next one.
* The loops climb because an iteration without rotation moves `cur` up two nodes or one in an
  unchanged tree, because the last rotation of `rebalance_insert` leaves a black parent,
  and because a red sibling that is rotated away leaves a red parent, at which
  `rebalance_delete` ends.

Only model-checked: liveness, which is out of the prover's reach: `RequestCompletes`,
`SettledInTheEnd`, the second half of `DrainedShutdown`, `OpensInTheEnd`,
`ShutdownCompletes`, `AnsweredInTheEnd` and `ShutdownEnds`. Every other property of a passing
run is a theorem. Of these, `StopSetAside`, `AllOrNothing`, `ReplyTruthful` and
`PricePriority` are proved for `Regular` requests and `IndexSound`, `Conservation` and
`VolumeCovers` with one condition more than the property has; beyond that they rest on
the runs, which include changes of side (all of them) and negative quantities (`matching`).
The theorems of `OrderBookProofs` are not about the book after a restart.

## 5. Not modelled

* What two threads that change the same list or tree at once make of it: undefined
  behaviour with no useful set of outcomes. `OneThreadPerBook` shows that they meet.
* Several instruments in one database (every book loads all orders).
* The ring of `OrderRepository` as a ring: it is a FIFO channel there, of which `RingBuffer`
  and `TradeRepository` show how far it is one.
* Parsing, the parser and the UUID generator that all shards share, and the layout
  of replies.
* `run_query` (tests only), `add_bid_stop_orders_below` and `add_ask_stop_orders_above`
  (never called), the counters of `Limit` (never read), the printing of trees.
* The websocket code (not built), configuration and signals of `main`.
* Float rounding.

## 6. Plan

1. Done: `OrderBook` with its claims, `RBTree`, `RingBuffer`, `WorkingHours`, `Exchange`,
   both repositories, `BookReader`; proofs of the safety properties of all of them.
2. Proofs next: `StopSetAside`, `AllOrNothing`, `ReplyTruthful` and `PricePriority` without
   the condition `Regular`.
3. An abstract specification of a price-time matching book that `OrderBook`
   implements on the orders for which it does.
4. Several instruments in one database.
