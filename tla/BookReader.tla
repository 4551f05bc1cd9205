----------------------------- MODULE BookReader -----------------------------
(***************************************************************************)
(* get_snapshot (orderbook.cpp): a server thread walks the ask tree, then  *)
(* the bid tree of a book and reads the spread, while the worker of the    *)
(* instrument goes on changing the book.  There is no lock between them.   *)
(*                                                                         *)
(* The nodes of a tree never move, so an iterator stands on its level      *)
(* whatever is inserted elsewhere.  But an insertion that turns the links  *)
(* of the tree while the iterator follows them (raced) may lead it to any  *)
(* level, or to the end.                                                   *)
(***************************************************************************)
EXTENDS OrderBook

ASSUME ReaderAssumption == NoLimit \notin Price

VARIABLES
    rpc,        \* where the server thread is
    side,       \* whose tree it walks
    at,         \* the level its iterator stands on, NoLimit when it is not valid
    raced,      \* has the tree changed since operator++ began?
    torn,       \* has operator++ raced with an insertion in this snapshot?
    limits,     \* the SnapshotLimits read so far, of each side
    start,      \* history: the levels of each side when its walk began
    spread      \* the Spread, once it has been read

readerVars == <<rpc, side, at, raced, torn, limits, start, spread>>
allVars    == <<vars, readerVars>>

Nothing   == [s \in Side |-> {}]
NoSpread  == [best_bid |-> -1, best_ask |-> -1, market_price |-> 0]

Resets ==
    /\ rpc' = "idle" /\ side' = "SELL" /\ at' = NoLimit /\ raced' = FALSE /\ torn' = FALSE
    /\ limits' = [s \in Side |-> << >>] /\ start' = Nothing /\ spread' = NoSpread

ReaderInit ==
    /\ Init
    /\ rpc = "idle" /\ side = "SELL" /\ at = NoLimit /\ raced = FALSE /\ torn = FALSE
    /\ limits = [s \in Side |-> << >>] /\ start = Nothing /\ spread = NoSpread

-----------------------------------------------------------------------------
(* The worker takes its steps; an insertion into the tree the iterator is   *)
(* just stepping through races with it.                                     *)
WorkerStep ==
    /\ Next
    /\ raced' = (raced \/ (rpc = "step" /\ tree'[side] # tree[side]))
    /\ UNCHANGED <<rpc, side, at, torn, limits, start, spread>>

-----------------------------------------------------------------------------
(* The iterators *)

(* The first of the levels S of side s, NoLimit when there is none. *)
Leading(s, S) == IF S = {} THEN NoLimit ELSE CHOOSE p \in S : First(s, S, p)

(* Mutant of Successor: the nearest level is passed over. *)
SuccessorPasses(s, p) ==
    LET After == {q \in Levels(s) : Before(s, p, q)} IN Leading(s, After \ {Leading(s, After)})

(* The level behind p. *)
Successor(s, p) == Leading(s, {q \in Levels(s) : Before(s, p, q)})

(* get_snapshot_asks, get_snapshot_bids: begin(). *)
Begin(s) ==
    /\ rpc' = "read"
    /\ side' = s
    /\ at' = Leading(s, Levels(s))
    /\ start' = [start EXCEPT ![s] = Levels(s)]

(* get_snapshot: a brace-initialized Snapshot is filled from left to right, *)
(* the asks first.                                                          *)
GetSnapshot ==
    /\ rpc = "idle"
    /\ Begin("SELL")
    /\ UNCHANGED <<vars, raced, torn, limits, spread>>

(* push_back of price and active volume of the level. *)
ReadLevel ==
    /\ rpc = "read"
    /\ at # NoLimit
    /\ limits' = [limits EXCEPT ![side] =
                    Append(@, [price |-> at, qty |-> volume[tree[side][at]]])]
    /\ rpc' = "step"
    /\ UNCHANGED <<vars, side, at, raced, torn, start, spread>>

(* operator++ of the iterator. *)
StepIterator ==
    /\ rpc = "step"
    /\ at' \in IF raced THEN Levels(side) \cup {NoLimit} ELSE {Successor(side, at)}
    /\ torn' = (torn \/ raced)
    /\ raced' = FALSE
    /\ rpc' = "read"
    /\ UNCHANGED <<vars, side, limits, start, spread>>

AsksDone ==
    /\ rpc = "read" /\ at = NoLimit /\ side = "SELL"
    /\ Begin("BUY")
    /\ UNCHANGED <<vars, raced, torn, limits, spread>>

(* The bids are done too: get_spread reads the ends of the trees and the    *)
(* market price.                                                            *)
ReadSpread ==
    /\ rpc = "read" /\ at = NoLimit /\ side = "BUY"
    /\ spread' = GetSpread
    /\ rpc' = "done"
    /\ UNCHANGED <<vars, side, at, raced, torn, limits, start>>

(* The handler has written the reply. *)
SnapshotSent ==
    /\ rpc = "done"
    /\ Resets
    /\ UNCHANGED vars

(* Mutant of SnapshotJson: ask and bid of the spread are swapped. *)
SnapshotJsonSwapped ==
    [asks |-> limits["SELL"], bids |-> limits["BUY"],
     best_ask_price |-> spread.best_bid, market_price |-> spread.market_price,
     best_bid_price |-> spread.best_ask]

(* SeastarSnapshotJson: what the reply says. *)
SnapshotJson ==
    [asks |-> limits["SELL"], bids |-> limits["BUY"],
     best_ask_price |-> spread.best_ask, market_price |-> spread.market_price,
     best_bid_price |-> spread.best_bid]

-----------------------------------------------------------------------------
Reader == GetSnapshot \/ ReadLevel \/ StepIterator \/ AsksDone \/ ReadSpread \/ SnapshotSent

ReaderNext == WorkerStep \/ Reader

ReaderSpec == ReaderInit /\ [][ReaderNext]_allVars

-----------------------------------------------------------------------------
(* Correctness *)

(* The reader's variables and the book's keep their types. *)
ReaderTypeOK ==
    /\ TypeOK
    /\ rpc \in {"idle", "read", "step", "done"}
    /\ side \in Side
    /\ at \in Price \cup {NoLimit}
    /\ raced \in BOOLEAN /\ torn \in BOOLEAN
    /\ limits \in [Side -> Seq([price: Price, qty: Int])]
    /\ start \in [Side -> SUBSET Price]
    /\ spread \in [best_bid: Price \cup {-1}, best_ask: Price \cup {-1}, market_price: Int]

(* The iterator of a server thread never stands on a level that the worker  *)
(* has taken out of the tree and freed.                                     *)
IteratorAlive == rpc \in {"read", "step"} /\ at # NoLimit => at \in Levels(side)

Prices(s) == {limits[s][i].price : i \in DOMAIN limits[s]}

(* A snapshot lists each side once, best price first, with every level that *)
(* was there when the walk of its side began, although levels are added and *)
(* traded away while it walks, unless an insertion met operator++ halfway.  *)
SnapshotFaithful ==
    rpc = "done" /\ ~torn =>
        \A s \in Side :
            /\ \A i, j \in DOMAIN limits[s] :
                i < j => Before(s, limits[s][i].price, limits[s][j].price)
            /\ start[s] \subseteq Prices(s)

(* The spread is read last, when the asks listed may have traded away and   *)
(* better ones have come: a reply that lists asks names a level of the ask  *)
(* tree as its best ask, and none of those it lists is better.  (Of the bid *)
(* side this is false: the last of the bid tree is the worst bid.)          *)
BestAskAgrees ==
    rpc = "done" =>
        \A i \in DOMAIN SnapshotJson.asks :
            /\ SnapshotJson.best_ask_price \in Levels("SELL")
            /\ SnapshotJson.best_ask_price <= SnapshotJson.asks[i].price
=============================================================================
