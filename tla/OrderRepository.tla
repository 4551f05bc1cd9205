--------------------------- MODULE OrderRepository ---------------------------
(***************************************************************************)
(* An order book together with the order repository (order_repository.cpp) *)
(* that persists its orders, and the restart of the process.  The worker   *)
(* pushes shared pointers into the ring; the repository's thread pops them *)
(* and reads the very objects the worker is still changing.  What RocksDB  *)
(* holds when the process ends is all the constructor of the next book     *)
(* (orderbook.cpp:9-17) has to build itself from.                          *)
(*                                                                         *)
(* The ring is a FIFO channel, which RingBuffer is as long as it is not    *)
(* strained.  A reloaded order keeps the number of the object that was     *)
(* serialized.                                                             *)
(***************************************************************************)
EXTENDS OrderBook

CONSTANTS
    IdOrder,    \* the ids in the order of their bytes: how RocksDB iterates
    NoEntry,    \* no value is stored under a key
    MaxRing,    \* bound on what the ring holds
    MaxRestarts \* bound on restarts

(* A value of the database: an order as it was serialized. *)
Entry ==
    [object: Ref, fields: OrderRecord, qty: Int, params: SUBSET Param, cancelled: BOOLEAN]

ASSUME RepositoryAssumption ==
    /\ NoEntry \notin Entry
    /\ IdOrder \in [Ref -> Ref]
    /\ \A id \in Ref : \E i \in Ref : IdOrder[i] = id
    /\ MaxRing \in Nat
    /\ MaxRestarts \in Nat

VARIABLES
    ring,       \* _ring_buffer
    rpc,        \* where process_messages is
    item,       \* its variable order
    text,       \* save: the serialized order
    db,         \* the column family "order": id -> serialized order
    failed,     \* the ids whose last Put or Delete was not applied
    phase,      \* "up", or "load" while the constructor adds the stored orders
    loading,    \* the ids it has still to add
    restarts

threadVars == <<rpc, item, text>>
repoVars   == <<ring, threadVars, db, failed, phase, loading, restarts>>
allVars    == <<vars, repoVars>>

RepoInit ==
    /\ Init
    /\ ring = << >>
    /\ rpc = "poll"
    /\ item = 0
    /\ text = NoEntry
    /\ db = [id \in Ref |-> NoEntry]
    /\ failed = {}
    /\ phase = "up"
    /\ loading = {}
    /\ restarts = 0

-----------------------------------------------------------------------------
(* The worker: every enqueue of the book pushes into the ring.  The clock   *)
(* stands still: nothing the repository does depends on it.                 *)

Serve ==
    /\ phase = "up"
    /\ Len(ring) < MaxRing
    /\ Submit
    /\ ring' = ring \o outbox'
    /\ UNCHANGED <<threadVars, db, failed, phase, loading, restarts>>

Work ==
    /\ phase = "up"
    /\ \/ Match /\ UNCHANGED ring
       \/ Expire /\ ring' = ring \o SubSeq(outbox', Len(outbox) + 1, Len(outbox'))
    /\ UNCHANGED <<threadVars, db, failed, phase, loading, restarts>>

-----------------------------------------------------------------------------
(* process_messages *)

Finished(r) == r \in cancelled \/ qty[r] = 0

(* Mutant of PopOrder: the latest order is taken first. *)
PopLatest ==
    LET r == ring[Len(ring)] IN
    /\ rpc = "poll"
    /\ ring # << >>
    /\ ring' = SubSeq(ring, 1, Len(ring) - 1)
    /\ \/ r = Dangling /\ UNCHANGED threadVars
       \/ /\ r # Dangling
          /\ item' = r
          /\ rpc' = IF Finished(r) THEN "remove" ELSE "save"
          /\ UNCHANGED text
    /\ UNCHANGED <<vars, db, failed, phase, loading, restarts>>

(* pop, and the flags that decide between remove and save.  A pointer that  *)
(* was freed memory when it was enqueued leads to garbage: the Delete or    *)
(* Put of a key nobody knows (or the end of the process, see Restart).      *)
PopOrder ==
    LET r == Head(ring) IN
    /\ rpc = "poll"
    /\ ring # << >>
    /\ ring' = Tail(ring)
    /\ \/ r = Dangling /\ UNCHANGED threadVars
       \/ /\ r # Dangling
          /\ item' = r
          /\ rpc' = IF Finished(r) THEN "remove" ELSE "save"
          /\ UNCHANGED text
    /\ UNCHANGED <<vars, db, failed, phase, loading, restarts>>

(* The parameters the thread may find in r: set_params turns those of a     *)
(* triggered stop market order, whatever they are, into IOC after it has    *)
(* been enqueued.  While r is being matched the thread may still read those *)
(* of a request that r can have been made from.                             *)
ParamsRead(r) ==
    {params[r]} \cup
    {req.params : req \in {q \in Request : /\ r = taker /\ NewOrder(q, r) = order[r]
                                           /\ "STOP" \in q.params /\ q.type = "MARKET"
                                           /\ params[r] = {"IOC"}}}

(* Order::serialize: the stop price is not among the fields. *)
Serialized(r, ps) ==
    [object |-> r, fields |-> [order[r] EXCEPT !.stop_price = 0],
     qty |-> qty[r], params |-> ps, cancelled |-> r \in cancelled]

(* save: the archive is written while the worker goes on. *)
Serialize ==
    /\ rpc = "save"
    /\ \E ps \in ParamsRead(item) : text' = Serialized(item, ps)
    /\ rpc' = "put"
    /\ UNCHANGED <<vars, ring, item, db, failed, phase, loading, restarts>>

(* Put or Delete under the key id; the status it returns is ignored. *)
Write(id, entry) ==
    \/ db' = [db EXCEPT ![id] = entry] /\ failed' = failed \ {id}
    \/ UNCHANGED db /\ failed' = failed \cup {id}

(* The thread goes back to pop. *)
Poll == rpc' = "poll" /\ item' = 0 /\ text' = NoEntry

SaveOrder ==
    /\ rpc = "put"
    /\ Write(order[item].id, text)
    /\ Poll
    /\ UNCHANGED <<vars, ring, phase, loading, restarts>>

RemoveOrder ==
    /\ rpc = "remove"
    /\ Write(order[item].id, NoEntry)
    /\ Poll
    /\ UNCHANGED <<vars, ring, phase, loading, restarts>>

ProcessMessages == PopOrder \/ Serialize \/ SaveOrder \/ RemoveOrder

-----------------------------------------------------------------------------
(* The process ends, by a crash or by the destructors, which drop what is   *)
(* in the ring, and is started again: main opens the database and the       *)
(* constructor of the book asks for all orders.                             *)
Restart ==
    /\ restarts < MaxRestarts
    /\ restarts' = restarts + 1
    /\ order' = [r \in Ref |-> BlankOrder]
    /\ qty' = [r \in Ref |-> 0]
    /\ params' = [r \in Ref |-> {}]
    /\ cancelled' = {}
    /\ parent' = [r \in Ref |-> NoLimit]
    /\ tree' = [s \in Side |-> [p \in Price |-> NoLimit]]
    /\ queue' = [l \in Limit |-> << >>]
    /\ volume' = [l \in Limit |-> 0]
    /\ index' = [r \in Ref |-> 0]
    /\ stop' = [s \in Side |-> {}]
    /\ date' = {}
    /\ market' = InitialPrice
    /\ pc' = "idle" /\ taker' = 0 /\ todo' = {} /\ level' = 0 /\ walk' = << >>
    /\ removed' = {}
    /\ outbox' = << >>
    /\ trades' = << >>
    /\ reply' = [status |-> "NONE", order |-> 0]
    /\ ring' = << >>
    /\ Poll
    /\ failed' = {}
    /\ phase' = "load"
    /\ loading' = {id \in Ref : db[id] # NoEntry}
    /\ UNCHANGED <<objects, clock, db>>

(* get_all iterates in the order of the keys. *)
NextToLoad(id) ==
    \E i \in Ref : IdOrder[i] = id /\ id \in loading /\ \A j \in 1 .. i - 1 : IdOrder[j] \notin loading

(* Mutant of LoadedQty: _qty in place of _current_qty. *)
LoadedInitialQty(e) == e.fields.qty

LoadedQty(e) == e.qty

(* One turn of the constructor's loop: a stop order goes to the stop tree   *)
(* of its side, any other to its level, without a match; neither index nor  *)
(* date tree learns of it.                                                  *)
LoadOrder(id) ==
    LET e == db[id]
        r == e.object
        s == e.fields.side
    IN
    /\ phase = "load"
    /\ NextToLoad(id)
    /\ order' = [order EXCEPT ![r] = e.fields]
    /\ qty' = [qty EXCEPT ![r] = LoadedQty(e)]
    /\ params' = [params EXCEPT ![r] = e.params]
    /\ cancelled' = IF e.cancelled THEN cancelled \cup {r} ELSE cancelled
    /\ IF "STOP" \in e.params
       THEN stop' = [stop EXCEPT ![s] = StopInsert(order', @, r)] /\ UNCHANGED bookVars
       ELSE AddLimitOrder(r, s, LoadedQty(e), <<s, e.fields.price>>, queue, volume) /\ UNCHANGED stop
    /\ loading' = loading \ {id}
    /\ UNCHANGED <<objects, index, date, market, clock, pc, matchVars, removed, outbox, trades,
                   reply, ring, threadVars, db, failed, phase, restarts>>

LoadDone ==
    /\ phase = "load"
    /\ loading = {}
    /\ phase' = "up"
    /\ UNCHANGED <<vars, ring, threadVars, db, failed, loading, restarts>>

Load == (\E id \in Ref : LoadOrder(id)) \/ LoadDone

-----------------------------------------------------------------------------
RepoNext == Serve \/ Work \/ ProcessMessages \/ Restart \/ Load

RepoSpec == RepoInit /\ [][RepoNext]_allVars

(* get: what Exchange::get_order answers. *)
GetOrder(id) == db[id]

-----------------------------------------------------------------------------
(* Correctness *)

(* The variables of the repository keep their types. *)
RepoTypeOK ==
    /\ ring \in Seq(Ref \cup {Dangling})
    /\ rpc \in {"poll", "remove", "save", "put"}
    /\ item \in Ref \cup {0}
    /\ text \in Entry \cup {NoEntry}
    /\ db \in [Ref -> Entry \cup {NoEntry}]
    /\ failed \subseteq Ref
    /\ phase \in {"up", "load"}
    /\ loading \subseteq Ref

(* The repository's thread has still to look at r. *)
Pending(r) == item = r \/ \E i \in DOMAIN ring : ring[i] = r

(* The book holds r: in a level or among the stop orders. *)
InBook(r) == r \in stop["BUY"] \cup stop["SELL"] \/ \E l \in Limit : Linked(r, l)

(* What the book holds will survive a restart: once the thread is through   *)
(* with it the database has the order, and of the objects that share an id  *)
(* the latest, whatever the thread has read while the worker modified,      *)
(* matched and cancelled.  Only a write that failed unnoticed is excepted,  *)
(* and an order for nothing, which the thread takes for filled.             *)
NothingForgotten ==
    \A r \in Created :
        /\ phase = "up"
        /\ InBook(r) /\ r \notin cancelled /\ qty[r] # 0
        /\ ~Pending(r) /\ order[r].id \notin failed
        => GetOrder(order[r].id) # NoEntry /\ GetOrder(order[r].id).object = r

(* A restart never loses quantity: what is stored of an order is no less    *)
(* than what is left of it, although the thread reads the quantity in the   *)
(* middle of a match.  A maker for a negative quantity, which no handler    *)
(* refuses, would add to what is left of its taker.                         *)
StoredCovers ==
    NoneNegative => \A id \in Ref :
        phase = "up" /\ GetOrder(id) # NoEntry => GetOrder(id).qty >= qty[GetOrder(id).object]

(* The place of the key id in the order in which RocksDB iterates. *)
Rank(id) == CHOOSE i \in Ref : IdOrder[i] = id

(* The stored orders that the constructor has added to the level l so far. *)
Reloaded(l) ==
    {id \in Ref \ loading : /\ db[id] # NoEntry
                            /\ "STOP" \notin db[id].params
                            /\ <<db[id].fields.side, db[id].fields.price>> = l}

(* The constructor rebuilds the levels exactly: every stored order that is  *)
(* not a stop order once, at its own price and side, in order of id, and    *)
(* the volume of a level is the sum of its orders.                          *)
RebuiltExactly(l) ==
    /\ Orders(l) = {db[id].object : id \in Reloaded(l)}
    /\ \A i, j \in DOMAIN queue[l] :
            i < j => Rank(order[queue[l][i]].id) < Rank(order[queue[l][j]].id)
    /\ volume[l] = SumOver([id \in Reloaded(l) |-> db[id].qty], Reloaded(l))

ReloadExact == phase = "load" => \A l \in Limit : RebuiltExactly(l)

(* The thread deletes an order only when it is cancelled or filled, although *)
(* it deletes by id and an id may have been given to a modified order since  *)
(* the flags were read.                                                      *)
DeletesFinished ==
    [][\A id \in Ref : db[id] # NoEntry /\ db'[id] = NoEntry =>
        db[id].object \in cancelled \/ qty[db[id].object] = 0]_allVars

(* README.md:14, IOC: "Immediately fill what's possible, cancel the rest."  *)
(* An order that add_order has matched against the book and not modified is *)
(* not found resting there, also not after a restart.                       *)
ImmediateNeverRests ==
    \A s \in Side : \A r \in Resting(s) : order[r].id = r => ~HasParam(r, FOK)

(* test_exchange.cpp:38, "ASSERT_TRUE(exchange->get_order("order_id")       *)
(* .has_value())", 10 ms after add_order has answered.                      *)
AcceptedIsStored ==
    pc = "idle" /\ reply.status = "ACCEPTED" => GetOrder(reply.order) # NoEntry

(* test_exchange.cpp:54-55: get_order finds a cancelled order, with its     *)
(* flag set, once the repository has caught up.                             *)
CancelledIsStored ==
    /\ reply.status = "CANCELLED" /\ ring = << >> /\ rpc = "poll" /\ phase = "up"
    => GetOrder(order[reply.order].id) # NoEntry
=============================================================================
