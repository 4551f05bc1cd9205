------------------------ MODULE OrderRepositoryProofs ------------------------
(***************************************************************************)
(* Proofs about OrderRepository for every set of prices and requests, any  *)
(* number of orders, any length of the ring and any number of restarts.    *)
(* What a restart leaves of the book does not satisfy the invariants of    *)
(* OrderBookProofs (a reloaded book may be crossed, objects of the earlier *)
(* run have lost their fields, the index is empty): the argument rests on  *)
(* a weaker invariant of the book, which holds in every run of the process *)
(* and also when modifications change the side or quantities are negative. *)
(***************************************************************************)
EXTENDS OrderRepository, OrderBookProofs, FunctionTheorems

-----------------------------------------------------------------------------
(* What the steps of the book keep, restart or not *)

(* The variables of the book that the steps below read keep their types,    *)
(* restart or not.                                                          *)
CoreInv ==
    /\ objects \in 0 .. MaxOrders /\ clock \in Nat
    /\ order \in [Ref -> OrderRecord]
    /\ qty \in [Ref -> Int]
    /\ parent \in [Ref -> Limit \cup {NoLimit}]
    /\ tree \in [Side -> [Price -> Limit \cup {NoLimit}]]
    /\ queue \in [Limit -> Seq(Ref)]
    /\ index \in [Ref -> Ref \cup {0}]
    /\ stop \in [Side -> SUBSET Ref]
    /\ date \subseteq Ref
    /\ walk \in Seq(Ref)
    /\ outbox \in Seq(Ref \cup {Dangling})

(* An object the process knows: not one of an earlier run of the process. *)
Known(r) == order[r].id # 0

(* Only known objects are in the book, they carry known ids and prices, and *)
(* no quantity becomes negative that was not so from the beginning.         *)
KnownInv ==
    /\ \A r \in Ref :
        /\ Known(r) =>
            /\ r <= objects /\ order[r].id <= objects /\ order[r].price \in Price
            /\ order[r].qty >= 0 => qty[r] >= 0
        /\ ~Known(r) => parent[r] = NoLimit
    /\ \A s \in Side : \A r \in stop[s] : Known(r) /\ parent[r] = NoLimit
    /\ \A r \in date : Known(r)

(* The queues hold no order twice, and each where its parent says. *)
QueueInv ==
    \A l \in Limit :
        /\ NoRepeat(queue[l])
        /\ \A i \in DOMAIN queue[l] : parent[queue[l][i]] = l

(* An order that can be cancelled or modified is the first and only one of  *)
(* its id, and has a place in the book.                                     *)
Original(r) == order[r].id = r /\ \A x \in Ref : order[x].id = r => x = r

OriginalInv ==
    \A id \in Ref : index[id] # 0 =>
        index[id] = id /\ Original(id) /\ parent[id] \in Limit

(* Of two objects with one id the earlier has been modified. *)
ModifiedInv ==
    \A x, y \in Ref : x < y /\ Known(x) /\ order[x].id = order[y].id => x \in cancelled

Busy == pc \in {"match", "fill"}

(* The order being matched has no place yet, and the makers have theirs. *)
TakenInv ==
    /\ Busy =>
        /\ taker \in Ref /\ Original(taker) /\ parent[taker] = NoLimit
        /\ \A s \in Side : taker \notin stop[s]
        /\ todo \subseteq Levels(Opposite(TakerSide))
    /\ pc = "fill" => \A i \in DOMAIN walk : parent[walk[i]] \in Limit

StepInv == CoreInv /\ KnownInv /\ QueueInv /\ OriginalInv /\ ModifiedInv /\ TakenInv

-----------------------------------------------------------------------------
(* What the repository and the database hold *)

SameId(x, y) == order[x].id = order[y].id

(* No order that the process knows is for a negative quantity. *)
Lawful == \A r \in Ref : Known(r) => order[r].qty >= 0

(* What the ring holds, in the order in which it was made. *)
PipeInv ==
    /\ ring \in Seq(Ref \cup {Dangling})
    /\ \A i \in DOMAIN ring : ring[i] # Dangling =>
        /\ Known(ring[i])
        /\ \A j \in DOMAIN ring :
            i < j /\ ring[j] # Dangling /\ SameId(ring[i], ring[j]) => ring[i] <= ring[j]
        /\ \A y \in Ref :
            SameId(ring[i], y) /\ ring[i] < y => \E j \in DOMAIN ring : i < j /\ ring[j] = y

(* What the thread is about to write. *)
ItemInv ==
    /\ rpc \in {"poll", "remove", "save", "put"}
    /\ rpc = "poll" => item = 0
    /\ rpc # "poll" =>
        /\ item \in Ref /\ Known(item)
        /\ \A j \in DOMAIN ring : ring[j] # Dangling /\ SameId(item, ring[j]) => item <= ring[j]
        /\ \A y \in Ref : SameId(item, y) /\ item < y => \E j \in DOMAIN ring : ring[j] = y
    /\ rpc = "remove" => Finished(item)
    /\ rpc = "put" =>
        /\ text.object = item /\ text.fields \in OrderRecord
        /\ text.fields.id = order[item].id /\ text.fields.price = order[item].price
        /\ text.fields.qty = order[item].qty
        /\ text.qty \in Int
        /\ text.fields.qty >= 0 => text.qty >= 0
        /\ Lawful => text.qty >= qty[item]

(* What has been written. *)
StoredWell(id) ==
    LET e == db[id] IN
    /\ id <= objects /\ e.object \in Ref /\ e.object <= objects
    /\ e.fields \in OrderRecord /\ e.fields.id = id /\ e.fields.price \in Price
    /\ e.qty \in Int
    /\ e.fields.qty >= 0 => e.qty >= 0
    /\ id \in loading => ~Known(e.object)
    /\ id \notin loading => order[e.object].id = id /\ (Lawful => e.qty >= qty[e.object])
    /\ \A k \in Ref : db[k] # NoEntry /\ db[k].object = e.object => k = id
    /\ \A j \in DOMAIN ring : ring[j] # Dangling /\ order[ring[j]].id = id => e.object <= ring[j]
    /\ rpc # "poll" /\ order[item].id = id => e.object <= item

DbInv == DOMAIN db = Ref /\ \A id \in Ref : db[id] # NoEntry => StoredWell(id)

(* The constructor loads the entries one by one while nothing else happens. *)
PhaseInv ==
    /\ phase \in {"up", "load"}
    /\ phase = "up" => loading = {}
    /\ phase = "load" => ring = << >> /\ rpc = "poll" /\ pc = "idle" /\ \A id \in Ref : index[id] = 0
    /\ \A id \in loading : id \in Ref /\ db[id] # NoEntry /\ \A r \in Ref : order[r].id # id

(* The book holds r, or will when its match has ended. *)
Keeps(r) == InBook(r) \/ (Busy /\ r = taker)

(* What it holds, unless cancelled or for nothing, is stored or on its way. *)
HeldInv ==
    \A r \in Ref : Known(r) /\ Keeps(r) /\ r \notin cancelled /\ qty[r] # 0 =>
        \/ Pending(r)
        \/ order[r].id \in failed
        \/ db[order[r].id] # NoEntry /\ db[order[r].id].object = r

DurableInv == StepInv /\ PipeInv /\ ItemInv /\ DbInv /\ PhaseInv /\ HeldInv

-----------------------------------------------------------------------------
(* Lists without repetition *)

(* A list with a new order at its end. *)
LEMMA AppendNoRepeat ==
    ASSUME NEW S, NEW s \in Seq(S), NEW e \in S, NoRepeat(s), \A i \in DOMAIN s : s[i] # e
    PROVE  /\ Append(s, e) \in Seq(S) /\ NoRepeat(Append(s, e))
           /\ \A j \in DOMAIN Append(s, e) :
                  Append(s, e)[j] = e \/ \E i \in DOMAIN s : Append(s, e)[j] = s[i]
<1> DEFINE t == Append(s, e)
<1>1. /\ Len(s) \in Nat /\ DOMAIN s = 1 .. Len(s) /\ DOMAIN t = 1 .. Len(s) + 1
      /\ t[Len(s) + 1] = e /\ \A i \in DOMAIN s : t[i] = s[i]
      /\ t \in Seq(S)
  OBVIOUS
<1> HIDE DEF t
<1>2. \A j \in DOMAIN t : j \in DOMAIN s \/ j = Len(s) + 1
  BY <1>1
<1>3. \A j \in DOMAIN t : t[j] = e \/ \E i \in DOMAIN s : t[j] = s[i]
  BY <1>1, <1>2
<1>4. ASSUME NEW i \in DOMAIN t, NEW j \in DOMAIN t, t[i] = t[j]
      PROVE  i = j
  BY <1>1, <1>2, <1>4 DEF NoRepeat
<1> QED
  BY <1>1, <1>3, <1>4 DEF NoRepeat, t

(* The lists of the book when r is taken out of the one of l. *)
Without(l, r) == [queue EXCEPT ![l] = Unlink(queue[l], r)]

(* They hold what they held before, but r. *)
LEMMA UnlinkQueue ==
    ASSUME CoreInv, QueueInv, NEW l \in Limit, NEW r
    PROVE  /\ Without(l, r) \in [Limit -> Seq(Ref)]
           /\ \A k \in Limit : NoRepeat(Without(l, r)[k]) /\ \A j \in DOMAIN Without(l, r)[k] :
                  \E i \in DOMAIN queue[k] : Without(l, r)[k][j] = queue[k][i]
           /\ \A j \in DOMAIN Without(l, r)[l] : Without(l, r)[l][j] # r
<1> DEFINE qu == Without(l, r)
<1> DEFINE u == Unlink(queue[l], r)
<1>1. queue \in [Limit -> Seq(Ref)] /\ queue[l] \in Seq(Ref) /\ NoRepeat(queue[l])
  BY DEF CoreInv, QueueInv
<1>2. /\ u \in Seq(Ref) /\ NoRepeat(u)
      /\ \A j \in DOMAIN u : u[j] # r /\ \E i \in DOMAIN queue[l] : u[j] = queue[l][i]
  BY <1>1, UnlinkFacts, UnlinkNoRepeat
<1> HIDE DEF u
<1>3. qu[l] = u /\ \A k \in Limit : k # l => qu[k] = queue[k]
  BY <1>1 DEF u, Without
<1>4. qu \in [Limit -> Seq(Ref)]
  BY <1>1, <1>2 DEF u, Without
<1> HIDE DEF qu
<1>5. ASSUME NEW k \in Limit
      PROVE  NoRepeat(qu[k]) /\ \A j \in DOMAIN qu[k] : \E i \in DOMAIN queue[k] : qu[k][j] = queue[k][i]
  <2>1. CASE k = l
    BY <1>2, <1>3, <2>1
  <2>2. CASE k # l
    BY <1>3, <2>2 DEF QueueInv
  <2> QED
    BY <2>1, <2>2
<1> QED
  BY <1>2, <1>3, <1>4, <1>5 DEF qu

(* Lists qu of the book that n is in none of. *)
Outside(n, qu) ==
    /\ qu \in [Limit -> Seq(Ref)]
    /\ \A k \in Limit : /\ NoRepeat(qu[k])
                        /\ \A i \in DOMAIN qu[k] : parent[qu[k][i]] = k /\ qu[k][i] # n

(* n gets a place in them. *)
Placed(n, qu) ==
    /\ \E h \in Limit : parent' = [parent EXCEPT ![n] = h]
    /\ tree' \in [Side -> [Price -> Limit \cup {NoLimit}]]
    /\ queue' \in [Limit -> Seq(Ref)]
    /\ QueueInv'
    /\ \A k \in Limit : \A i \in DOMAIN queue'[k] :
            queue'[k][i] = n \/ \E j \in DOMAIN qu[k] : qu[k][j] = queue'[k][i]

(* add_limit_order puts n, which is in no list, at the end of one list. *)
LEMMA AddQueue ==
    ASSUME CoreInv, NEW n \in Ref, NEW s \in Side, NEW q, NEW l \in Limit, NEW vo, NEW qu,
           Outside(n, qu), AddLimitOrder(n, s, q, l, qu, vo)
    PROVE  Placed(n, qu)
<1> USE DEF Outside
<1>1. PICK p \in Price : p = l[2]
  BY DEF Limit
<1>2. tree \in [Side -> [Price -> Limit \cup {NoLimit}]] /\ parent \in [Ref -> Limit \cup {NoLimit}]
  BY DEF CoreInv
<1>3. PICK h \in Limit : h = Home(s, l)
  BY <1>1, <1>2 DEF Home
<1>4. /\ parent' = [parent EXCEPT ![n] = h]
      /\ tree' = [tree EXCEPT ![s][p] = h]
      /\ \/ queue' = [qu EXCEPT ![h] = Append(qu[h], n)]
         \/ queue' = [qu EXCEPT ![h] = <<n>>]
  BY <1>1, <1>3 DEF AddLimitOrder
<1>5. tree' \in [Side -> [Price -> Limit \cup {NoLimit}]]
  BY <1>2, <1>4, BookAssumption
<1>6. PICK u \in Seq(Ref) :
          /\ queue' = [qu EXCEPT ![h] = u] /\ NoRepeat(u)
          /\ \A i \in DOMAIN u : u[i] = n \/ \E j \in DOMAIN qu[h] : qu[h][j] = u[i]
  <2>1. CASE queue' = [qu EXCEPT ![h] = Append(qu[h], n)]
    <3> DEFINE v == Append(qu[h], n)
    <3>1. qu[h] \in Seq(Ref) /\ NoRepeat(qu[h]) /\ \A i \in DOMAIN qu[h] : qu[h][i] # n
      OBVIOUS
    <3>2. /\ v \in Seq(Ref) /\ NoRepeat(v)
          /\ \A i \in DOMAIN v : v[i] = n \/ \E j \in DOMAIN qu[h] : qu[h][j] = v[i]
      BY <3>1, AppendNoRepeat
    <3> HIDE DEF v
    <3> QED
      BY <2>1, <3>2 DEF v
  <2>2. CASE queue' = [qu EXCEPT ![h] = <<n>>]
    <3> DEFINE v == <<n>>
    <3>1. <<n>> \in Seq(Ref) /\ DOMAIN <<n>> = 1 .. 1 /\ <<n>>[1] = n
      OBVIOUS
    <3>2. /\ v \in Seq(Ref) /\ NoRepeat(v) /\ \A i \in DOMAIN v : v[i] = n
      BY <3>1 DEF NoRepeat
    <3> HIDE DEF v
    <3> QED
      BY <2>2, <3>2 DEF v
  <2> QED
    BY <1>4, <2>1, <2>2
<1>7. queue' \in [Limit -> Seq(Ref)] /\ queue'[h] = u /\ \A k \in Limit : k # h => queue'[k] = qu[k]
  BY <1>6
<1>8. parent'[n] = h /\ \A x \in Ref : x # n => parent'[x] = parent[x]
  BY <1>2, <1>4
<1>9. \A k \in Limit : \A i \in DOMAIN queue'[k] :
        queue'[k][i] \in Ref /\ (queue'[k][i] = n \/ \E j \in DOMAIN qu[k] : qu[k][j] = queue'[k][i])
  BY <1>6, <1>7
<1>10. QueueInv'
  BY <1>6, <1>7, <1>8, <1>9 DEF QueueInv
<1> QED
  BY <1>4, <1>5, <1>7, <1>9, <1>10 DEF Placed

-----------------------------------------------------------------------------
(* The worker as the repository sees it *)

(* A step of the worker that enqueues app.  Known objects keep their fields *)
(* and, without negative orders, gain no quantity; a new object is enqueued; nothing but a new object *)
(* comes into the book; what is enqueued is the latest object of its id,    *)
(* and new or cancelled.                                                    *)
Effect(app) ==
    /\ objects <= objects'
    /\ cancelled \subseteq cancelled'
    /\ \A x \in Ref : Known(x) =>
        /\ order'[x] = order[x]
        /\ qty[x] = 0 => qty'[x] = 0
        /\ Lawful => qty'[x] <= qty[x]
    /\ \A x \in Ref : Known(x)' /\ ~Known(x) => app = <<x>>
    /\ \A x \in Ref : Known(x) /\ Keeps(x)' => Keeps(x)
    /\ \/ app = << >>
       \/ app = <<Dangling>>
       \/ \E x \in Ref : /\ app = <<x>> /\ Known(x)'
                         /\ \A y \in Ref : order'[y].id = order'[x].id => y <= x
                         /\ Known(x) => x \in cancelled'

(* The ring with what was pushed behind it. *)
LEMMA PushedBehind ==
    ASSUME NEW T, NEW s \in Seq(T), NEW e \in T
    PROVE  /\ s \o <<e>> \in Seq(T) /\ Len(s) \in Nat
           /\ DOMAIN s = 1 .. Len(s) /\ DOMAIN (s \o <<e>>) = 1 .. Len(s) + 1
           /\ (s \o <<e>>)[Len(s) + 1] = e
           /\ \A i \in 1 .. Len(s) : (s \o <<e>>)[i] = s[i]
OBVIOUS

(* The worker keeps the order of what is on its way to the database. *)
LEMMA WorkerKeepsPipe ==
    ASSUME DurableInv, StepInv', NEW app, Effect(app), phase = "up", ring' = ring \o app,
           UNCHANGED <<rpc, item, text, db, failed, phase, loading>>
    PROVE  DurableInv'
<1> USE DEF DurableInv
<1>1. /\ ring \in Seq(Ref \cup {Dangling}) /\ loading = {} /\ loading' = {}
      /\ Dangling \notin Ref
  BY BookAssumption DEF PipeInv, PhaseInv
<1>2. /\ \A x \in Ref : order[x].id \in Nat /\ order'[x].id \in Nat /\ qty[x] \in Int /\ qty'[x] \in Int
      /\ objects \in Nat /\ objects' \in Nat /\ objects <= objects'
      /\ Ref \subseteq Nat
  <2>1. /\ order \in [Ref -> OrderRecord] /\ order' \in [Ref -> OrderRecord]
        /\ qty \in [Ref -> Int] /\ qty' \in [Ref -> Int]
        /\ objects \in 0 .. MaxOrders /\ objects' \in 0 .. MaxOrders
    BY DEF StepInv, CoreInv
  <2> HIDE DEF DurableInv
  <2>2. \A o \in OrderRecord : o.id \in Nat
    BY DEF OrderRecord
  <2> QED
    BY <2>1, <2>2, BookAssumption DEF Effect, Ref
<1>3. \A x \in Ref : Known(x) =>
        order'[x] = order[x] /\ (qty[x] = 0 => qty'[x] = 0) /\ (Lawful => qty'[x] <= qty[x]) /\ Known(x)'
  BY DEF Effect, Known
<1>l. Lawful' => Lawful
  <2> HIDE DEF DurableInv
  <2> QED
    BY <1>3 DEF Lawful
<1>4. \A x \in Ref : Finished(x) /\ Known(x) => Finished(x)'
  BY <1>2, <1>3 DEF Effect, Finished
<1>5. /\ \A i \in DOMAIN ring : i \in DOMAIN ring' /\ ring'[i] = ring[i]
      /\ \A i \in DOMAIN ring' :
            i \in DOMAIN ring \/ (app = <<ring'[i]>> /\ \A j \in DOMAIN ring' : j <= i)
      /\ ring' \in Seq(Ref \cup {Dangling})
      /\ \A x : app = <<x>> => \E i \in DOMAIN ring' : ring'[i] = x /\ \A j \in DOMAIN ring : j < i
  <2>1. CASE app = << >>
    <3>1. ring' = ring
      BY <1>1, <2>1
    <3>2. \A x : app # <<x>>
      BY <2>1
    <3> QED
      BY <1>1, <3>1, <3>2
  <2>2. CASE app # << >>
    <3>1. PICK e \in Ref \cup {Dangling} : app = <<e>>
      BY <2>2 DEF Effect
    <3>2. /\ ring' \in Seq(Ref \cup {Dangling}) /\ Len(ring) \in Nat
          /\ DOMAIN ring = 1 .. Len(ring) /\ DOMAIN ring' = 1 .. Len(ring) + 1
          /\ ring'[Len(ring) + 1] = e
          /\ \A i \in 1 .. Len(ring) : ring'[i] = ring[i]
      BY <1>1, <3>1, PushedBehind
    <3>3. \A z : app = <<z>> => z = e
      BY <3>1
    <3>4. /\ Len(ring) + 1 \in DOMAIN ring' /\ \A j \in DOMAIN ring : j < Len(ring) + 1
          /\ \A i \in DOMAIN ring : i \in DOMAIN ring'
          /\ \A i \in DOMAIN ring' : i \in DOMAIN ring \/ i = Len(ring) + 1
          /\ \A j \in DOMAIN ring' : j <= Len(ring) + 1
      BY <3>2
    <3> HIDE DEF DurableInv
    <3> QED
      BY <3>1, <3>2, <3>3, <3>4
  <2> QED
    BY <2>1, <2>2
<1>6. ASSUME NEW x \in Ref, app = <<x>>
      PROVE  /\ order'[x].id # 0 /\ \A y \in Ref : order'[y].id = order'[x].id => y <= x
             /\ Known(x) => x \in cancelled'
  <2>1. \A z : app = <<z>> => z = x
    BY <1>6
  <2>2. app # << >> /\ app # <<Dangling>>
    BY <1>1, <1>6
  <2> QED
    BY <2>1, <2>2 DEF Effect, Known
<1>7. PipeInv'
  <2> SUFFICES ASSUME NEW i \in DOMAIN ring', ring'[i] # Dangling
               PROVE  /\ order'[ring'[i]].id # 0
                      /\ \A j \in DOMAIN ring' :
                            i < j /\ ring'[j] # Dangling /\ order'[ring'[i]].id = order'[ring'[j]].id
                                => ring'[i] <= ring'[j]
                      /\ \A y \in Ref : order'[ring'[i]].id = order'[y].id /\ ring'[i] < y
                            => \E j \in DOMAIN ring' : i < j /\ ring'[j] = y
    BY <1>5 DEF PipeInv, SameId, Known
  <2>1. PICK r \in Ref : r = ring'[i]
    BY <1>5
  <2>2. CASE i \notin DOMAIN ring
    <3>1. app = <<r>> /\ \A j \in DOMAIN ring' : j <= i
      BY <1>5, <2>1, <2>2
    <3>2. order'[r].id # 0 /\ \A y \in Ref : order'[y].id = order'[r].id => y <= r
      BY <1>6, <3>1
    <3>3. \A j \in DOMAIN ring' : ~(i < j)
      <4>1. \A j \in DOMAIN ring' : j \in Nat
        BY <1>5
      <4> QED
        BY <3>1, <4>1
    <3>4. \A y \in Ref : order'[r].id = order'[y].id => ~(r < y)
      <4> HIDE DEF DurableInv
      <4> QED
        BY <1>2, <3>2
    <3> QED
      BY <2>1, <3>2, <3>3, <3>4
  <2>3. CASE i \in DOMAIN ring
    <3>1. ring[i] = r /\ Known(r) /\ order'[r] = order[r] /\ order'[r].id # 0
      BY <1>3, <1>5, <2>1, <2>3 DEF PipeInv, Known
    <3>2. ASSUME NEW j \in DOMAIN ring', i < j, ring'[j] # Dangling, order'[r].id = order'[ring'[j]].id
          PROVE  r <= ring'[j]
      <4>1. CASE j \in DOMAIN ring
        <5>1. ring[j] = ring'[j] /\ ring[j] \in Ref /\ Known(ring[j])
          BY <1>1, <1>5, <3>2, <4>1 DEF PipeInv
        <5>2. order'[ring[j]] = order[ring[j]]
          BY <1>3, <5>1
        <5> QED
          BY <2>1, <2>3, <3>1, <3>2, <4>1, <5>1, <5>2 DEF PipeInv, SameId
      <4>2. CASE j \notin DOMAIN ring
        <5>1. app = <<ring'[j]>> /\ ring'[j] \in Ref
          BY <1>5, <3>2, <4>2
        <5> QED
          BY <1>6, <3>2, <5>1
      <4> QED
        BY <4>1, <4>2
    <3>3. ASSUME NEW y \in Ref, order'[r].id = order'[y].id, r < y
          PROVE  \E j \in DOMAIN ring' : i < j /\ ring'[j] = y
      <4>1. CASE Known(y)
        <5>1. SameId(r, y)
          BY <1>3, <3>1, <3>3, <4>1 DEF SameId
        <5>2. PICK j \in DOMAIN ring : i < j /\ ring[j] = y
          BY <2>1, <2>3, <3>1, <3>3, <5>1 DEF PipeInv
        <5> QED
          BY <1>5, <5>2
      <4>2. CASE ~Known(y)
        <5>1. Known(y)'
          BY <3>1, <3>3 DEF Known
        <5>2. app = <<y>>
          BY <4>2, <5>1 DEF Effect
        <5> QED
          BY <1>5, <2>3, <5>2
      <4> QED
        BY <4>1, <4>2
    <3> QED
      BY <2>1, <3>1, <3>2, <3>3
  <2> QED
    BY <2>2, <2>3
<1>8. ItemInv'
  <2> SUFFICES ASSUME rpc # "poll"
               PROVE  ItemInv'
    BY DEF ItemInv
  <2>1. /\ item \in Ref /\ Known(item) /\ order'[item] = order[item]
        /\ qty[item] = 0 => qty'[item] = 0
        /\ Lawful => qty'[item] <= qty[item]
    BY <1>3 DEF ItemInv
  <2>2. ASSUME NEW j \in DOMAIN ring', ring'[j] # Dangling, order'[item].id = order'[ring'[j]].id
        PROVE  item <= ring'[j]
    <3>0. ring'[j] \in Ref
      BY <1>5, <2>2
    <3>1. CASE j \in DOMAIN ring
      <4>1. ring[j] = ring'[j] /\ Known(ring[j])
        BY <1>1, <1>5, <2>2, <3>1 DEF PipeInv
      <4>2. order'[ring[j]] = order[ring[j]]
        BY <1>3, <3>0, <4>1
      <4> QED
        BY <2>1, <2>2, <3>1, <4>1, <4>2 DEF ItemInv, SameId
    <3>2. CASE j \notin DOMAIN ring
      <4>1. app = <<ring'[j]>>
        BY <1>5, <3>2
      <4> QED
        BY <1>6, <2>1, <2>2, <3>0, <4>1
    <3> QED
      BY <3>1, <3>2
  <2>3. ASSUME NEW y \in Ref, order'[item].id = order'[y].id, item < y
        PROVE  \E j \in DOMAIN ring' : ring'[j] = y
    <3>1. CASE Known(y)
      <4>1. SameId(item, y)
        BY <1>3, <2>1, <2>3, <3>1 DEF SameId
      <4>2. PICK j \in DOMAIN ring : ring[j] = y
        BY <2>3, <4>1 DEF ItemInv
      <4> QED
        BY <1>5, <4>2
    <3>2. CASE ~Known(y)
      <4>1. Known(y)'
        BY <2>1, <2>3 DEF Known
      <4>2. app = <<y>>
        BY <3>2, <4>1 DEF Effect
      <4> QED
        BY <1>5, <4>2
    <3> QED
      BY <3>1, <3>2
  <2>4. rpc = "remove" => Finished(item)'
    <3>1. rpc = "remove" => Finished(item)
      BY DEF ItemInv
    <3> QED
      BY <1>2, <2>1, <3>1 DEF Finished, Effect
  <2>5. rpc = "put" /\ Lawful' => text.qty >= qty'[item]
    <3>1. rpc = "put" /\ Lawful => text.qty \in Int /\ text.qty >= qty[item]
      BY DEF ItemInv
    <3>2. qty[item] \in Int /\ qty'[item] \in Int /\ (Lawful => qty'[item] <= qty[item])
      BY <1>2, <2>1
    <3> HIDE DEF DurableInv
    <3> QED
      BY <1>l, <3>1, <3>2
  <2>6. \A j \in DOMAIN ring' : ring'[j] # Dangling /\ SameId(item, ring[j])' => item <= ring'[j]
    BY <2>2 DEF SameId
  <2>7. \A y \in Ref : SameId(item, y)' /\ item < y => \E j \in DOMAIN ring' : ring'[j] = y
    BY <2>3 DEF SameId
  <2> QED
    BY <2>1, <2>4, <2>5, <2>6, <2>7 DEF ItemInv, Known
<1>9. DbInv'
  <2> SUFFICES ASSUME NEW id \in Ref, db[id] # NoEntry
               PROVE  StoredWell(id)'
    BY DEF DbInv
  <2>1. StoredWell(id)
    BY DEF DbInv
  <2>2. PICK o \in Ref : o = db[id].object
    BY <2>1 DEF StoredWell
  <2>3. /\ o <= objects /\ order[o].id = id /\ Known(o) /\ order'[o] = order[o]
        /\ db[id].qty \in Int /\ id # 0
        /\ Lawful => db[id].qty >= qty[o] /\ qty'[o] <= qty[o]
    <3>1. id # 0
      BY BookAssumption DEF Ref
    <3> QED
      BY <1>1, <1>3, <2>1, <2>2, <3>1 DEF StoredWell, Known
  <2>4. id <= objects' /\ o <= objects' /\ (Lawful' => db[id].qty >= qty'[o])
    <3>1. id <= objects
      BY <2>1 DEF StoredWell
    <3> HIDE DEF DurableInv
    <3> QED
      BY <1>2, <1>l, <2>3, <3>1
  <2>5. ASSUME NEW j \in DOMAIN ring', ring'[j] # Dangling, order'[ring'[j]].id = id
        PROVE  o <= ring'[j]
    <3>0. ring'[j] \in Ref
      BY <1>5, <2>5
    <3>1. CASE j \in DOMAIN ring
      <4>1. ring[j] = ring'[j] /\ Known(ring[j])
        BY <1>1, <1>5, <2>5, <3>1 DEF PipeInv
      <4>2. order'[ring[j]] = order[ring[j]]
        BY <1>3, <3>0, <4>1
      <4> QED
        BY <2>1, <2>2, <2>5, <3>1, <4>1, <4>2 DEF StoredWell
    <3>2. CASE j \notin DOMAIN ring
      <4>1. app = <<ring'[j]>>
        BY <1>5, <3>2
      <4> QED
        BY <1>6, <2>3, <2>5, <3>0, <4>1
    <3> QED
      BY <3>1, <3>2
  <2>6. rpc # "poll" /\ order'[item].id = id => o <= item
    <3>1. rpc # "poll" => order'[item] = order[item]
      BY <1>3 DEF ItemInv
    <3> QED
      BY <2>1, <2>2, <3>1 DEF StoredWell
  <2> QED
    BY <1>1, <2>1, <2>2, <2>3, <2>4, <2>5, <2>6 DEF StoredWell
<1>10. PhaseInv'
  BY <1>1 DEF PhaseInv
<1>11. HeldInv'
  <2> SUFFICES ASSUME NEW r \in Ref, order'[r].id # 0, Keeps(r)', r \notin cancelled', qty'[r] # 0
               PROVE  \/ Pending(r)'
                      \/ order'[r].id \in failed
                      \/ db[order'[r].id] # NoEntry /\ db[order'[r].id].object = r
    BY DEF HeldInv, Known
  <2>1. CASE Known(r)
    <3>1. Keeps(r) /\ qty[r] # 0 /\ r \notin cancelled /\ order'[r] = order[r]
      BY <2>1 DEF Effect
    <3>2. Pending(r)' <=> Pending(r)
      <4>1. ASSUME NEW i \in DOMAIN ring', ring'[i] = r
            PROVE  \E j \in DOMAIN ring : ring[j] = r
        <5>1. i \in DOMAIN ring
          BY <1>5, <1>6, <2>1, <4>1
        <5> QED
          BY <1>5, <4>1, <5>1
      <4>2. ASSUME NEW i \in DOMAIN ring, ring[i] = r
            PROVE  \E j \in DOMAIN ring' : ring'[j] = r
        BY <1>5, <4>2
      <4> QED
        BY <4>1, <4>2 DEF Pending
    <3> QED
      BY <2>1, <3>1, <3>2 DEF HeldInv
  <2>2. CASE ~Known(r)
    <3>1. app = <<r>>
      BY <2>2 DEF Effect, Known
    <3>2. \E i \in DOMAIN ring' : ring'[i] = r
      BY <1>5, <3>1
    <3>3. Pending(r)'
      BY <3>2 DEF Pending
    <3> QED
      BY <3>1, <3>3
  <2> QED
    BY <2>1, <2>2
<1> QED
  BY <1>7, <1>8, <1>9, <1>10, <1>11

-----------------------------------------------------------------------------
(* The steps of the worker *)

(* A step that moves no order. *)
LEMMA QuietWork ==
    ASSUME StepInv, UNCHANGED <<objects, clock, order, qty, parent, tree, queue, index, stop>>,
           cancelled \subseteq cancelled', date' \subseteq date, walk' \in Seq(Ref),
           outbox' \in Seq(Ref \cup {Dangling}), TakenInv', Busy' => Busy /\ taker' = taker
    PROVE  StepInv' /\ Effect(<< >>)
<1> USE DEF StepInv
<1>1. CoreInv'
  BY DEF CoreInv
<1>2. KnownInv' /\ QueueInv' /\ OriginalInv' /\ ModifiedInv'
  BY DEF KnownInv, Known, QueueInv, OriginalInv, Original, ModifiedInv
<1>3. \A x : Keeps(x)' => Keeps(x)
  BY DEF Keeps, InBook, Linked
<1>4. \A x \in Ref : qty[x] \in Int
  BY DEF CoreInv
<1>5. objects \in Nat
  BY BookAssumption DEF CoreInv
<1>6. Effect(<< >>)
  BY <1>3, <1>4, <1>5 DEF Effect, Known
<1> QED
  BY <1>1, <1>2, <1>6

(* The levels of the opposite side of the book. *)
LEMMA TakerLevels ==
    ASSUME StepInv, Busy
    PROVE  /\ taker \in Ref /\ TakerSide \in Side /\ Opposite(TakerSide) \in Side
           /\ \A p \in todo : p \in Price /\ LevelOf(p) \in Limit
<1>1. taker \in Ref /\ todo \subseteq Levels(Opposite(TakerSide))
  BY DEF StepInv, TakenInv
<1>2. order \in [Ref -> OrderRecord] /\ tree \in [Side -> [Price -> Limit \cup {NoLimit}]]
  BY DEF StepInv, CoreInv
<1>3. TakerSide \in Side
  BY <1>1, <1>2 DEF TakerSide, OrderRecord
<1>4. Opposite(TakerSide) \in Side
  BY DEF Opposite, Side
<1> QED
  BY <1>1, <1>2, <1>3, <1>4 DEF Levels, LevelOf

(* The steps of match_order and check_date_orders that move no order. *)
LEMMA QuietSteps ==
    ASSUME StepInv,
           \/ \E p \in Price : MatchSkip(p) \/ MatchEnter(p)
           \/ KillOrder \/ LeaveLevel \/ CheckDateOrders \/ ExpireDone
           \/ \E id \in Ref : ModifyNotFound(id)
    PROVE  StepInv' /\ Effect(<< >>)
<1>1. walk \in Seq(Ref) /\ outbox \in Seq(Ref \cup {Dangling}) /\ qty \in [Ref -> Int]
  BY DEF StepInv, CoreInv
<1>t. TakenInv
  BY DEF StepInv
<1>e. << >> \in Seq(Ref) /\ << >> \in Seq(Ref \cup {Dangling})
  OBVIOUS
<1>2. ASSUME NEW p \in Price, MatchSkip(p)
      PROVE  StepInv' /\ Effect(<< >>)
  <2>1. /\ UNCHANGED <<objects, clock, order, qty, parent, tree, queue, index, stop, cancelled, date, walk,
                       outbox, pc, taker>>
        /\ todo' \subseteq todo
    BY <1>2 DEF MatchSkip, bookVars
  <2>2. TakenInv'
    BY <1>t, <2>1 DEF TakenInv, Busy, Original, Levels, TakerSide
  <2> QED
    BY <1>1, <2>1, <2>2, QuietWork DEF Busy
<1>3. ASSUME NEW p \in Price, MatchEnter(p)
      PROVE  StepInv' /\ Effect(<< >>)
  <2>1. /\ UNCHANGED <<objects, clock, order, qty, parent, tree, queue, index, stop, cancelled, date,
                       outbox, taker>>
        /\ pc = "match" /\ pc' = "fill" /\ todo' \subseteq todo /\ p \in todo
        /\ walk' = queue[LevelOf(p)]
    BY <1>3 DEF MatchEnter, First, bookVars
  <2>2. LevelOf(p) \in Limit
    BY <2>1, TakerLevels DEF Busy
  <2>3. walk' \in Seq(Ref) /\ \A i \in DOMAIN walk' : parent[walk'[i]] \in Limit
    BY <2>1, <2>2 DEF StepInv, CoreInv, QueueInv
  <2>4. TakenInv'
    BY <1>t, <2>1, <2>3 DEF TakenInv, Busy, Original, Levels, TakerSide
  <2> QED
    BY <1>1, <2>1, <2>3, <2>4, QuietWork DEF Busy
<1>4. CASE KillOrder
  <2>1. /\ UNCHANGED <<objects, clock, order, qty, parent, tree, queue, index, stop, date, outbox>>
        /\ cancelled \subseteq cancelled' /\ pc' = "idle" /\ walk' = << >>
    BY <1>4 DEF KillOrder, Return, bookVars
  <2> QED
    BY <1>1, <1>e, <2>1, QuietWork DEF Busy, TakenInv
<1>5. CASE LeaveLevel
  <2>1. UNCHANGED <<objects, clock, order, qty, parent, tree, queue, index, stop, date, outbox, cancelled>>
    BY <1>5 DEF LeaveLevel, bookVars
  <2>2. CASE qty[taker] = 0
    <3>1. pc' = "idle" /\ walk' = << >>
      BY <1>5, <2>2 DEF LeaveLevel, Return
    <3> QED
      BY <1>1, <1>e, <2>1, <3>1, QuietWork DEF Busy, TakenInv
  <2>3. CASE qty[taker] # 0
    <3>1. pc = "fill" /\ pc' = "match" /\ UNCHANGED <<taker, todo, walk>>
      BY <1>5, <2>3 DEF LeaveLevel, matchVars
    <3>2. TakenInv'
      BY <1>t, <2>1, <3>1 DEF TakenInv, Busy, Original, Levels, TakerSide
    <3> QED
      BY <1>1, <2>1, <3>1, <3>2, QuietWork DEF Busy
  <2> QED
    BY <2>2, <2>3
<1>6. CASE CheckDateOrders \/ ExpireDone \/ \E id \in Ref : ModifyNotFound(id)
  <2>1. /\ UNCHANGED <<objects, clock, order, qty, parent, tree, queue, index, stop, cancelled, walk>>
        /\ date' \subseteq date /\ pc' \in {"idle", "expire"} /\ outbox' \in {outbox, << >>}
    BY <1>6 DEF CheckDateOrders, ExpireDone, ModifyNotFound, bookVars, matchVars, DateRemove
  <2> QED
    BY <1>1, <1>e, <2>1, QuietWork DEF Busy, TakenInv
<1> QED
  BY <1>2, <1>3, <1>4, <1>5, <1>6

(* cancel_order of an order in the index, for a client or at its expiry. *)
LEMMA CancelWork ==
    ASSUME StepInv, NEW id \in Ref, NEW sent \in Seq(Ref \cup {Dangling}), CancelEntry(id, sent),
           UNCHANGED <<objects, clock, order, qty, parent, tree, date, walk>>, pc' \in {"idle", "expire"}
    PROVE  /\ StepInv'
           /\ \E x \in Ref \cup {Dangling} : outbox' = Append(sent, x) /\ Effect(<<x>>)
<1> USE DEF StepInv
<1>1. index[id] = id /\ Original(id) /\ parent[id] \in Limit /\ order[id].id = id
  BY DEF CancelEntry, OriginalInv, Original
<1>2. PICK l \in Limit : l = parent[id]
  BY <1>1
<1>3. /\ index' = [index EXCEPT ![id] = 0] /\ cancelled' = cancelled \cup {id}
      /\ \/ UNCHANGED queue /\ stop' = [stop EXCEPT ![order[id].side] = StopRemove(order, @, id)]
         \/ UNCHANGED stop /\ queue' = [queue EXCEPT ![l] = Unlink(queue[l], id)]
  BY <1>1, <1>2 DEF CancelEntry, RemoveStopOrder, RemoveLimitOrder
<1>4. PICK x \in {id, Dangling} : outbox' = Append(sent, x)
  BY <1>1 DEF CancelEntry
<1>5. /\ queue \in [Limit -> Seq(Ref)] /\ stop \in [Side -> SUBSET Ref] /\ index \in [Ref -> Ref \cup {0}]
      /\ order[id].side \in Side
  BY DEF CoreInv, OrderRecord
<1>6. stop' \in [Side -> SUBSET Ref] /\ \A s \in Side : stop'[s] \subseteq stop[s]
  BY <1>3, <1>5 DEF StopRemove
<1>7. /\ queue' \in [Limit -> Seq(Ref)]
      /\ \A k \in Limit : NoRepeat(queue'[k]) /\ \A j \in DOMAIN queue'[k] :
            \E i \in DOMAIN queue[k] : queue'[k][j] = queue[k][i]
  <2>1. CASE UNCHANGED queue
    BY <1>5, <2>1 DEF QueueInv
  <2>2. CASE queue' = [queue EXCEPT ![l] = Unlink(queue[l], id)]
    <3>1. CoreInv /\ QueueInv
      OBVIOUS
    <3> HIDE DEF StepInv
    <3>2. queue' = Without(l, id)
      BY <2>2 DEF Without
    <3> QED
      BY <3>1, <3>2, UnlinkQueue
  <2> QED
    BY <1>3, <2>1, <2>2
<1>8. index' \in [Ref -> Ref \cup {0}] /\ index'[id] = 0 /\ \A k \in Ref : k # id => index'[k] = index[k]
  BY <1>3, <1>5
<1>9. outbox' \in Seq(Ref \cup {Dangling})
  BY <1>4
<1>10. CoreInv'
  BY <1>6, <1>7, <1>8, <1>9 DEF CoreInv
<1>11. KnownInv'
  BY <1>6 DEF KnownInv, Known
<1>12. QueueInv'
  BY <1>7 DEF QueueInv
<1>13. OriginalInv'
  BY <1>8 DEF OriginalInv, Original
<1>14. ModifiedInv'
  BY <1>3 DEF ModifiedInv, Known
<1>15. TakenInv'
  BY DEF TakenInv, Busy
<1>16. \A r : Keeps(r)' => Keeps(r)
  BY <1>6, <1>7 DEF Keeps, InBook, Linked, Busy, Side
<1>17. Effect(<<x>>)
  <2>1. \A r \in Ref : qty[r] \in Int
    BY DEF CoreInv
  <2>2. id # 0 /\ objects \in Nat /\ Ref \subseteq Nat
    BY BookAssumption DEF Ref, CoreInv
  <2>3. x # Dangling => Known(x)' /\ x \in cancelled' /\ \A y \in Ref : order'[y].id = order'[x].id => y <= x
    <3>1. \A y \in Ref : order[y].id = id => y = id
      BY <1>1 DEF Original
    <3> QED
      BY <1>1, <1>3, <2>2, <3>1 DEF Known
  <2> HIDE DEF StepInv
  <2> QED
    BY <1>3, <1>16, <2>1, <2>2, <2>3 DEF Effect, Known
<1> QED
  BY <1>4, <1>10, <1>11, <1>12, <1>13, <1>14, <1>15, <1>17

(* A maker that an order is matched against has a place in the book. *)
LEMMA MakerFacts ==
    ASSUME StepInv, pc = "fill", walk # << >>
    PROVE  /\ taker \in Ref /\ Head(walk) \in Ref /\ Head(walk) # taker
           /\ parent[Head(walk)] \in Limit /\ order[Head(walk)].id \in Ref
           /\ Tail(walk) \in Seq(Ref) /\ \A i \in DOMAIN Tail(walk) : parent[Tail(walk)[i]] \in Limit
<1>1. walk \in Seq(Ref) /\ taker \in Ref /\ parent[taker] = NoLimit /\ NoLimit \notin Limit
  BY BookAssumption DEF StepInv, CoreInv, TakenInv, Busy
<1>2. \A i \in DOMAIN walk : parent[walk[i]] \in Limit
  BY DEF StepInv, TakenInv
<1>3. /\ 1 \in DOMAIN walk /\ Head(walk) = walk[1] /\ Head(walk) \in Ref /\ Tail(walk) \in Seq(Ref)
      /\ \A i \in DOMAIN Tail(walk) : i + 1 \in DOMAIN walk /\ Tail(walk)[i] = walk[i + 1]
  BY <1>1
<1>4. Known(Head(walk))
  BY <1>1, <1>2, <1>3 DEF StepInv, KnownInv
<1>5. order[Head(walk)].id <= objects /\ objects \in 0 .. MaxOrders /\ order[Head(walk)] \in OrderRecord
  BY <1>3, <1>4 DEF StepInv, KnownInv, CoreInv
<1>6. order[Head(walk)].id \in Nat /\ order[Head(walk)].id # 0
  BY <1>4, <1>5 DEF OrderRecord, Known
<1>7. order[Head(walk)].id \in Ref
  BY <1>5, <1>6, BookAssumption DEF Ref
<1> QED
  BY <1>1, <1>2, <1>3, <1>7

(* resolve_orders changes the maker and the taker only.  Zero stays zero,   *)
(* nothing becomes negative, and nothing grows unless the maker is negative. *)
LEMMA ResolvedTakes ==
    ASSUME qty \in [Ref -> Int], taker \in Ref, qty[taker] > 0, NEW m \in Ref, m # taker
    PROVE  /\ Resolved(m) \in [Ref -> Int]
           /\ \A x \in Ref : qty[x] = 0 => Resolved(m)[x] = 0
           /\ \A x \in Ref : qty[x] >= 0 => Resolved(m)[x] >= 0
           /\ qty[m] >= 0 => \A x \in Ref : Resolved(m)[x] <= qty[x]
           /\ \A x \in Ref : x # m /\ x # taker => Resolved(m)[x] = qty[x]
<1>1. qty[m] \in Int /\ qty[taker] \in Int /\ \A x \in Ref : qty[x] \in Int
  OBVIOUS
<1>2. CASE qty[m] >= qty[taker]
  <2> DEFINE v == qty[m] - qty[taker]
  <2>1. v \in Int /\ v >= 0 /\ v <= qty[m] /\ qty[m] > 0
    BY <1>1, <1>2
  <2>2. Resolved(m) = [qty EXCEPT ![m] = v, ![taker] = 0]
    BY <1>2 DEF Resolved
  <2> HIDE DEF v
  <2> QED
    BY <1>1, <2>1, <2>2
<1>3. CASE ~(qty[m] >= qty[taker]) /\ HasParam(taker, {"AON"})
  BY <1>1, <1>3 DEF Resolved
<1>4. CASE ~(qty[m] >= qty[taker]) /\ ~HasParam(taker, {"AON"})
  <2> DEFINE v == qty[taker] - qty[m]
  <2>1. v \in Int /\ v >= 0 /\ (qty[m] >= 0 => v <= qty[taker])
    BY <1>1, <1>4
  <2>2. Resolved(m) = [qty EXCEPT ![taker] = v, ![m] = 0]
    BY <1>4 DEF Resolved
  <2> HIDE DEF v
  <2> QED
    BY <1>1, <2>1, <2>2
<1> QED
  BY <1>2, <1>3, <1>4

(* process_limit_order: a maker with nothing left is taken out of its list. *)
LEMMA ResolveWork ==
    ASSUME StepInv, ResolveOrders
    PROVE  StepInv' /\ Effect(<< >>)
<1>1. CoreInv /\ KnownInv /\ QueueInv /\ OriginalInv /\ ModifiedInv /\ TakenInv
  BY DEF StepInv
<1>2. PICK m \in Ref : m = Head(walk)
  BY MakerFacts DEF ResolveOrders
<1>3. /\ taker \in Ref /\ m # taker /\ parent[m] \in Limit /\ order[m].id \in Ref
      /\ walk' \in Seq(Ref) /\ \A i \in DOMAIN walk' : parent[walk'[i]] \in Limit
  BY <1>2, MakerFacts DEF ResolveOrders
<1>4. /\ UNCHANGED <<objects, clock, order, cancelled, parent, tree, stop, date, pc, taker, todo, outbox>>
      /\ pc = "fill" /\ qty[taker] > 0 /\ qty' = Resolved(m)
      /\ \/ /\ qty'[m] = 0 /\ queue' = [queue EXCEPT ![parent[m]] = Unlink(queue[parent[m]], m)]
            /\ index' = [index EXCEPT ![order[m].id] = 0]
         \/ qty'[m] # 0 /\ UNCHANGED <<queue, index>>
  BY <1>2 DEF ResolveOrders, RemoveLimitOrder
<1>5. /\ qty' \in [Ref -> Int]
      /\ \A x \in Ref : qty[x] = 0 => qty'[x] = 0
      /\ \A x \in Ref : qty[x] >= 0 => qty'[x] >= 0
      /\ qty[m] >= 0 => \A x \in Ref : qty'[x] <= qty[x]
  <2>1. qty \in [Ref -> Int]
    BY <1>1 DEF CoreInv
  <2> QED
    BY <1>3, <1>4, <2>1, ResolvedTakes
<1>6. /\ queue' \in [Limit -> Seq(Ref)]
      /\ \A k \in Limit : NoRepeat(queue'[k]) /\ \A j \in DOMAIN queue'[k] :
            /\ \E i \in DOMAIN queue[k] : queue'[k][j] = queue[k][i]
            /\ queue'[k][j] = m => qty'[m] # 0
  <2>1. CASE UNCHANGED queue /\ qty'[m] # 0
    BY <1>1, <2>1 DEF QueueInv, CoreInv
  <2>2. CASE queue' = [queue EXCEPT ![parent[m]] = Unlink(queue[parent[m]], m)]
    <3>1. /\ queue' \in [Limit -> Seq(Ref)]
          /\ \A k \in Limit : NoRepeat(queue'[k]) /\ \A j \in DOMAIN queue'[k] :
                \E i \in DOMAIN queue[k] : queue'[k][j] = queue[k][i]
          /\ \A j \in DOMAIN queue'[parent[m]] : queue'[parent[m]][j] # m
      <4>1. queue' = Without(parent[m], m)
        BY <2>2 DEF Without
      <4> QED
        BY <1>1, <1>3, <4>1, UnlinkQueue
    <3>2. \A k \in Limit : \A j \in DOMAIN queue'[k] : queue'[k][j] # m
      BY <1>1, <3>1 DEF QueueInv
    <3> QED
      BY <3>1, <3>2
  <2> QED
    BY <1>4, <2>1, <2>2
<1>7. /\ index' \in [Ref -> Ref \cup {0}]
      /\ \A k \in Ref : index'[k] # 0 => index'[k] = index[k]
  BY <1>1, <1>3, <1>4 DEF CoreInv
<1>8. CoreInv'
  BY <1>1, <1>3, <1>4, <1>5, <1>6, <1>7 DEF CoreInv
<1>9. KnownInv' /\ ModifiedInv'
  BY <1>1, <1>4, <1>5 DEF KnownInv, ModifiedInv, Known
<1>10. QueueInv'
  BY <1>1, <1>4, <1>6 DEF QueueInv
<1>11. OriginalInv'
  BY <1>1, <1>4, <1>7 DEF OriginalInv, Original
<1>12. TakenInv'
  BY <1>1, <1>3, <1>4 DEF TakenInv, Busy, Original, Levels, TakerSide
<1>13. \A x \in Ref : Keeps(x)' => Keeps(x)
  BY <1>4, <1>6 DEF Keeps, InBook, Linked, Busy
<1>14. Effect(<< >>)
  <2>1. objects \in Nat
    BY <1>1, BookAssumption DEF CoreInv
  <2>2. Lawful => qty[m] >= 0
    <3>1. Known(m)
      BY <1>1, <1>3, BookAssumption DEF KnownInv
    <3> QED
      BY <1>1, <3>1 DEF Lawful, KnownInv
  <2> QED
    BY <1>4, <1>5, <1>13, <2>1, <2>2 DEF Effect, Known
<1> QED
  BY <1>8, <1>9, <1>10, <1>11, <1>12, <1>14 DEF StepInv

(* What rests after its match gets a place and is known to the index. *)
LEMMA RestWork ==
    ASSUME StepInv, RestOrder
    PROVE  StepInv' /\ Effect(<< >>)
<1>1. CoreInv /\ KnownInv /\ QueueInv /\ OriginalInv /\ ModifiedInv /\ TakenInv
  BY DEF StepInv
<1>2. /\ UNCHANGED <<objects, clock, order, qty, cancelled, stop, outbox>>
      /\ pc = "match" /\ pc' = "idle" /\ walk' = << >>
      /\ AddLimitOrder(taker, TakerSide, qty[taker], <<TakerSide, order[taker].price>>, queue, volume)
      /\ index' = [index EXCEPT ![order[taker].id] = taker]
      /\ date' \subseteq date \cup {taker}
  BY DEF RestOrder, NoMatch, Return, DateInsert
<1>3. /\ taker \in Ref /\ Original(taker) /\ order[taker].id = taker /\ parent[taker] = NoLimit
      /\ \A s \in Side : taker \notin stop[s]
  BY <1>1, <1>2 DEF TakenInv, Busy, Original
<1>4. Known(taker) /\ order[taker].price \in Price
  <2>1. taker # 0
    BY <1>3, BookAssumption DEF Ref
  <2> QED
    BY <1>1, <1>3, <2>1 DEF Known, KnownInv
<1>5. PICK l \in Limit : l = <<TakerSide, order[taker].price>>
  BY <1>3, <1>4, TakerLevels, <1>2 DEF Busy, Limit
<1>6. TakerSide \in Side
  BY <1>2, TakerLevels DEF Busy
<1>7. \A k \in Limit : /\ NoRepeat(queue[k])
                       /\ \A i \in DOMAIN queue[k] : parent[queue[k][i]] = k /\ queue[k][i] # taker
  BY <1>1, <1>3, BookAssumption DEF QueueInv
<1>8. queue \in [Limit -> Seq(Ref)] /\ parent \in [Ref -> Limit \cup {NoLimit}]
  BY <1>1 DEF CoreInv
<1>9. /\ \E h \in Limit : parent' = [parent EXCEPT ![taker] = h]
      /\ tree' \in [Side -> [Price -> Limit \cup {NoLimit}]]
      /\ queue' \in [Limit -> Seq(Ref)]
      /\ QueueInv'
      /\ \A k \in Limit : \A i \in DOMAIN queue'[k] :
            queue'[k][i] = taker \/ \E j \in DOMAIN queue[k] : queue[k][j] = queue'[k][i]
  <2>1. AddLimitOrder(taker, TakerSide, qty[taker], l, queue, volume)
    BY <1>2, <1>5
  <2>2. CoreInv
    BY <1>1
  <2>3. taker \in Ref /\ Outside(taker, queue)
    BY <1>3, <1>7, <1>8 DEF Outside
  <2>4. Placed(taker, queue)
    BY <1>6, <2>1, <2>2, <2>3, AddQueue
  <2> QED
    BY <2>4 DEF Placed
<1>10. /\ parent' \in [Ref -> Limit \cup {NoLimit}] /\ parent'[taker] \in Limit
       /\ \A x \in Ref : x # taker => parent'[x] = parent[x]
  BY <1>3, <1>8, <1>9
<1>11. /\ index' \in [Ref -> Ref \cup {0}] /\ index'[taker] = taker
       /\ \A k \in Ref : k # taker => index'[k] = index[k]
  BY <1>1, <1>2, <1>3 DEF CoreInv
<1>12. CoreInv'
  <2>1. << >> \in Seq(Ref) /\ date' \subseteq Ref
    BY <1>1, <1>2, <1>3 DEF CoreInv
  <2> QED
    BY <1>1, <1>2, <1>9, <1>10, <1>11, <2>1 DEF CoreInv
<1>13. KnownInv'
  <2>1. \A x \in Ref : /\ order'[x] = order[x] /\ qty'[x] = qty[x]
                       /\ order[x].id = 0 => parent'[x] = NoLimit
    BY <1>1, <1>2, <1>4, <1>10 DEF KnownInv, Known
  <2>2. \A s \in Side : \A x \in stop'[s] : order'[x].id # 0 /\ parent'[x] = NoLimit
    BY <1>1, <1>2, <1>3, <1>10 DEF KnownInv, Known, CoreInv
  <2>3. \A x \in date' : order'[x].id # 0
    BY <1>1, <1>2, <1>4 DEF KnownInv, Known
  <2> QED
    BY <1>1, <1>2, <2>1, <2>2, <2>3 DEF KnownInv, Known
<1>14. OriginalInv'
  BY <1>1, <1>2, <1>3, <1>10, <1>11 DEF OriginalInv, Original
<1>15. ModifiedInv' /\ TakenInv'
  BY <1>1, <1>2 DEF ModifiedInv, Known, TakenInv, Busy
<1>16. ASSUME NEW x \in Ref, Keeps(x)'
       PROVE  Keeps(x)
  <2>1. InBook(x)'
    BY <1>2, <1>16 DEF Keeps, Busy
  <2>2. InBook(x) \/ x = taker
    <3>1. CASE x \in stop'["BUY"] \cup stop'["SELL"]
      BY <1>2, <3>1 DEF InBook
    <3>2. ASSUME NEW k \in Limit, NEW j \in DOMAIN queue'[k], queue'[k][j] = x
          PROVE  InBook(x) \/ x = taker
      BY <1>9, <3>2 DEF InBook, Linked
    <3> QED
      BY <2>1, <3>1, <3>2 DEF InBook, Linked
  <2> QED
    BY <1>2, <2>2 DEF Keeps, Busy
<1>17. Effect(<< >>)
  <2>1. objects \in Nat /\ \A x \in Ref : qty[x] \in Int
    BY <1>1, BookAssumption DEF CoreInv
  <2> QED
    BY <1>2, <1>16, <2>1 DEF Effect, Known
<1> QED
  BY <1>9, <1>12, <1>13, <1>14, <1>15, <1>17 DEF StepInv

(* The new object of a request. *)
LEMMA NewObject ==
    ASSUME StepInv, NEW req \in Request, NEW id \in Ref \cup {0}, id <= objects, Create(req, id),
           NEW n, n = objects + 1, NEW i, i = IF id = 0 THEN n ELSE id
    PROVE  /\ n \in Ref /\ i \in Ref /\ i <= n /\ objects' = n /\ objects' \in 0 .. MaxOrders
           /\ order' \in [Ref -> OrderRecord] /\ qty' \in [Ref -> Int]
           /\ order'[n].id = i /\ order'[n].side = req.side /\ order'[n].price = req.price
           /\ order'[n].qty = req.qty /\ qty'[n] = req.qty
           /\ \A x \in Ref : x # n => order'[x] = order[x] /\ qty'[x] = qty[x]
           /\ req.side \in Side /\ req.price \in Price
           /\ ~Known(n) /\ parent[n] = NoLimit
           /\ \A l \in Limit : \A j \in DOMAIN queue[l] : queue[l][j] # n
           /\ \A s \in Side : n \notin stop[s]
<1>1. CoreInv /\ KnownInv /\ QueueInv
  BY DEF StepInv
<1>2. n \in Ref /\ i \in Ref /\ i <= n /\ objects' = n /\ objects' \in 0 .. MaxOrders /\ n > objects
  <2>1. objects \in 0 .. MaxOrders
    BY <1>1 DEF CoreInv
  <2> QED
    BY <2>1, BookAssumption DEF Create, Ref
<1>3. order' = [order EXCEPT ![n] = NewOrder(req, i)] /\ qty' = [qty EXCEPT ![n] = req.qty]
  BY DEF Create
<1>4. req \in OrderRequest /\ Price \subseteq Int
  BY BookAssumption
<1>5. /\ req.side \in Side /\ req.type \in {"MARKET", "LIMIT"} /\ req.price \in Price
      /\ req.stop_price \in Int /\ req.expire_time \in Int /\ req.qty \in Int
  BY <1>4 DEF OrderRequest
<1>6. clock \in Nat /\ order \in [Ref -> OrderRecord] /\ qty \in [Ref -> Int]
  BY <1>1 DEF CoreInv
<1>7. i \in Nat
  BY <1>2, BookAssumption DEF Ref
<1>8. PICK o \in OrderRecord : /\ o = NewOrder(req, i) /\ o.id = i /\ o.side = req.side
                              /\ o.price = req.price /\ o.qty = req.qty
  <2>1. NewOrder(req, i) \in OrderRecord
    BY <1>4, <1>5, <1>6, <1>7 DEF NewOrder, OrderRecord
  <2>2. /\ NewOrder(req, i).id = i /\ NewOrder(req, i).side = req.side
        /\ NewOrder(req, i).price = req.price /\ NewOrder(req, i).qty = req.qty
    BY DEF NewOrder
  <2> QED
    BY <2>1, <2>2
<1>9. /\ order' \in [Ref -> OrderRecord] /\ qty' \in [Ref -> Int]
      /\ order'[n] = o /\ qty'[n] = req.qty
      /\ \A x \in Ref : x # n => order'[x] = order[x] /\ qty'[x] = qty[x]
  BY <1>2, <1>3, <1>5, <1>6, <1>8
<1>10. ~Known(n)
  <2>1. Known(n) => n <= objects
    BY <1>1, <1>2 DEF KnownInv
  <2>2. objects \in Nat
    BY <1>1, BookAssumption DEF CoreInv
  <2> QED
    BY <2>1, <2>2
<1>11. parent[n] = NoLimit /\ \A s \in Side : n \notin stop[s]
  BY <1>1, <1>2, <1>10 DEF KnownInv
<1>12. \A l \in Limit : \A j \in DOMAIN queue[l] : queue[l][j] # n
  BY <1>1, <1>11, BookAssumption DEF QueueInv
<1> QED
  BY <1>2, <1>5, <1>8, <1>9, <1>10, <1>11, <1>12

(* Nothing but the new object n of a request comes into the book, the index *)
(* knows no object it did not know, and none with the id of n.              *)
Grows(n, id) ==
    /\ cancelled \subseteq cancelled' /\ date' \subseteq date \cup {n}
    /\ id # 0 => Original(id) /\ id \in cancelled'
    /\ \A k \in Ref : index'[k] # 0 => index'[k] = index[k] /\ k # id
    /\ \A x \in Ref : x # n => parent'[x] = parent[x]
    /\ \A s \in Side : \A x \in stop'[s] : x \in stop[s] \/ (x = n /\ parent'[n] = NoLimit)
    /\ \A l \in Limit : \A i \in DOMAIN queue'[l] :
           queue'[l][i] = n \/ \E j \in DOMAIN queue[l] : queue[l][j] = queue'[l][i]

(* A request that brings a new object: with an id of its own, or with that  *)
(* of the order it replaces, which is cancelled.                            *)
LEMMA CreateWork ==
    ASSUME StepInv, NEW req \in Request, NEW id \in Ref \cup {0}, Create(req, id),
           NEW n, n = objects + 1, Grows(n, id),
           CoreInv', QueueInv', TakenInv', ~Busy, Busy' => taker' = n
    PROVE  StepInv' /\ Effect(<<n>>)
<1>1. CoreInv /\ KnownInv /\ QueueInv /\ OriginalInv /\ ModifiedInv /\ TakenInv
  BY DEF StepInv
<1> USE DEF Grows
<1>2. objects \in Nat /\ Ref \subseteq Nat /\ 0 \notin Ref /\ \A x \in Ref : order[x].id \in Nat /\ qty[x] \in Int
  <2>1. order \in [Ref -> OrderRecord] /\ qty \in [Ref -> Int] /\ objects \in 0 .. MaxOrders
    BY <1>1 DEF CoreInv
  <2>2. \A o \in OrderRecord : o.id \in Nat
    BY DEF OrderRecord
  <2> QED
    BY <2>1, <2>2, BookAssumption DEF Ref
<1>3. id <= objects
  <2>1. CASE id = 0
    BY <1>2, <2>1
  <2>2. CASE id # 0
    <3>1. id \in Ref /\ order[id].id = id /\ Known(id)
      BY <2>2 DEF Original, Known
    <3> QED
      BY <1>1, <3>1 DEF KnownInv
  <2> QED
    BY <2>1, <2>2
<1>4. PICK i : i = IF id = 0 THEN n ELSE id
  OBVIOUS
<1>5. /\ n \in Ref /\ i \in Ref /\ i <= n /\ objects' = n
      /\ order'[n].id = i /\ order'[n].price = req.price /\ order'[n].qty = qty'[n]
      /\ \A x \in Ref : x # n => order'[x] = order[x] /\ qty'[x] = qty[x]
      /\ req.price \in Price
      /\ ~Known(n) /\ parent[n] = NoLimit
  BY <1>3, <1>4, NewObject
<1>6. order'[n].id # 0 /\ objects < n /\ i # 0
  BY <1>2, <1>5
<1>7. \A x \in Ref : x # n => (order'[x].id # 0 <=> Known(x))
  BY <1>5 DEF Known
<1>8. \A x \in Ref : order[x].id = i => x = id /\ x <= objects /\ x \in cancelled' /\ id # 0
  <2> SUFFICES ASSUME NEW x \in Ref, order[x].id = i
               PROVE  x = id /\ x <= objects /\ x \in cancelled' /\ id # 0
    OBVIOUS
  <2>1. order[x].id <= objects
    BY <1>1, <1>6 DEF KnownInv, Known
  <2>2. id # 0 /\ i = id
    BY <1>2, <1>4, <1>6, <2>1
  <2>3. x = id
    BY <2>2 DEF Original
  <2> QED
    BY <1>3, <2>2, <2>3
<1>9. KnownInv'
  <2>1. ASSUME NEW x \in Ref, order'[x].id # 0
        PROVE  /\ x <= objects' /\ order'[x].id <= objects' /\ order'[x].price \in Price
               /\ order'[x].qty >= 0 => qty'[x] >= 0
    <3>1. CASE x = n
      BY <1>2, <1>5, <3>1
    <3>2. CASE x # n
      <4>1. /\ x <= objects /\ order[x].id <= objects /\ order[x].price \in Price
            /\ order'[x] = order[x] /\ qty'[x] = qty[x]
            /\ order[x].qty >= 0 => qty[x] >= 0
        BY <1>1, <1>5, <1>7, <2>1, <3>2 DEF KnownInv
      <4> QED
        BY <1>2, <1>5, <4>1
    <3> QED
      BY <3>1, <3>2
  <2>2. ASSUME NEW x \in Ref, order'[x].id = 0
        PROVE  parent'[x] = NoLimit
    BY <1>1, <1>6, <1>7, <2>2 DEF KnownInv
  <2>3. ASSUME NEW s \in Side, NEW x \in stop'[s]
        PROVE  order'[x].id # 0 /\ parent'[x] = NoLimit
    <3>1. stop \in [Side -> SUBSET Ref]
      BY <1>1 DEF CoreInv
    <3>2. CASE x = n /\ parent'[n] = NoLimit
      BY <1>6, <3>2
    <3>3. CASE x \in stop[s]
      <4>1. x \in Ref /\ Known(x) /\ parent[x] = NoLimit
        BY <1>1, <3>1, <3>3 DEF KnownInv
      <4>2. x # n
        BY <1>5, <4>1
      <4> QED
        BY <1>7, <4>1, <4>2
    <3> QED
      BY <2>3, <3>2, <3>3
  <2>4. ASSUME NEW x \in date'
        PROVE  order'[x].id # 0
    <3>1. x = n \/ (x \in date /\ x \in Ref /\ Known(x))
      BY <1>1, <2>4 DEF KnownInv, CoreInv
    <3> QED
      BY <1>6, <1>7, <3>1
  <2> QED
    BY <2>1, <2>2, <2>3, <2>4 DEF KnownInv, Known
<1>10. OriginalInv'
  <2> SUFFICES ASSUME NEW k \in Ref, index'[k] # 0
               PROVE  /\ index'[k] = k /\ order'[k].id = k
                      /\ \A x \in Ref : order'[x].id = k => x = k
                      /\ parent'[k] \in Limit
    BY DEF OriginalInv, Original
  <2>1. /\ index'[k] = k /\ k # id /\ order[k].id = k /\ parent[k] \in Limit
        /\ \A x \in Ref : order[x].id = k => x = k
    BY <1>1 DEF OriginalInv, Original
  <2>2. k # n
    BY <1>5, <2>1, BookAssumption
  <2>3. order'[n].id # k
    BY <1>4, <1>5, <2>1, <2>2
  <2> QED
    BY <1>5, <2>1, <2>2, <2>3
<1>11. ModifiedInv'
  <2> SUFFICES ASSUME NEW x \in Ref, NEW y \in Ref, x < y, order'[x].id # 0, order'[x].id = order'[y].id
               PROVE  x \in cancelled'
    BY DEF ModifiedInv, Known
  <2>1. CASE x # n /\ y # n
    BY <1>1, <1>5, <1>7, <2>1 DEF ModifiedInv
  <2>2. CASE y = n
    <3>1. x # n
      BY <1>2, <2>2
    <3> QED
      BY <1>5, <1>8, <2>2, <3>1
  <2>3. CASE x = n /\ y # n
    <3>1. y <= objects
      BY <1>5, <1>8, <2>3
    <3> QED
      BY <1>2, <1>5, <1>6, <2>3, <3>1
  <2> QED
    BY <2>1, <2>2, <2>3
<1>12. ASSUME NEW x \in Ref, Known(x), Keeps(x)'
       PROVE  Keeps(x)
  <2>1. x # n
    BY <1>5, <1>12
  <2>2. InBook(x)'
    BY <1>12, <2>1 DEF Keeps
  <2>3. InBook(x)
    BY <2>1, <2>2 DEF InBook, Linked, Side
  <2> QED
    BY <2>1, <2>3 DEF Keeps
<1>13. Effect(<<n>>)
  <2>1. objects <= objects'
    BY <1>2, <1>5
  <2>2. \A x \in Ref : Known(x) => order'[x] = order[x] /\ qty'[x] = qty[x] /\ qty'[x] <= qty[x]
    BY <1>2, <1>5
  <2>3. \A x \in Ref : Known(x)' /\ ~Known(x) => x = n
    BY <1>7 DEF Known
  <2>5. \A y \in Ref : order'[y].id = order'[n].id => y <= n
    <3>1. \A y \in Ref : y # n /\ order'[y].id = i => y <= objects
      BY <1>5, <1>8
    <3>2. n \in Nat /\ n <= n /\ \A y \in Ref : y <= objects => y <= n
      BY <1>2, <1>6, <1>5
    <3> QED
      BY <1>5, <3>1, <3>2
  <2>6. Known(n)'
    BY <1>6 DEF Known
  <2> QED
    BY <1>5, <1>12, <2>1, <2>2, <2>3, <2>5, <2>6 DEF Effect
<1> QED
  BY <1>9, <1>10, <1>11, <1>13 DEF StepInv

(* add_order of a stop order that is kept aside. *)
LEMMA AddStopWork ==
    ASSUME StepInv, NEW req \in Request, AddStopOrder(req), NEW n, n = objects + 1
    PROVE  StepInv' /\ Effect(<<n>>) /\ outbox' = <<n>>
<1>1. CoreInv /\ QueueInv
  BY DEF StepInv
<1>2. /\ Create(req, 0) /\ outbox' = <<n>> /\ pc = "idle" /\ pc' = "idle"
      /\ UNCHANGED <<clock, cancelled, parent, tree, queue, index, walk>>
      /\ stop' = [stop EXCEPT ![req.side] = StopInsert(order', @, n)]
      /\ date' \subseteq date \cup {n}
  BY DEF AddStopOrder, bookVars, matchVars, DateInsert
<1>3. /\ n \in Ref /\ objects' \in 0 .. MaxOrders /\ req.side \in Side
      /\ order' \in [Ref -> OrderRecord] /\ qty' \in [Ref -> Int] /\ parent[n] = NoLimit
  <2>1. 0 <= objects
    BY <1>1, BookAssumption DEF CoreInv
  <2> QED
    BY <1>2, <2>1, NewObject
<1>4. /\ stop' \in [Side -> SUBSET Ref]
      /\ \A s \in Side : \A x \in stop'[s] : x \in stop[s] \/ x = n
  BY <1>1, <1>2, <1>3 DEF StopInsert, CoreInv
<1>5. CoreInv'
  <2>1. outbox' \in Seq(Ref \cup {Dangling}) /\ date' \subseteq Ref
    BY <1>1, <1>2, <1>3 DEF CoreInv
  <2> QED
    BY <1>1, <1>2, <1>3, <1>4, <2>1 DEF CoreInv
<1>6. QueueInv' /\ TakenInv' /\ ~Busy /\ ~Busy'
  BY <1>1, <1>2 DEF QueueInv, TakenInv, Busy
<1>7. Grows(n, 0)
  <2>1. \A k \in Ref : k # 0
    BY BookAssumption DEF Ref
  <2> QED
    BY <1>2, <1>3, <1>4, <2>1 DEF Grows
<1> QED
  BY <1>2, <1>5, <1>6, <1>7, CreateWork

(* add_order of any other order. *)
LEMMA AddWork ==
    ASSUME StepInv, NEW req \in Request, AddOrder(req), NEW n, n = objects + 1
    PROVE  StepInv' /\ Effect(<<n>>) /\ outbox' = <<n>>
<1>1. CoreInv /\ QueueInv /\ KnownInv
  BY DEF StepInv
<1>2. /\ Create(req, 0) /\ outbox' = <<n>> /\ pc = "idle" /\ pc' = "match" /\ taker' = n
      /\ todo' = Levels(Opposite(req.side))
      /\ UNCHANGED <<clock, cancelled, parent, tree, queue, index, stop, date, walk>>
  BY DEF AddOrder, bookVars
<1>3. /\ n \in Ref /\ objects' \in 0 .. MaxOrders
      /\ order' \in [Ref -> OrderRecord] /\ qty' \in [Ref -> Int] /\ parent[n] = NoLimit
      /\ order'[n].id = n /\ order'[n].side = req.side /\ qty'[n] = req.qty
      /\ \A x \in Ref : x # n => order'[x] = order[x]
      /\ \A s \in Side : n \notin stop[s]
  <2>1. 0 <= objects
    BY <1>1, BookAssumption DEF CoreInv
  <2> QED
    BY <1>2, <2>1, NewObject
<1>4. CoreInv'
  <2>1. outbox' \in Seq(Ref \cup {Dangling})
    BY <1>1, <1>2, <1>3 DEF CoreInv
  <2> QED
    BY <1>1, <1>2, <1>3, <2>1 DEF CoreInv
<1>5. QueueInv'
  BY <1>1, <1>2 DEF QueueInv
<1>6. \A x \in Ref : order'[x].id = n => x = n
  <2> SUFFICES ASSUME NEW x \in Ref, order[x].id = n, x # n
               PROVE  FALSE
    BY <1>3
  <2>1. n # 0 /\ objects \in Nat
    BY <1>1, <1>3, BookAssumption DEF Ref, CoreInv
  <2>2. order[x].id <= objects
    BY <1>1, <2>1 DEF KnownInv, Known
  <2> QED
    BY <2>1, <2>2
<1>7. TakenInv'
  <2>1. todo' \subseteq Levels(Opposite(TakerSide))'
    BY <1>2, <1>3 DEF Levels, TakerSide, Opposite
  <2> QED
    BY <1>2, <1>3, <1>6, <2>1 DEF TakenInv, Original, Busy
<1>8. Grows(n, 0)
  <2>1. \A k \in Ref : k # 0
    BY BookAssumption DEF Ref
  <2> QED
    BY <1>2, <1>3, <2>1 DEF Grows
<1>9. ~Busy /\ taker' = n
  BY <1>2 DEF Busy
<1> QED
  BY <1>2, <1>4, <1>5, <1>7, <1>8, <1>9, CreateWork

(* modify_order: the new object takes the place of the old one. *)
LEMMA ModifyWork ==
    ASSUME StepInv, NEW id \in Ref, NEW req \in Request, ModifyOrder(id, req), NEW n, n = objects + 1
    PROVE  StepInv' /\ Effect(<<n>>) /\ outbox' = <<n>>
<1>1. CoreInv /\ QueueInv /\ KnownInv /\ OriginalInv
  BY DEF StepInv
<1>2. index[id] = id /\ Original(id) /\ parent[id] \in Limit /\ order[id].id = id
  BY <1>1 DEF ModifyOrder, OriginalInv, Original
<1>3. PICK l \in Limit : l = parent[id]
  BY <1>2
<1>4. /\ Create(req, id) /\ outbox' = <<n>> /\ pc = "idle" /\ pc' = "idle"
      /\ UNCHANGED <<clock, date, walk>>
      /\ cancelled' = cancelled \cup {id}
      /\ index' = [index EXCEPT ![id] = 0]
      /\ \/ /\ stop' = [stop EXCEPT ![req.side] = StopInsert(order', @, n)]
            /\ UNCHANGED <<parent, tree, queue>>
         \/ /\ AddLimitOrder(n, req.side, req.qty, l, Without(l, id),
                             [volume EXCEPT ![l] = Decrease(@, qty[id])])
            /\ UNCHANGED stop
  BY <1>2, <1>3 DEF ModifyOrder, bookVars, matchVars, Without
<1>5. /\ n \in Ref /\ objects' \in 0 .. MaxOrders /\ req.side \in Side
      /\ order' \in [Ref -> OrderRecord] /\ qty' \in [Ref -> Int] /\ parent[n] = NoLimit
      /\ \A k \in Limit : \A j \in DOMAIN queue[k] : queue[k][j] # n
      /\ \A s \in Side : n \notin stop[s]
  <2>1. id # 0
    BY BookAssumption DEF Ref
  <2>2. id <= objects
    BY <1>1, <1>2, <2>1 DEF KnownInv, Known
  <2> QED
    BY <1>4, <2>1, <2>2, NewObject
<1>6. /\ index' \in [Ref -> Ref \cup {0}]
      /\ \A k \in Ref : index'[k] # 0 => index'[k] = index[k] /\ k # id
  BY <1>1, <1>4 DEF CoreInv
<1>7. outbox' \in Seq(Ref \cup {Dangling})
  BY <1>4, <1>5
<1>8. TakenInv' /\ ~Busy /\ ~Busy'
  BY <1>4 DEF TakenInv, Busy
<1>9. id # 0 => Original(id) /\ id \in cancelled'
  BY <1>2, <1>4
<1>10. CASE /\ stop' = [stop EXCEPT ![req.side] = StopInsert(order', @, n)]
            /\ UNCHANGED <<parent, tree, queue>>
  <2>1. /\ stop' \in [Side -> SUBSET Ref]
        /\ \A s \in Side : \A x \in stop'[s] : x \in stop[s] \/ x = n
    BY <1>1, <1>5, <1>10 DEF StopInsert, CoreInv
  <2>2. CoreInv'
    BY <1>1, <1>4, <1>5, <1>6, <1>7, <1>10, <2>1 DEF CoreInv
  <2>3. QueueInv'
    BY <1>1, <1>10 DEF QueueInv
  <2>4. Grows(n, id)
    BY <1>4, <1>5, <1>6, <1>9, <1>10, <2>1 DEF Grows
  <2> QED
    BY <1>4, <1>8, <2>2, <2>3, <2>4, CreateWork
<1>11. CASE /\ AddLimitOrder(n, req.side, req.qty, l, Without(l, id),
                             [volume EXCEPT ![l] = Decrease(@, qty[id])])
            /\ UNCHANGED stop
  <2>0. PICK qu : qu = Without(l, id)
    OBVIOUS
  <2>1. /\ qu \in [Limit -> Seq(Ref)]
        /\ \A k \in Limit : NoRepeat(qu[k]) /\ \A j \in DOMAIN qu[k] :
              \E i \in DOMAIN queue[k] : qu[k][j] = queue[k][i]
    BY <1>1, <2>0, UnlinkQueue
  <2>2. Outside(n, qu)
    BY <1>1, <1>5, <2>1 DEF Outside, QueueInv
  <2>3. Placed(n, qu)
    BY <1>1, <1>5, <1>11, <2>0, <2>2, AddQueue
  <2>4. /\ \E h \in Limit : parent' = [parent EXCEPT ![n] = h]
        /\ tree' \in [Side -> [Price -> Limit \cup {NoLimit}]]
        /\ queue' \in [Limit -> Seq(Ref)]
        /\ QueueInv'
        /\ \A k \in Limit : \A i \in DOMAIN queue'[k] :
              queue'[k][i] = n \/ \E j \in DOMAIN qu[k] : qu[k][j] = queue'[k][i]
    BY <2>3 DEF Placed
  <2>5. \A k \in Limit : \A i \in DOMAIN queue'[k] :
            queue'[k][i] = n \/ \E j \in DOMAIN queue[k] : queue[k][j] = queue'[k][i]
    <3> SUFFICES ASSUME NEW k \in Limit, NEW i \in DOMAIN queue'[k], queue'[k][i] # n
                 PROVE  \E j \in DOMAIN queue[k] : queue[k][j] = queue'[k][i]
      OBVIOUS
    <3>1. PICK j \in DOMAIN qu[k] : qu[k][j] = queue'[k][i]
      BY <2>4
    <3> QED
      BY <2>1, <3>1
  <2>6. parent' \in [Ref -> Limit \cup {NoLimit}] /\ \A x \in Ref : x # n => parent'[x] = parent[x]
    <3>1. parent \in [Ref -> Limit \cup {NoLimit}]
      BY <1>1 DEF CoreInv
    <3> QED
      BY <1>5, <2>4, <3>1
  <2>7. CoreInv'
    BY <1>1, <1>4, <1>5, <1>6, <1>7, <1>11, <2>4, <2>6 DEF CoreInv
  <2>8. Grows(n, id)
    BY <1>4, <1>6, <1>9, <1>11, <2>5, <2>6 DEF Grows
  <2> QED
    BY <1>4, <1>8, <2>4, <2>7, <2>8, CreateWork
<1> QED
  BY <1>4, <1>10, <1>11

(* What a step has added to the outbox. *)
LEMMA OutboxAdded ==
    ASSUME NEW T, NEW s \in Seq(T), NEW x \in T
    PROVE  /\ SubSeq(s, Len(s) + 1, Len(s)) = << >>
           /\ SubSeq(Append(s, x), Len(s) + 1, Len(Append(s, x))) = <<x>>
<1>1. Len(s) \in Nat /\ Len(Append(s, x)) = Len(s) + 1 /\ Append(s, x)[Len(s) + 1] = x
  OBVIOUS
<1>2. SubSeq(s, Len(s) + 1, Len(s)) = << >>
  BY <1>1
<1>3. SubSeq(Append(s, x), Len(s) + 1, Len(s) + 1) = <<x>>
  <2> DEFINE a == Append(s, x)
             t == SubSeq(a, Len(s) + 1, Len(s) + 1)
  <2>1. a \in Seq(T) /\ Len(s) + 1 \in 1 .. Len(a) /\ Len(a) = Len(s) + 1 /\ a[Len(s) + 1] = x
    BY <1>1
  <2> HIDE DEF a
  <2>2. t \in Seq(T) /\ Len(t) = 1 /\ t[1] = x
    BY <1>1, <2>1
  <2>3. <<x>> \in Seq(T) /\ Len(<<x>>) = 1 /\ <<x>>[1] = x
    OBVIOUS
  <2> HIDE DEF t
  <2>4. t = <<x>>
    BY <2>2, <2>3, SeqEqual
  <2> QED
    BY <2>4 DEF t, a
<1> QED
  BY <1>1, <1>2, <1>3

(* A request the worker takes. *)
LEMMA ServeWork ==
    ASSUME StepInv, Submit
    PROVE  StepInv' /\ Effect(outbox')
<1>1. /\ walk \in Seq(Ref) /\ << >> \in Seq(Ref \cup {Dangling})
  BY DEF StepInv, CoreInv
<1>2. ASSUME NEW req \in Request, AddStopOrder(req) \/ AddOrder(req)
      PROVE  StepInv' /\ Effect(outbox')
  <2>1. PICK n : n = objects + 1
    OBVIOUS
  <2>2. StepInv' /\ Effect(<<n>>) /\ outbox' = <<n>>
    BY <1>2, <2>1, AddStopWork, AddWork
  <2> QED
    BY <2>2
<1>3. ASSUME NEW id \in Ref, NEW req \in Request, ModifyOrder(id, req)
      PROVE  StepInv' /\ Effect(outbox')
  <2>1. PICK n : n = objects + 1
    OBVIOUS
  <2>2. StepInv' /\ Effect(<<n>>) /\ outbox' = <<n>>
    BY <1>3, <2>1, ModifyWork
  <2> QED
    BY <2>2
<1>4. ASSUME NEW id \in Ref, CancelOrder(id)
      PROVE  StepInv' /\ Effect(outbox')
  <2>1. /\ UNCHANGED <<objects, clock, order, qty, parent, tree, date, walk>>
        /\ pc = "idle" /\ pc' = "idle"
        /\ \/ CancelEntry(id, << >>)
           \/ outbox' = << >> /\ UNCHANGED <<cancelled, queue, index, stop>>
    BY <1>4 DEF CancelOrder, matchVars
  <2>2. CASE CancelEntry(id, << >>)
    <3>1. StepInv' /\ \E x \in Ref \cup {Dangling} : outbox' = Append(<< >>, x) /\ Effect(<<x>>)
      BY <1>1, <2>1, <2>2, CancelWork
    <3>2. \A x : Append(<< >>, x) = <<x>>
      OBVIOUS
    <3> QED
      BY <3>1, <3>2
  <2>3. CASE outbox' = << >> /\ UNCHANGED <<cancelled, queue, index, stop>>
    <3>1. TakenInv' /\ ~Busy'
      BY <2>1 DEF TakenInv, Busy
    <3>2. StepInv' /\ Effect(<< >>)
      BY <1>1, <2>1, <2>3, <3>1, QuietWork
    <3> QED
      BY <2>3, <3>2
  <2> QED
    BY <2>1, <2>2, <2>3
<1>5. ASSUME NEW id \in Ref, ModifyNotFound(id)
      PROVE  StepInv' /\ Effect(outbox')
  <2>1. outbox' = << >>
    BY <1>5 DEF ModifyNotFound
  <2> QED
    BY <1>5, <2>1, QuietSteps
<1>6. CASE CheckDateOrders
  <2>1. outbox' = << >>
    BY <1>6 DEF CheckDateOrders
  <2> QED
    BY <1>6, <2>1, QuietSteps
<1> QED
  BY <1>2, <1>3, <1>4, <1>5, <1>6 DEF Submit

(* A step of check_date_orders, which enqueues what it cancels. *)
LEMMA ExpireWork ==
    ASSUME StepInv, Expire, NEW app, app = SubSeq(outbox', Len(outbox) + 1, Len(outbox'))
    PROVE  StepInv' /\ Effect(app)
<1>1. outbox \in Seq(Ref \cup {Dangling}) /\ walk \in Seq(Ref)
  BY DEF StepInv, CoreInv
<1>2. UNCHANGED outbox => app = << >>
  BY <1>1, OutboxAdded
<1>3. ASSUME NEW r \in Ref, ExpireOrder(r)
      PROVE  StepInv' /\ Effect(app)
  <2>1. /\ UNCHANGED <<objects, clock, order, qty, parent, tree, date, walk>>
        /\ pc = "expire" /\ pc' = "expire" /\ r \in date
        /\ \/ CancelEntry(order[r].id, outbox)
           \/ UNCHANGED <<cancelled, queue, index, stop, outbox>>
    BY <1>3 DEF ExpireOrder, matchVars, Earliest
  <2>2. PICK id \in Ref : id = order[r].id
    <3>1. Known(r) /\ order[r].id <= objects /\ objects \in 0 .. MaxOrders /\ order[r] \in OrderRecord
      BY <2>1 DEF StepInv, KnownInv, CoreInv
    <3>2. order[r].id \in Nat /\ order[r].id # 0
      BY <3>1 DEF OrderRecord, Known
    <3>3. order[r].id \in Ref
      BY <3>1, <3>2, BookAssumption DEF Ref
    <3> QED
      BY <3>3
  <2>3. CASE CancelEntry(id, outbox)
    <3>1. StepInv' /\ \E x \in Ref \cup {Dangling} : outbox' = Append(outbox, x) /\ Effect(<<x>>)
      BY <1>1, <2>1, <2>3, CancelWork
    <3>2. PICK x \in Ref \cup {Dangling} : outbox' = Append(outbox, x) /\ Effect(<<x>>)
      BY <3>1
    <3>3. app = <<x>>
      BY <1>1, <3>2, OutboxAdded
    <3> QED
      BY <3>1, <3>2, <3>3
  <2>4. CASE UNCHANGED <<cancelled, queue, index, stop, outbox>>
    <3>1. TakenInv' /\ ~Busy'
      BY <2>1 DEF TakenInv, Busy
    <3>2. StepInv' /\ Effect(<< >>)
      BY <1>1, <2>1, <2>4, <3>1, QuietWork
    <3> QED
      BY <1>2, <2>4, <3>2
  <2> QED
    BY <2>1, <2>2, <2>3, <2>4
<1>4. CASE ExpireDone
  <2>1. UNCHANGED outbox
    BY <1>4 DEF ExpireDone
  <2> QED
    BY <1>2, <1>4, <2>1, QuietSteps
<1> QED
  BY <1>3, <1>4 DEF Expire

(* Whatever the worker does, the invariant is kept. *)
LEMMA WorkerStep ==
    ASSUME DurableInv, Serve \/ Work
    PROVE  DurableInv'
<1>1. StepInv /\ phase = "up" /\ UNCHANGED <<rpc, item, text, db, failed, phase, loading>>
  BY DEF DurableInv, Serve, Work, threadVars
<1>2. ring \in Seq(Ref \cup {Dangling})
  BY DEF DurableInv, PipeInv
<1>3. CASE Serve
  <2>1. Submit /\ ring' = ring \o outbox'
    BY <1>3 DEF Serve
  <2>2. StepInv' /\ Effect(outbox')
    BY <1>1, <2>1, ServeWork
  <2> QED
    BY <1>1, <2>1, <2>2, WorkerKeepsPipe
<1>4. CASE Work /\ Match
  <2>1. StepInv' /\ Effect(<< >>)
    BY <1>1, <1>4, QuietSteps, RestWork, ResolveWork DEF Match
  <2>2. CASE UNCHANGED ring
    <3>1. ring' = ring \o << >>
      BY <1>2, <2>2
    <3> QED
      BY <1>1, <2>1, <3>1, WorkerKeepsPipe
  <2>3. CASE ~UNCHANGED ring
    <3>1. Expire
      BY <1>4, <2>3 DEF Work
    <3> QED
      BY <1>4, <3>1 DEF Match, Expire, MatchSkip, MatchEnter, KillOrder, RestOrder, NoMatch,
                        ResolveOrders, LeaveLevel, ExpireOrder, ExpireDone
  <2> QED
    BY <2>2, <2>3
<1>5. CASE Work /\ ~Match
  <2>1. PICK app : app = SubSeq(outbox', Len(outbox) + 1, Len(outbox'))
    OBVIOUS
  <2>2. Expire /\ ring' = ring \o app
    BY <1>5, <2>1 DEF Work
  <2>3. StepInv' /\ Effect(app)
    BY <1>1, <2>1, <2>2, ExpireWork
  <2> QED
    BY <1>1, <2>2, <2>3, WorkerKeepsPipe
<1> QED
  BY <1>3, <1>4, <1>5

-----------------------------------------------------------------------------
(* The steps of the repository's thread *)

(* What the thread reads and writes keeps its type. *)
TextInv ==
    /\ params \in [Ref -> SUBSET Param]
    /\ text \in Entry \cup {NoEntry}
    /\ rpc = "put" => text \in Entry
    /\ db \in [Ref -> Entry \cup {NoEntry}]
    /\ failed \subseteq Ref

(* The invariant of a book with its repository. *)
RepoInv == DurableInv /\ TextInv

(* The thread leaves the book alone. *)
LEMMA SameBookWork ==
    ASSUME StepInv, UNCHANGED vars
    PROVE  StepInv'
<1>1. UNCHANGED <<objects, clock, order, qty, cancelled, parent, tree, queue, index, stop, date, walk, outbox,
                  pc, taker, todo>>
  BY DEF vars, bookVars, matchVars
<1>2. CoreInv'
  BY <1>1 DEF StepInv, CoreInv
<1>3. KnownInv' /\ ModifiedInv'
  BY <1>1 DEF StepInv, KnownInv, ModifiedInv, Known
<1>4. QueueInv' /\ OriginalInv'
  BY <1>1 DEF StepInv, QueueInv, OriginalInv, Original
<1>5. TakenInv'
  BY <1>1 DEF StepInv, TakenInv, Busy, Original, Levels, TakerSide
<1> QED
  BY <1>2, <1>3, <1>4, <1>5 DEF StepInv

(* The ring without its first element. *)
LEMMA Popped ==
    ASSUME NEW T, NEW s \in Seq(T), s # << >>
    PROVE  /\ 1 \in DOMAIN s /\ s[1] = Head(s) /\ Head(s) \in T /\ Tail(s) \in Seq(T)
           /\ \A i \in DOMAIN Tail(s) : i + 1 \in DOMAIN s /\ Tail(s)[i] = s[i + 1] /\ 1 < i + 1
           /\ \A j \in DOMAIN s : 1 < j => j - 1 \in DOMAIN Tail(s) /\ Tail(s)[j - 1] = s[j]
           /\ DOMAIN s \subseteq Nat \ {0} /\ DOMAIN Tail(s) \subseteq Nat
OBVIOUS

(* pop: the first object of the ring becomes the thread's item. *)
LEMMA PopStep ==
    ASSUME DurableInv, PopOrder
    PROVE  DurableInv'
<1>1. StepInv /\ PipeInv /\ ItemInv /\ DbInv /\ PhaseInv /\ HeldInv
  BY DEF DurableInv
<1>2. PICK r : r = Head(ring)
  OBVIOUS
<1>3. /\ rpc = "poll" /\ ring # << >> /\ ring' = Tail(ring)
      /\ UNCHANGED <<vars, text, db, failed, phase, loading>>
      /\ \/ r = Dangling /\ rpc' = "poll" /\ item' = item
         \/ /\ r # Dangling /\ item' = r /\ rpc' \in {"remove", "save"}
            /\ rpc' = "remove" => Finished(r)
  BY <1>2 DEF PopOrder, threadVars
<1>4. StepInv'
  BY <1>1, <1>3, SameBookWork
<1>5. UNCHANGED <<objects, order, qty, cancelled, queue, stop, pc, taker, index>>
  BY <1>3 DEF vars, bookVars, matchVars
<1>6. item = 0 /\ phase = "up" /\ loading = {} /\ ring \in Seq(Ref \cup {Dangling}) /\ Dangling \notin Ref
      /\ 0 \notin Ref /\ Ref \subseteq Nat
  BY <1>1, <1>3, BookAssumption DEF ItemInv, PhaseInv, PipeInv, Ref
<1>7. /\ 1 \in DOMAIN ring /\ ring[1] = r /\ r \in Ref \cup {Dangling} /\ ring' \in Seq(Ref \cup {Dangling})
      /\ \A i \in DOMAIN ring' : i + 1 \in DOMAIN ring /\ ring'[i] = ring[i + 1] /\ 1 < i + 1
      /\ \A j \in DOMAIN ring : 1 < j => j - 1 \in DOMAIN ring' /\ ring'[j - 1] = ring[j]
      /\ DOMAIN ring \subseteq Nat \ {0} /\ DOMAIN ring' \subseteq Nat
  BY <1>2, <1>3, <1>6, Popped
<1>8. \A i \in DOMAIN ring' : \E j \in DOMAIN ring : ring'[i] = ring[j] /\ 1 < j
  BY <1>7
<1>9. PipeInv'
  <2> SUFFICES ASSUME NEW i \in DOMAIN ring', ring'[i] # Dangling
               PROVE  /\ order[ring'[i]].id # 0
                      /\ \A j \in DOMAIN ring' :
                            i < j /\ ring'[j] # Dangling /\ order[ring'[i]].id = order[ring'[j]].id
                            => ring'[i] <= ring'[j]
                      /\ \A y \in Ref : order[ring'[i]].id = order[y].id /\ ring'[i] < y
                            => \E j \in DOMAIN ring' : i < j /\ ring'[j] = y
    BY <1>5, <1>7 DEF PipeInv, SameId, Known
  <2>1. i + 1 \in DOMAIN ring /\ ring[i + 1] = ring'[i]
    BY <1>7
  <2>2. order[ring'[i]].id # 0
    BY <1>1, <2>1 DEF PipeInv, Known
  <2>3. ASSUME NEW j \in DOMAIN ring', i < j, ring'[j] # Dangling, order[ring'[i]].id = order[ring'[j]].id
        PROVE  ring'[i] <= ring'[j]
    <3>1. j + 1 \in DOMAIN ring /\ ring[j + 1] = ring'[j] /\ i + 1 < j + 1
      BY <1>7, <2>3
    <3> QED
      BY <1>1, <2>1, <2>3, <3>1 DEF PipeInv, SameId
  <2>4. ASSUME NEW y \in Ref, order[ring'[i]].id = order[y].id, ring'[i] < y
        PROVE  \E j \in DOMAIN ring' : i < j /\ ring'[j] = y
    <3>1. PICK j \in DOMAIN ring : i + 1 < j /\ ring[j] = y
      BY <1>1, <2>1, <2>4 DEF PipeInv, SameId
    <3>2. 1 < j /\ i < j - 1
      BY <1>7, <3>1
    <3>3. j - 1 \in DOMAIN ring' /\ ring'[j - 1] = y
      BY <1>7, <3>1, <3>2
    <3> QED
      BY <3>2, <3>3
  <2> QED
    BY <2>2, <2>3, <2>4
<1>10. r # Dangling =>
        /\ r \in Ref /\ Known(r)
        /\ \A j \in DOMAIN ring' : ring'[j] # Dangling /\ SameId(r, ring'[j]) => r <= ring'[j]
        /\ \A y \in Ref : SameId(r, y) /\ r < y => \E j \in DOMAIN ring' : ring'[j] = y
  <2> SUFFICES ASSUME r # Dangling
               PROVE  /\ r \in Ref /\ Known(r)
                      /\ \A j \in DOMAIN ring' : ring'[j] # Dangling /\ SameId(r, ring'[j]) => r <= ring'[j]
                      /\ \A y \in Ref : SameId(r, y) /\ r < y => \E j \in DOMAIN ring' : ring'[j] = y
    OBVIOUS
  <2>1. r \in Ref /\ Known(r)
    BY <1>1, <1>7 DEF PipeInv
  <2>2. ASSUME NEW j \in DOMAIN ring', ring'[j] # Dangling, SameId(r, ring'[j])
        PROVE  r <= ring'[j]
    BY <1>1, <1>7, <2>2 DEF PipeInv
  <2>3. ASSUME NEW y \in Ref, SameId(r, y), r < y
        PROVE  \E j \in DOMAIN ring' : ring'[j] = y
    <3>1. PICK j \in DOMAIN ring : 1 < j /\ ring[j] = y
      BY <1>1, <1>7, <2>3 DEF PipeInv
    <3> QED
      BY <1>7, <3>1
  <2> QED
    BY <2>1, <2>2, <2>3
<1>11. ItemInv'
  <2>1. CASE r = Dangling
    BY <1>3, <1>6, <2>1 DEF ItemInv
  <2>2. CASE r # Dangling
    BY <1>3, <1>5, <1>10, <2>2 DEF ItemInv, SameId, Known, Finished
  <2> QED
    BY <2>1, <2>2
<1>12. DbInv'
  <2> SUFFICES ASSUME NEW id \in Ref, db[id] # NoEntry
               PROVE  StoredWell(id)'
    BY <1>1, <1>3 DEF DbInv
  <2>1. StoredWell(id)
    BY <1>1 DEF DbInv
  <2>2. \A j \in DOMAIN ring' : ring'[j] # Dangling /\ order[ring'[j]].id = id => db[id].object <= ring'[j]
    BY <1>8, <2>1 DEF StoredWell
  <2>3. rpc' # "poll" /\ order[item'].id = id => db[id].object <= item'
    BY <1>3, <1>7, <2>1 DEF StoredWell
  <2> QED
    BY <1>3, <1>5, <2>1, <2>2, <2>3 DEF StoredWell, Known, Lawful
<1>13. PhaseInv'
  BY <1>3, <1>6 DEF PhaseInv
<1>14. HeldInv'
  <2>1. ASSUME NEW x \in Ref
        PROVE  Pending(x)' <=> Pending(x)
    <3>1. (\E i \in DOMAIN ring' : ring'[i] = x) => \E j \in DOMAIN ring : ring[j] = x
      BY <1>8
    <3>2. ASSUME NEW j \in DOMAIN ring, ring[j] = x
          PROVE  x = r \/ \E i \in DOMAIN ring' : ring'[i] = x
      <4>1. j = 1 \/ 1 < j
        BY <1>7
      <4> QED
        BY <1>7, <3>2, <4>1
    <3> QED
      BY <1>3, <1>6, <1>7, <3>1, <3>2 DEF Pending
  <2>2. \A x \in Ref : Keeps(x)' <=> Keeps(x)
    BY <1>5 DEF Keeps, InBook, Linked, Busy
  <2> QED
    BY <1>1, <1>3, <1>5, <2>1, <2>2 DEF HeldInv, Known
<1> QED
  BY <1>4, <1>9, <1>11, <1>12, <1>13, <1>14 DEF DurableInv

(* save, first half: the archive. *)
LEMMA SerializeStep ==
    ASSUME DurableInv, Serialize
    PROVE  DurableInv'
<1>1. StepInv /\ PipeInv /\ ItemInv /\ DbInv /\ PhaseInv /\ HeldInv
  BY DEF DurableInv
<1>2. PICK ps \in ParamsRead(item) : text' = Serialized(item, ps)
  BY DEF Serialize
<1>3. rpc = "save" /\ rpc' = "put" /\ UNCHANGED <<vars, ring, item, db, failed, phase, loading>>
  BY DEF Serialize
<1>4. StepInv'
  BY <1>1, <1>3, SameBookWork
<1>5. UNCHANGED <<objects, order, qty, cancelled, queue, stop, pc, taker, index>>
  BY <1>3 DEF vars, bookVars, matchVars
<1>6. item \in Ref /\ order \in [Ref -> OrderRecord] /\ qty \in [Ref -> Int]
  BY <1>1, <1>3 DEF ItemInv, StepInv, CoreInv
<1>7. /\ text'.object = item /\ text'.qty = qty[item]
      /\ text'.fields = [order[item] EXCEPT !.stop_price = 0]
  BY <1>2 DEF Serialized
<1>8. PICK o \in OrderRecord : o = order[item]
  BY <1>6
<1>9. [o EXCEPT !.stop_price = 0] \in OrderRecord /\ [o EXCEPT !.stop_price = 0].id = o.id
      /\ [o EXCEPT !.stop_price = 0].price = o.price /\ [o EXCEPT !.stop_price = 0].qty = o.qty
  BY DEF OrderRecord
<1>10. /\ text'.fields \in OrderRecord /\ text'.fields.id = order[item].id
       /\ text'.fields.price = order[item].price /\ text'.fields.qty = order[item].qty
       /\ text'.qty \in Int /\ text'.qty >= qty[item]
       /\ text'.fields.qty >= 0 => text'.qty >= 0
  <2>1. qty[item] \in Int /\ (order[item].qty >= 0 => qty[item] >= 0)
    BY <1>1, <1>3, <1>6 DEF ItemInv, StepInv, KnownInv
  <2> QED
    BY <1>7, <1>8, <1>9, <2>1
<1>11. PipeInv' /\ HeldInv'
  BY <1>1, <1>3, <1>5 DEF PipeInv, HeldInv, SameId, Known, Pending, Keeps, InBook, Linked, Busy
<1>12. ItemInv'
  BY <1>1, <1>3, <1>5, <1>7, <1>10 DEF ItemInv, SameId, Known
<1>13. DbInv'
  BY <1>1, <1>3, <1>5 DEF DbInv, StoredWell, Known, Lawful
<1>14. PhaseInv'
  BY <1>1, <1>3, <1>5 DEF PhaseInv
<1> QED
  BY <1>4, <1>11, <1>12, <1>13, <1>14 DEF DurableInv

(* The id under which the thread writes. *)
LEMMA KeyFacts ==
    ASSUME DurableInv, rpc # "poll"
    PROVE  /\ item \in Ref /\ Known(item) /\ order[item].id \in Ref /\ item <= objects
           /\ order[item].id <= objects /\ order[item].price \in Price
           /\ phase = "up" /\ loading = {}
<1>1. item \in Ref /\ Known(item)
  BY DEF DurableInv, ItemInv
<1>2. /\ item <= objects /\ order[item].id <= objects /\ order[item].price \in Price
      /\ objects \in 0 .. MaxOrders /\ order[item] \in OrderRecord
  BY <1>1 DEF DurableInv, StepInv, KnownInv, CoreInv
<1>3. order[item].id \in Nat /\ order[item].id # 0
  BY <1>1, <1>2 DEF OrderRecord, Known
<1>4. order[item].id \in Ref
  BY <1>2, <1>3, BookAssumption DEF Ref
<1> QED
  BY <1>1, <1>2, <1>4 DEF DurableInv, PhaseInv

(* Of the objects with the id of the thread's item, the earlier ones are    *)
(* cancelled and the later ones on their way.                               *)
LEMMA ItemIsLatest ==
    ASSUME DurableInv, rpc # "poll", NEW x \in Ref, SameId(x, item), x # item
    PROVE  x \in cancelled \/ \E j \in DOMAIN ring : ring[j] = x
<1>1. item \in Ref /\ Known(item) /\ Ref \subseteq Nat
  BY KeyFacts, BookAssumption DEF Ref
<1>2. CASE x < item
  <2>1. Known(x) /\ order[x].id = order[item].id
    BY <1>1 DEF SameId, Known
  <2> QED
    BY <1>1, <1>2, <2>1 DEF DurableInv, StepInv, ModifiedInv
<1>3. CASE item < x
  <2>1. SameId(item, x)
    BY DEF SameId
  <2> QED
    BY <1>3, <2>1 DEF DurableInv, ItemInv
<1> QED
  BY <1>1, <1>2, <1>3

(* Put or Delete, applied or not. *)
LEMMA WriteStep ==
    ASSUME DurableInv, TextInv, SaveOrder \/ RemoveOrder
    PROVE  DurableInv'
<1>1. StepInv /\ PipeInv /\ ItemInv /\ DbInv /\ PhaseInv /\ HeldInv
  BY DEF DurableInv
<1>2. /\ rpc \in {"put", "remove"} /\ rpc' = "poll" /\ item' = 0
      /\ UNCHANGED <<vars, ring, phase, loading>>
  BY DEF SaveOrder, RemoveOrder, Poll
<1>3. PICK id \in Ref : id = order[item].id
  BY <1>2, KeyFacts
<1>4. \/ /\ db' = [db EXCEPT ![id] = text] /\ failed' = failed \ {id} /\ rpc = "put"
      \/ /\ db' = [db EXCEPT ![id] = NoEntry] /\ failed' = failed \ {id} /\ rpc = "remove"
      \/ /\ UNCHANGED db /\ failed' = failed \cup {id}
  BY <1>3 DEF SaveOrder, RemoveOrder, Write
<1>5. UNCHANGED <<objects, order, qty, cancelled, queue, stop, pc, taker, index>>
  BY <1>2 DEF vars, bookVars, matchVars
<1>6. StepInv'
  BY <1>1, <1>2, SameBookWork
<1>7. /\ item \in Ref /\ Known(item) /\ item <= objects /\ id <= objects /\ order[item].price \in Price
      /\ phase = "up" /\ loading = {} /\ 0 \notin Ref
  BY <1>2, <1>3, KeyFacts, BookAssumption DEF Ref
<1>8. PipeInv' /\ ItemInv' /\ PhaseInv'
  BY <1>1, <1>2, <1>5, <1>7 DEF PipeInv, ItemInv, PhaseInv, SameId, Known
<1>9. db \in [Ref -> Entry \cup {NoEntry}] /\ (rpc = "put" => text \in Entry) /\ NoEntry \notin Entry
  BY RepositoryAssumption DEF TextInv
<1>10. DOMAIN db' = Ref /\ \A k \in Ref : k # id => db'[k] = db[k]
  BY <1>4, <1>9
<1>11. \/ db'[id] = NoEntry
       \/ db'[id] = db[id]
       \/ db'[id] = text /\ rpc = "put"
  BY <1>4, <1>9
<1>12. DbInv'
  <2> SUFFICES ASSUME NEW k \in Ref, db'[k] # NoEntry
               PROVE  StoredWell(k)'
    BY <1>10 DEF DbInv
  <2>1. CASE db'[k] = db[k]
    <3>1. StoredWell(k)
      BY <1>1, <2>1 DEF DbInv
    <3>2. \A m \in Ref : db'[m] # NoEntry /\ db'[m].object = db[k].object => m = k
      <4> SUFFICES ASSUME NEW m \in Ref, db'[m] # NoEntry, db'[m].object = db[k].object
                   PROVE  m = k
        OBVIOUS
      <4>1. CASE db'[m] = db[m]
        BY <3>1, <4>1 DEF StoredWell
      <4>2. CASE db'[m] = text /\ m = id /\ rpc = "put"
        BY <1>1, <1>3, <1>7, <3>1, <4>2 DEF StoredWell, ItemInv
      <4> QED
        BY <1>10, <1>11, <4>1, <4>2
    <3> QED
      BY <1>2, <1>5, <2>1, <3>1, <3>2 DEF StoredWell, Known, Lawful
  <2>2. CASE k = id /\ db'[k] = text /\ rpc = "put"
    <3>1. /\ text.object = item /\ text.fields \in OrderRecord /\ text.fields.id = id
          /\ text.fields.price \in Price /\ text.qty \in Int /\ (Lawful => text.qty >= qty[item])
          /\ text.fields.qty >= 0 => text.qty >= 0
      BY <1>1, <1>3, <1>7, <2>2 DEF ItemInv
    <3>2. \A m \in Ref : db'[m] # NoEntry /\ db'[m].object = item => m = id
      <4> SUFFICES ASSUME NEW m \in Ref, m # id, db'[m] # NoEntry, db'[m].object = item
                   PROVE  FALSE
        OBVIOUS
      <4>1. db'[m] = db[m] /\ StoredWell(m)
        BY <1>1, <1>10 DEF DbInv
      <4> QED
        BY <1>3, <1>7, <4>1 DEF StoredWell
    <3>3. \A j \in DOMAIN ring : ring[j] # Dangling /\ order[ring[j]].id = id => item <= ring[j]
      BY <1>1, <1>3, <2>2 DEF ItemInv, SameId
    <3> QED
      BY <1>2, <1>3, <1>5, <1>7, <2>2, <3>1, <3>2, <3>3 DEF StoredWell, Known, Lawful
  <2> QED
    BY <1>10, <1>11, <2>1, <2>2
<1>13. HeldInv'
  <2> SUFFICES ASSUME NEW x \in Ref, Known(x), Keeps(x), x \notin cancelled, qty[x] # 0
               PROVE  \/ Pending(x)'
                      \/ order[x].id \in failed'
                      \/ db'[order[x].id] # NoEntry /\ db'[order[x].id].object = x
    BY <1>5 DEF HeldInv, Known, Keeps, InBook, Linked, Busy
  <2>1. \/ Pending(x)
        \/ order[x].id \in failed
        \/ db[order[x].id] # NoEntry /\ db[order[x].id].object = x
    BY <1>1 DEF HeldInv
  <2>2. Pending(x)' <=> \E j \in DOMAIN ring : ring[j] = x
    BY <1>2, <1>7 DEF Pending
  <2>3. Pending(x)' => Pending(x)
    BY <2>2 DEF Pending
  <2>4. CASE x = item
    <3>1. rpc # "remove"
      BY <1>1, <2>4 DEF ItemInv, Finished
    <3>2. db'[id] = text \/ id \in failed'
      BY <1>4, <1>9, <3>1
    <3>3. text \in Entry /\ text.object = item
      BY <1>1, <1>2, <1>9, <3>1 DEF ItemInv
    <3> QED
      BY <1>3, <1>9, <2>1, <2>3, <2>4, <3>2, <3>3
  <2>5. CASE x # item /\ order[x].id = id
    <3>1. SameId(x, item)
      BY <1>3, <2>5 DEF SameId
    <3>2. \E j \in DOMAIN ring : ring[j] = x
      BY <1>2, <2>5, <3>1, ItemIsLatest
    <3> QED
      BY <2>1, <2>2, <2>3, <3>2
  <2>6. CASE x # item /\ order[x].id # id
    <3>1. Pending(x) => Pending(x)'
      BY <2>2, <2>6 DEF Pending
    <3>2. order[x].id \in failed <=> order[x].id \in failed'
      BY <1>4, <2>6
    <3>3. order[x].id \in Ref => db'[order[x].id] = db[order[x].id]
      BY <1>10, <2>6
    <3>4. order[x].id \in Ref
      <4>1. order[x].id <= objects /\ objects \in 0 .. MaxOrders /\ order[x] \in OrderRecord
        BY <1>1 DEF StepInv, KnownInv, CoreInv
      <4>2. order[x].id \in Nat /\ order[x].id # 0
        BY <4>1 DEF OrderRecord, Known
      <4> QED
        BY <4>1, <4>2, BookAssumption DEF Ref
    <3> QED
      BY <2>1, <2>3, <3>1, <3>2, <3>3, <3>4
  <2> QED
    BY <2>4, <2>5, <2>6
<1> QED
  BY <1>6, <1>8, <1>12, <1>13 DEF DurableInv

-----------------------------------------------------------------------------
(* Restart and reload *)

(* A book without orders. *)
Empty ==
    /\ objects \in 0 .. MaxOrders /\ clock \in Nat
    /\ order = [r \in Ref |-> BlankOrder] /\ qty = [r \in Ref |-> 0]
    /\ parent = [r \in Ref |-> NoLimit] /\ tree = [s \in Side |-> [p \in Price |-> NoLimit]]
    /\ queue = [l \in Limit |-> << >>] /\ index = [r \in Ref |-> 0]
    /\ stop = [s \in Side |-> {}] /\ date = {} /\ pc = "idle" /\ walk = << >> /\ outbox = << >>

(* It is a good beginning. *)
LEMMA EmptyBook == Empty => StepInv
<1> SUFFICES ASSUME Empty
             PROVE  StepInv
  OBVIOUS
<1> USE DEF Empty
<1>1. BlankOrder \in OrderRecord /\ BlankOrder.id = 0
  BY DEF BlankOrder, OrderRecord, Side
<1>2. << >> \in Seq(Ref) /\ << >> \in Seq(Ref \cup {Dangling})
  OBVIOUS
<1>3. CoreInv
  BY <1>1, <1>2 DEF CoreInv
<1>4. KnownInv /\ ModifiedInv
  BY <1>1 DEF KnownInv, ModifiedInv, Known
<1>5. QueueInv /\ OriginalInv /\ TakenInv
  BY DEF QueueInv, NoRepeat, OriginalInv, TakenInv, Busy
<1> QED
  BY <1>3, <1>4, <1>5 DEF StepInv

(* The process ends and starts again. *)
LEMMA RestartStep ==
    ASSUME DurableInv, Restart
    PROVE  DurableInv'
<1>1. DbInv /\ objects \in 0 .. MaxOrders /\ clock \in Nat
  BY DEF DurableInv, StepInv, CoreInv
<1>2. /\ UNCHANGED <<objects, clock, db>>
      /\ order' = [r \in Ref |-> BlankOrder] /\ index' = [r \in Ref |-> 0]
      /\ ring' = << >> /\ rpc' = "poll" /\ item' = 0 /\ pc' = "idle"
      /\ phase' = "load" /\ loading' = {id \in Ref : db[id] # NoEntry}
  BY DEF Restart, Poll
<1>3. StepInv'
  <2>1. Empty'
    BY <1>1 DEF Restart, Empty
  <2>2. Empty' => StepInv'
    BY EmptyBook, PTL
  <2> QED
    BY <2>1, <2>2
<1>4. \A r \in Ref : order'[r].id = 0
  BY <1>2 DEF BlankOrder
<1>5. \A id \in Ref : id # 0
  BY BookAssumption DEF Ref
<1>6. PipeInv' /\ ItemInv'
  BY <1>2 DEF PipeInv, ItemInv
<1>7. DbInv'
  <2> SUFFICES ASSUME NEW id \in Ref, db[id] # NoEntry
               PROVE  StoredWell(id)'
    BY <1>1, <1>2 DEF DbInv
  <2>1. StoredWell(id)
    BY <1>1 DEF DbInv
  <2> QED
    BY <1>2, <1>4, <2>1 DEF StoredWell, Known
<1>8. PhaseInv'
  BY <1>2, <1>4, <1>5 DEF PhaseInv
<1>9. HeldInv'
  BY <1>4 DEF HeldInv, Known
<1> QED
  BY <1>3, <1>6, <1>7, <1>8, <1>9 DEF DurableInv

(* One turn of the constructor's loop. *)
LEMMA LoadStep ==
    ASSUME DurableInv, NEW id \in Ref, LoadOrder(id)
    PROVE  DurableInv'
<1>1. StepInv /\ PipeInv /\ ItemInv /\ DbInv /\ PhaseInv /\ HeldInv
  BY DEF DurableInv
<1>2. CoreInv /\ KnownInv /\ QueueInv /\ ModifiedInv
  BY <1>1 DEF StepInv
<1>3. PICK e : e = db[id]
  OBVIOUS
<1>4. /\ phase = "load" /\ id \in loading
      /\ order' = [order EXCEPT ![e.object] = e.fields]
      /\ qty' = [qty EXCEPT ![e.object] = e.qty]
      /\ cancelled \subseteq cancelled' /\ loading' = loading \ {id}
      /\ UNCHANGED <<objects, clock, index, date, pc, walk, outbox, ring, rpc, item, text, db, failed, phase>>
      /\ \/ /\ stop' = [stop EXCEPT ![e.fields.side] = StopInsert(order', @, e.object)]
            /\ UNCHANGED <<parent, tree, queue>>
         \/ /\ AddLimitOrder(e.object, e.fields.side, e.qty, <<e.fields.side, e.fields.price>>, queue, volume)
            /\ UNCHANGED stop
  BY <1>3 DEF LoadOrder, NextToLoad, LoadedQty, bookVars, matchVars, threadVars
<1>5. /\ ring = << >> /\ rpc = "poll" /\ item = 0 /\ pc = "idle" /\ \A k \in Ref : index[k] = 0
      /\ db[id] # NoEntry /\ \A x \in Ref : order[x].id # id
  BY <1>1, <1>4 DEF PhaseInv, ItemInv
<1>6. StoredWell(id)
  BY <1>1, <1>5 DEF DbInv
<1>7. PICK r \in Ref : r = e.object
  BY <1>3, <1>6 DEF StoredWell
<1>8. /\ r <= objects /\ id <= objects /\ e.fields \in OrderRecord /\ e.fields.id = id
      /\ e.fields.price \in Price /\ e.qty \in Int /\ ~Known(r)
      /\ e.fields.qty >= 0 => e.qty >= 0
      /\ \A k \in Ref : db[k] # NoEntry /\ db[k].object = r => k = id
  BY <1>3, <1>4, <1>6, <1>7 DEF StoredWell
<1>9. PICK s \in Side : s = e.fields.side
  BY <1>8 DEF OrderRecord
<1>10. /\ parent[r] = NoLimit /\ \A t \in Side : r \notin stop[t]
       /\ \A k \in Limit : \A j \in DOMAIN queue[k] : queue[k][j] # r
  BY <1>2, <1>8, BookAssumption DEF KnownInv, QueueInv
<1>11. /\ order' \in [Ref -> OrderRecord] /\ qty' \in [Ref -> Int]
       /\ order'[r] = e.fields /\ order'[r].id = id /\ qty'[r] = e.qty
       /\ \A x \in Ref : x # r => order'[x] = order[x] /\ qty'[x] = qty[x]
  BY <1>2, <1>4, <1>7, <1>8 DEF CoreInv
<1>12. /\ parent' \in [Ref -> Limit \cup {NoLimit}]
       /\ tree' \in [Side -> [Price -> Limit \cup {NoLimit}]]
       /\ queue' \in [Limit -> Seq(Ref)] /\ stop' \in [Side -> SUBSET Ref]
       /\ QueueInv'
       /\ \A x \in Ref : x # r => parent'[x] = parent[x]
       /\ \A t \in Side : \A x \in stop'[t] : x \in stop[t] \/ (x = r /\ parent'[r] = NoLimit)
       /\ \A k \in Limit : \A i \in DOMAIN queue'[k] :
              queue'[k][i] = r \/ \E j \in DOMAIN queue[k] : queue[k][j] = queue'[k][i]
  <2>1. CASE /\ stop' = [stop EXCEPT ![s] = StopInsert(order', @, r)]
             /\ UNCHANGED <<parent, tree, queue>>
    <3>1. /\ stop' \in [Side -> SUBSET Ref]
          /\ \A t \in Side : \A x \in stop'[t] : x \in stop[t] \/ x = r
      BY <1>2, <2>1 DEF StopInsert, CoreInv
    <3> QED
      BY <1>2, <1>10, <2>1, <3>1 DEF CoreInv, QueueInv
  <2>2. CASE /\ AddLimitOrder(r, s, e.qty, <<s, e.fields.price>>, queue, volume)
             /\ UNCHANGED stop
    <3>1. PICK l \in Limit : l = <<s, e.fields.price>>
      BY <1>8 DEF Limit
    <3>2. Outside(r, queue)
      BY <1>2, <1>10 DEF Outside, CoreInv, QueueInv
    <3>3. Placed(r, queue)
      BY <1>2, <2>2, <3>1, <3>2, AddQueue
    <3>4. /\ \E h \in Limit : parent' = [parent EXCEPT ![r] = h]
          /\ tree' \in [Side -> [Price -> Limit \cup {NoLimit}]]
          /\ queue' \in [Limit -> Seq(Ref)]
          /\ QueueInv'
          /\ \A k \in Limit : \A i \in DOMAIN queue'[k] :
                queue'[k][i] = r \/ \E j \in DOMAIN queue[k] : queue[k][j] = queue'[k][i]
      BY <3>3 DEF Placed
    <3>5. parent' \in [Ref -> Limit \cup {NoLimit}] /\ \A x \in Ref : x # r => parent'[x] = parent[x]
      <4>1. parent \in [Ref -> Limit \cup {NoLimit}]
        BY <1>2 DEF CoreInv
      <4> QED
        BY <3>4, <4>1
    <3>6. stop' \in [Side -> SUBSET Ref]
      BY <1>2, <2>2 DEF CoreInv
    <3> QED
      BY <2>2, <3>4, <3>5, <3>6
  <2> QED
    BY <1>4, <1>7, <1>9, <2>1, <2>2
<1>13. id # 0 /\ \A k \in Ref : k # 0
  BY BookAssumption DEF Ref
<1>14. StepInv'
  <2>1. CoreInv'
    BY <1>2, <1>4, <1>11, <1>12 DEF CoreInv
  <2>2. KnownInv'
    <3>1. ASSUME NEW x \in Ref
          PROVE  /\ order'[x].id # 0 =>
                     /\ x <= objects /\ order'[x].id <= objects
                     /\ order'[x].price \in Price
                     /\ order'[x].qty >= 0 => qty'[x] >= 0
                 /\ order'[x].id = 0 => parent'[x] = NoLimit
      <4>1. CASE x = r
        BY <1>8, <1>11, <1>13, <4>1
      <4>2. CASE x # r
        BY <1>2, <1>11, <1>12, <4>2 DEF KnownInv, Known
      <4> QED
        BY <4>1, <4>2
    <3>2. ASSUME NEW t \in Side, NEW x \in stop'[t]
          PROVE  order'[x].id # 0 /\ parent'[x] = NoLimit
      <4>1. CASE x = r /\ parent'[r] = NoLimit
        BY <1>11, <1>13, <4>1
      <4>2. CASE x \in stop[t]
        <5>1. x \in Ref /\ Known(x) /\ parent[x] = NoLimit /\ x # r
          BY <1>2, <1>10, <4>2 DEF KnownInv, CoreInv
        <5> QED
          BY <1>11, <1>12, <5>1 DEF Known
      <4> QED
        BY <1>12, <3>2, <4>1, <4>2
    <3>3. ASSUME NEW x \in date
          PROVE  order'[x].id # 0
      <4>1. x \in Ref /\ Known(x)
        BY <1>2 DEF KnownInv, CoreInv
      <4> QED
        BY <1>11, <1>13, <4>1 DEF Known
    <3>4. \A x \in Ref :
            /\ order'[x].id # 0 =>
                /\ x <= objects' /\ order'[x].id <= objects'
                /\ order'[x].price \in Price
                /\ order'[x].qty >= 0 => qty'[x] >= 0
            /\ order'[x].id = 0 => parent'[x] = NoLimit
      <4>1. objects' = objects
        BY <1>4
      <4> QED
        BY <3>1, <4>1
    <3>5. \A x \in date' : order'[x].id # 0
      BY <1>4, <3>3
    <3> QED
      BY <3>2, <3>4, <3>5 DEF KnownInv, Known
  <2>3. OriginalInv' /\ TakenInv'
    BY <1>4, <1>5 DEF OriginalInv, TakenInv, Busy
  <2>4. ModifiedInv'
    <3> SUFFICES ASSUME NEW x \in Ref, NEW y \in Ref, x < y, order'[x].id # 0, order'[x].id = order'[y].id
                 PROVE  x \in cancelled'
      BY DEF ModifiedInv, Known
    <3>1. x # y
      BY BookAssumption DEF Ref
    <3>2. x # r /\ y # r
      BY <1>5, <1>11, <3>1
    <3> QED
      BY <1>2, <1>4, <1>11, <3>2 DEF ModifiedInv, Known
  <2> QED
    BY <1>12, <2>1, <2>2, <2>3, <2>4 DEF StepInv
<1>15. PipeInv' /\ ItemInv'
  BY <1>4, <1>5 DEF PipeInv, ItemInv
<1>16. DbInv'
  <2> SUFFICES ASSUME NEW k \in Ref, db[k] # NoEntry
               PROVE  StoredWell(k)'
    BY <1>1, <1>4 DEF DbInv
  <2>1. StoredWell(k)
    BY <1>1 DEF DbInv
  <2>l. Lawful' => Lawful
    BY <1>8, <1>11 DEF Lawful, Known
  <2>2. CASE k = id
    <3>1. k \notin loading' /\ order'[db[k].object].id = k /\ db[k].qty >= qty'[db[k].object]
      BY <1>3, <1>4, <1>7, <1>8, <1>11, <2>2
    <3> QED
      BY <1>4, <1>5, <2>1, <3>1 DEF StoredWell
  <2>3. CASE k # id
    <3>1. db[k].object # r /\ (k \in loading' <=> k \in loading)
      BY <1>4, <1>8, <2>3
    <3>2. order'[db[k].object] = order[db[k].object] /\ qty'[db[k].object] = qty[db[k].object]
      BY <1>11, <2>1, <3>1 DEF StoredWell
    <3> QED
      BY <1>4, <1>5, <2>1, <2>l, <3>1, <3>2 DEF StoredWell, Known
  <2> QED
    BY <2>2, <2>3
<1>17. PhaseInv'
  <2> SUFFICES ASSUME NEW k \in loading', NEW x \in Ref
               PROVE  k \in Ref /\ db[k] # NoEntry /\ order'[x].id # k
    BY <1>4, <1>5 DEF PhaseInv
  <2>1. k \in loading /\ k # id
    BY <1>4
  <2> QED
    BY <1>1, <1>11, <2>1 DEF PhaseInv
<1>18. HeldInv'
  <2> SUFFICES ASSUME NEW x \in Ref, order'[x].id # 0, Keeps(x)', x \notin cancelled', qty'[x] # 0
               PROVE  /\ ~Pending(x)'
                      /\ \/ order'[x].id \in failed
                         \/ db[order'[x].id] # NoEntry /\ db[order'[x].id].object = x
    BY <1>4 DEF HeldInv, Known
  <2>1. ~Pending(x)' /\ ~Pending(x)
    BY <1>4, <1>5, <1>13 DEF Pending
  <2>2. CASE x = r
    BY <1>3, <1>5, <1>7, <1>11, <2>1, <2>2
  <2>3. CASE x # r
    <3>1. InBook(x)'
      BY <1>4, <1>5 DEF Keeps, Busy
    <3>2. InBook(x)
      <4>1. CASE x \in stop'["BUY"] \cup stop'["SELL"]
        BY <1>12, <2>3, <4>1 DEF InBook, Side
      <4>2. ASSUME NEW k \in Limit, NEW j \in DOMAIN queue'[k], queue'[k][j] = x
            PROVE  InBook(x)
        BY <1>12, <2>3, <4>2 DEF InBook, Linked
      <4> QED
        BY <3>1, <4>1, <4>2 DEF InBook, Linked
    <3>3. Known(x) /\ x \notin cancelled /\ order'[x] = order[x] /\ qty[x] # 0
      BY <1>4, <1>11, <2>3 DEF Known
    <3> QED
      BY <1>1, <2>1, <3>2, <3>3 DEF HeldInv, Keeps
  <2> QED
    BY <2>2, <2>3
<1> QED
  BY <1>14, <1>15, <1>16, <1>17, <1>18 DEF DurableInv

-----------------------------------------------------------------------------
(* The theorems *)

(* The worker gives orders no parameters but those requests may carry. *)
LEMMA ParamsKept ==
    ASSUME params \in [Ref -> SUBSET Param], Submit \/ Match \/ Expire
    PROVE  params' \in [Ref -> SUBSET Param]
<1>1. ASSUME NEW req \in Request
      PROVE  req.params \in SUBSET Param
  BY BookAssumption DEF OrderRequest
<1>2. {"IOC"} \in SUBSET Param
  BY DEF Param
<1>3. ASSUME NEW n, NEW ps \in SUBSET Param, params' = [params EXCEPT ![n] = ps]
      PROVE  params' \in [Ref -> SUBSET Param]
  BY <1>3
<1>4. ASSUME NEW req \in Request, AddStopOrder(req)
      PROVE  params' \in [Ref -> SUBSET Param]
  BY <1>1, <1>3, <1>4 DEF AddStopOrder
<1>5. ASSUME NEW req \in Request, AddOrder(req)
      PROVE  params' \in [Ref -> SUBSET Param]
  <2>1. PICK ps \in SUBSET Param :
            ps = IF "STOP" \in req.params /\ req.type = "MARKET" THEN {"IOC"} ELSE req.params
    BY <1>1, <1>2
  <2>2. params' = [params EXCEPT ![objects + 1] = ps]
    BY <1>5, <2>1 DEF AddOrder
  <2> QED
    BY <1>3, <2>2
<1>6. ASSUME NEW id \in Ref, NEW req \in Request, ModifyOrder(id, req)
      PROVE  params' \in [Ref -> SUBSET Param]
  BY <1>1, <1>3, <1>6 DEF ModifyOrder
<1>7. ASSUME UNCHANGED params
      PROVE  params' \in [Ref -> SUBSET Param]
  BY <1>7
<1>8. ASSUME NEW id \in Ref, CancelOrder(id) \/ ModifyNotFound(id)
      PROVE  UNCHANGED params
  BY <1>8 DEF CancelOrder, ModifyNotFound
<1>9. CheckDateOrders \/ Match \/ Expire => UNCHANGED params
  BY DEF CheckDateOrders, Match, MatchSkip, MatchEnter, KillOrder, RestOrder, ResolveOrders, LeaveLevel,
         Expire, ExpireOrder, ExpireDone
<1> QED
  BY <1>4, <1>5, <1>6, <1>7, <1>8, <1>9 DEF Submit

(* What is serialized is a value of the database. *)
LEMMA SerializedEntry ==
    ASSUME RepoInv, Serialize
    PROVE  text' \in Entry
<1>1. PICK ps \in ParamsRead(item) : text' = Serialized(item, ps)
  BY DEF Serialize
<1>2. item \in Ref /\ order[item] \in OrderRecord /\ qty[item] \in Int /\ params[item] \in SUBSET Param
  BY DEF Serialize, RepoInv, DurableInv, ItemInv, StepInv, CoreInv, TextInv
<1>3. ps \in SUBSET Param
  <2>1. \A req \in Request : req.params \in SUBSET Param
    BY BookAssumption DEF OrderRequest
  <2> QED
    BY <1>1, <1>2, <2>1 DEF ParamsRead
<1>4. [order[item] EXCEPT !.stop_price = 0] \in OrderRecord
  BY <1>2 DEF OrderRecord
<1>5. (item \in cancelled) \in BOOLEAN
  OBVIOUS
<1> QED
  BY <1>1, <1>2, <1>3, <1>4, <1>5 DEF Serialized, Entry

(* Every step keeps the types of what the thread reads and writes. *)
LEMMA TextStep ==
    ASSUME RepoInv, [RepoNext]_allVars
    PROVE  TextInv'
<1>1. TextInv /\ DurableInv
  BY DEF RepoInv
<1>2. CASE Serve \/ Work
  <2>1. UNCHANGED <<text, rpc, db, failed>>
    BY <1>2 DEF Serve, Work, threadVars
  <2>2. params' \in [Ref -> SUBSET Param]
    BY <1>1, <1>2, ParamsKept DEF TextInv, Serve, Work
  <2> QED
    BY <1>1, <2>1, <2>2 DEF TextInv
<1>3. CASE PopOrder
  <2>1. UNCHANGED <<params, text, db, failed>> /\ (rpc' = "put" => rpc = "put")
    BY <1>3 DEF PopOrder, vars, threadVars
  <2> QED
    BY <1>1, <2>1 DEF TextInv
<1>4. CASE Serialize
  <2>1. UNCHANGED <<params, db, failed>>
    BY <1>4 DEF Serialize, vars
  <2> QED
    BY <1>1, <1>4, <2>1, SerializedEntry DEF TextInv
<1>5. CASE SaveOrder \/ RemoveOrder
  <2>1. UNCHANGED params /\ rpc' = "poll" /\ text' = NoEntry /\ rpc # "poll"
    BY <1>5 DEF SaveOrder, RemoveOrder, Poll, vars
  <2>2. PICK id \in Ref : id = order[item].id
    BY <1>1, <2>1, KeyFacts
  <2>3. PICK e \in Entry \cup {NoEntry} :
            db' \in {db, [db EXCEPT ![id] = e]} /\ failed' \subseteq failed \cup {id}
    BY <1>1, <1>5, <2>2 DEF SaveOrder, RemoveOrder, Write, TextInv
  <2> QED
    BY <1>1, <2>1, <2>3 DEF TextInv
<1>6. CASE Restart
  <2>1. /\ params' = [r \in Ref |-> {}] /\ text' = NoEntry /\ rpc' = "poll" /\ UNCHANGED db
        /\ failed' = {}
    BY <1>6 DEF Restart, Poll
  <2> QED
    BY <1>1, <2>1 DEF TextInv
<1>7. ASSUME NEW id \in Ref, LoadOrder(id)
      PROVE  TextInv'
  <2>1. params' = [params EXCEPT ![db[id].object] = db[id].params] /\ UNCHANGED <<text, rpc, db, failed>>
    BY <1>7 DEF LoadOrder, threadVars
  <2>2. id \in loading
    BY <1>7 DEF LoadOrder, NextToLoad
  <2>3. db[id] \in Entry
    BY <1>1, <2>2 DEF TextInv, DurableInv, PhaseInv
  <2>4. db[id].params \in SUBSET Param
    BY <2>3 DEF Entry
  <2> QED
    BY <1>1, <2>1, <2>4 DEF TextInv
<1>8. CASE LoadDone
  <2>1. UNCHANGED <<params, text, rpc, db, failed>>
    BY <1>8 DEF LoadDone, vars, threadVars
  <2> QED
    BY <1>1, <2>1 DEF TextInv
<1>9. CASE UNCHANGED allVars
  <2>1. UNCHANGED <<params, text, rpc, db, failed>>
    BY <1>9 DEF allVars, vars, repoVars, threadVars
  <2> QED
    BY <1>1, <2>1 DEF TextInv
<1> QED
  BY <1>2, <1>3, <1>4, <1>5, <1>6, <1>7, <1>8, <1>9 DEF RepoNext, ProcessMessages, Load

(* The thread, the process and the clock stand still. *)
LEMMA QuietRepo ==
    ASSUME DurableInv, UNCHANGED <<vars, ring, rpc, item, text, db, failed, loading>>,
           phase' = phase \/ (phase' = "up" /\ loading = {})
    PROVE  DurableInv'
<1>1. StepInv /\ PipeInv /\ ItemInv /\ DbInv /\ PhaseInv /\ HeldInv
  BY DEF DurableInv
<1>2. StepInv'
  BY <1>1, SameBookWork
<1>3. UNCHANGED <<objects, order, qty, cancelled, queue, stop, pc, taker, index>>
  BY DEF vars, bookVars, matchVars
<1>4. PipeInv' /\ HeldInv'
  BY <1>1, <1>3 DEF PipeInv, HeldInv, SameId, Known, Pending, Keeps, InBook, Linked, Busy
<1>5. ItemInv'
  BY <1>1, <1>3 DEF ItemInv, SameId, Known, Finished, Lawful
<1>6. DbInv'
  BY <1>1, <1>3 DEF DbInv, StoredWell, Known, Lawful
<1>7. PhaseInv'
  BY <1>1, <1>3 DEF PhaseInv
<1> QED
  BY <1>2, <1>4, <1>5, <1>6, <1>7 DEF DurableInv

(* The empty book with an empty database satisfies the invariant. *)
LEMMA RepoInvInit == RepoInit => RepoInv
<1> SUFFICES ASSUME RepoInit
             PROVE  RepoInv
  OBVIOUS
<1> USE DEF RepoInit
<1>1. Empty
  BY BookAssumption DEF Init, Empty
<1>2. StepInv
  BY <1>1, EmptyBook
<1>3. ring \in Seq(Ref \cup {Dangling}) /\ ring = << >> /\ \A r \in Ref : order[r].id = 0
  BY DEF Init, BlankOrder
<1>4. PipeInv /\ ItemInv /\ PhaseInv
  BY <1>3 DEF PipeInv, ItemInv, PhaseInv
<1>5. DbInv /\ HeldInv
  BY <1>3 DEF DbInv, HeldInv, Known
<1>6. TextInv
  BY DEF TextInv, Init
<1> QED
  BY <1>2, <1>4, <1>5, <1>6 DEF RepoInv, DurableInv

(* Every step of the book, the thread and the process keeps the invariant. *)
LEMMA RepoInvStep ==
    ASSUME RepoInv, [RepoNext]_allVars
    PROVE  RepoInv'
<1>1. TextInv' /\ TextInv /\ DurableInv
  BY TextStep DEF RepoInv
<1>2. CASE Serve \/ Work
  BY <1>1, <1>2, WorkerStep DEF RepoInv
<1>3. CASE ProcessMessages
  BY <1>1, <1>3, PopStep, SerializeStep, WriteStep DEF ProcessMessages, RepoInv
<1>4. CASE Restart
  BY <1>1, <1>4, RestartStep DEF RepoInv
<1>5. ASSUME NEW id \in Ref, LoadOrder(id)
      PROVE  RepoInv'
  BY <1>1, <1>5, LoadStep DEF RepoInv
<1>6. CASE LoadDone \/ UNCHANGED allVars
  <2>1. /\ UNCHANGED <<vars, ring, rpc, item, text, db, failed, loading>>
        /\ phase' = phase \/ (phase' = "up" /\ loading = {})
    BY <1>6 DEF LoadDone, allVars, repoVars, threadVars
  <2> QED
    BY <1>1, <2>1, QuietRepo DEF RepoInv
<1> QED
  BY <1>2, <1>3, <1>4, <1>5, <1>6 DEF RepoNext, Load

(* RepoInv holds throughout, also while the constructor reloads the book. *)
THEOREM RepoInvariant == RepoSpec => []RepoInv
<1>1. RepoInv /\ [RepoNext]_allVars => RepoInv'
  BY RepoInvStep
<1> QED
  BY <1>1, RepoInvInit, PTL DEF RepoSpec

(* The variables of the repository keep their types. *)
THEOREM RepoTypes == RepoSpec => []RepoTypeOK
<1>1. RepoInv => RepoTypeOK
  <2> SUFFICES ASSUME RepoInv
               PROVE  RepoTypeOK
    OBVIOUS
  <2>1. TextInv /\ PipeInv /\ ItemInv /\ PhaseInv
    BY DEF RepoInv, DurableInv
  <2>2. item \in Ref \cup {0}
    BY <2>1 DEF ItemInv
  <2> QED
    BY <2>1, <2>2 DEF TextInv, PipeInv, ItemInv, PhaseInv, RepoTypeOK
<1> QED
  BY <1>1, RepoInvariant, PTL

(* While the book serves, save has stored no less of an order than what is  *)
(* left of it as long as no order is for a negative quantity, although the thread reads in the middle of a match.          *)
THEOREM RepoStoredCovers == RepoSpec => []StoredCovers
<1>1. RepoInv => StoredCovers
  <2> SUFFICES ASSUME RepoInv, NoneNegative
               PROVE  phase = "up" => \A id \in Ref :
                        db[id] # NoEntry => db[id].qty >= qty[db[id].object]
    BY DEF StoredCovers, GetOrder
  <2>1. Lawful
    BY BookAssumption DEF RepoInv, DurableInv, StepInv, KnownInv, CoreInv, Lawful, NoneNegative, Created, Ref
  <2> QED
    BY <2>1 DEF RepoInv, DurableInv, DbInv, PhaseInv, StoredWell
<1> QED
  BY <1>1, RepoInvariant, PTL

(* What the book holds and is neither cancelled nor for nothing is stored   *)
(* under its id, on its way there, or its last write has failed.            *)
THEOREM RepoNothingForgotten == RepoSpec => []NothingForgotten
<1>1. RepoInv => NothingForgotten
  <2> SUFFICES ASSUME RepoInv, NEW r \in Created, InBook(r), r \notin cancelled, qty[r] # 0,
                      ~Pending(r), order[r].id \notin failed
               PROVE  GetOrder(order[r].id) # NoEntry /\ GetOrder(order[r].id).object = r
    BY DEF NothingForgotten
  <2>1. CoreInv /\ KnownInv /\ QueueInv /\ HeldInv
    BY DEF RepoInv, DurableInv, StepInv
  <2>2. r \in Ref
    BY <2>1, BookAssumption DEF CoreInv, Created, Ref
  <2>3. Known(r)
    BY <2>1, <2>2, BookAssumption DEF KnownInv, QueueInv, InBook, Linked, Side
  <2> QED
    BY <2>1, <2>2, <2>3 DEF HeldInv, Keeps, GetOrder
<1> QED
  BY <1>1, RepoInvariant, PTL

(* remove deletes by id, but never an entry of an order that is still live. *)
THEOREM RepoDeletesFinished == RepoSpec => DeletesFinished
<1> DEFINE Deletes == \A id \in Ref : db[id] # NoEntry /\ db'[id] = NoEntry =>
                        db[id].object \in cancelled \/ qty[db[id].object] = 0
<1>1. RepoInv /\ [RepoNext]_allVars => [Deletes]_allVars
  <2> SUFFICES ASSUME RepoInv, RepoNext, NEW id \in Ref, db[id] # NoEntry, db'[id] = NoEntry
               PROVE  db[id].object \in cancelled \/ qty[db[id].object] = 0
    OBVIOUS
  <2>1. DurableInv /\ TextInv
    BY DEF RepoInv
  <2>2. SaveOrder \/ RemoveOrder
    <3>1. \A k \in Ref : LoadOrder(k) => UNCHANGED db
      BY DEF LoadOrder
    <3> QED
      BY <3>1 DEF RepoNext, Serve, Work, ProcessMessages, PopOrder, Serialize, Restart, Load, LoadDone
  <2>3. rpc # "poll"
    BY <2>2 DEF SaveOrder, RemoveOrder
  <2>4. PICK k \in Ref : k = order[item].id
    BY <2>1, <2>3, KeyFacts
  <2>5. RemoveOrder /\ id = k
    <3>1. db \in [Ref -> Entry \cup {NoEntry}] /\ (rpc = "put" => text \in Entry) /\ NoEntry \notin Entry
      BY <2>1, RepositoryAssumption DEF TextInv
    <3> QED
      BY <2>2, <2>4, <3>1 DEF SaveOrder, RemoveOrder, Write
  <2>6. StoredWell(id) /\ loading = {} /\ item \in Ref /\ Known(item)
    BY <2>1, <2>3, KeyFacts DEF DurableInv, DbInv
  <2>7. PICK o \in Ref : o = db[id].object /\ order[o].id = id /\ o <= item
    BY <2>3, <2>4, <2>5, <2>6 DEF StoredWell
  <2>8. CASE o = item
    BY <2>1, <2>5, <2>7, <2>8 DEF RemoveOrder, DurableInv, ItemInv, Finished
  <2>9. CASE o # item
    <3>1. o < item /\ Known(o)
      BY <2>4, <2>5, <2>6, <2>7, <2>9, BookAssumption DEF Ref, Known
    <3> QED
      BY <2>1, <2>4, <2>5, <2>6, <2>7, <3>1 DEF DurableInv, StepInv, ModifiedInv
  <2> QED
    BY <2>8, <2>9
<1>2. [][Deletes]_allVars <=> DeletesFinished
  BY DEF DeletesFinished
<1> QED
  BY <1>1, <1>2, RepoInvariant, PTL DEF RepoSpec

-----------------------------------------------------------------------------
(* The constructor rebuilds the levels *)

(* While the constructor adds the stored orders, every level is in the tree *)
(* under its own price or has no orders, and the keys still to come are     *)
(* behind those that were added.                                            *)
ReloadInv ==
    phase = "load" =>
        /\ \A l \in Limit : RebuiltExactly(l)
        /\ volume \in [Limit -> Int]
        /\ \A s \in Side, p \in Price :
              tree[s][p] = <<s, p>> \/ (tree[s][p] = NoLimit /\ queue[<<s, p>>] = << >>)
        /\ \A id \in Ref \ loading, k \in loading : db[id] # NoEntry => Rank(id) < Rank(k)

(* Every key has one place in the order of the keys. *)
LEMMA RankFacts ==
    /\ \A id \in Ref : Rank(id) \in Ref /\ IdOrder[Rank(id)] = id
    /\ \A i \in Ref : Rank(IdOrder[i]) = i
<1>1. IdOrder \in [Ref -> Ref] /\ \A id \in Ref : \E i \in Ref : IdOrder[i] = id
  BY RepositoryAssumption
<1>2. IsFiniteSet(Ref)
  BY BookAssumption, FS_Interval DEF Ref
<1>3. IdOrder \in Surjection(Ref, Ref)
  BY <1>1, Fun_IsSurj
<1>4. IdOrder \in Injection(Ref, Ref)
  BY <1>2, <1>3, FS_SurjSameCardinalityImpliesInj
<1>5. \A i, j \in Ref : IdOrder[i] = IdOrder[j] => i = j
  BY <1>4, Fun_InjectionProperties
<1>6. \A id \in Ref : Rank(id) \in Ref /\ IdOrder[Rank(id)] = id
  BY <1>1 DEF Rank
<1> QED
  BY <1>1, <1>5, <1>6

(* The key that is next stands before all others that are still to come. *)
LEMMA NextIsLeast ==
    ASSUME loading \subseteq Ref, NEW id \in Ref, NextToLoad(id)
    PROVE  id \in loading /\ \A k \in loading : k # id => Rank(id) < Rank(k)
<1>1. PICK i \in Ref : IdOrder[i] = id /\ id \in loading /\ \A j \in 1 .. i - 1 : IdOrder[j] \notin loading
  BY DEF NextToLoad
<1>2. Rank(id) = i
  BY <1>1, RankFacts
<1>3. ASSUME NEW k \in loading, k # id
      PROVE  i < Rank(k)
  <2>1. PICK j \in Ref : j = Rank(k) /\ IdOrder[j] = k
    BY <1>3, RankFacts
  <2>2. j # i /\ j \notin 1 .. i - 1
    BY <1>1, <1>3, <2>1
  <2> QED
    BY <2>1, <2>2, BookAssumption DEF Ref
<1> QED
  BY <1>1, <1>2, <1>3

(* A level to which the constructor adds nothing stays as it is. *)
LEMMA SameLevel ==
    ASSUME NEW l \in Limit, RebuiltExactly(l), Reloaded(l)' = Reloaded(l), UNCHANGED db,
           queue'[l] = queue[l], volume'[l] = volume[l],
           \A i \in DOMAIN queue[l] : order'[queue[l][i]] = order[queue[l][i]]
    PROVE  RebuiltExactly(l)'
<1>1. PICK R : R = Reloaded(l)
  OBVIOUS
<1>2. PICK d : d = db
  OBVIOUS
<1>3. SumOver([id \in Reloaded(l) |-> db[id].qty], Reloaded(l))' =
      SumOver([id \in Reloaded(l) |-> db[id].qty], Reloaded(l))
  BY <1>1, <1>2
<1>4. Orders(l)' = Orders(l)
  BY DEF Orders
<1> QED
  BY <1>1, <1>2, <1>3, <1>4 DEF RebuiltExactly

(* The level that the constructor adds the order r of the key id to. *)
LEMMA MoreLevel ==
    ASSUME NEW l \in Limit, RebuiltExactly(l), UNCHANGED db,
           NEW id \in Ref, id \notin Reloaded(l), Reloaded(l)' = Reloaded(l) \cup {id},
           queue[l] \in Seq(Ref), NEW r \in Ref, r = db[id].object,
           queue'[l] = Append(queue[l], r),
           db[id].qty \in Int, volume'[l] = volume[l] + db[id].qty,
           \A k \in Reloaded(l) : db[k].qty \in Int /\ Rank(k) < Rank(id),
           \A k \in Reloaded(l) : order[db[k].object].id = k,
           \A i \in DOMAIN queue[l] : order'[queue[l][i]] = order[queue[l][i]],
           order'[r].id = id
    PROVE  RebuiltExactly(l)'
<1>1. PICK R : R = Reloaded(l)
  OBVIOUS
<1>2. PICK s \in Seq(Ref) : s = queue[l]
  OBVIOUS
<1>3. IsFiniteSet(R) /\ R \subseteq Ref
  <2>1. IsFiniteSet(Ref)
    BY BookAssumption, FS_Interval DEF Ref
  <2>2. R \subseteq Ref
    BY <1>1 DEF Reloaded
  <2> QED
    BY <2>1, <2>2, FS_Subset
<1>4. PICK t \in Seq(Ref) :
        /\ t = queue'[l] /\ Len(s) \in Nat
        /\ DOMAIN s = 1 .. Len(s) /\ DOMAIN t = 1 .. Len(s) + 1
        /\ t[Len(s) + 1] = r /\ \A i \in DOMAIN s : t[i] = s[i]
  <2> DEFINE u == Append(s, r)
  <2>1. /\ u \in Seq(Ref) /\ Len(s) \in Nat
        /\ DOMAIN s = 1 .. Len(s) /\ DOMAIN u = 1 .. Len(s) + 1
        /\ u[Len(s) + 1] = r /\ \A i \in DOMAIN s : u[i] = s[i]
    OBVIOUS
  <2>2. u = queue'[l]
    BY <1>2
  <2> HIDE DEF u
  <2> QED
    BY <2>1, <2>2
<1>5. /\ \A i \in DOMAIN s : i \in DOMAIN t
      /\ \A i \in DOMAIN t : i \in DOMAIN s \/ i = Len(s) + 1
      /\ Len(s) + 1 \in DOMAIN t
  BY <1>4
<1>6. {s[i] : i \in DOMAIN s} = {db[k].object : k \in R}
  BY <1>1, <1>2 DEF RebuiltExactly, Orders
<1>7. Orders(l)' = {db[k].object : k \in Reloaded(l)}'
  <2>1. {t[i] : i \in DOMAIN t} = {s[i] : i \in DOMAIN s} \cup {r}
    <3>1. \A i \in DOMAIN t : t[i] \in {s[j] : j \in DOMAIN s} \cup {r}
      BY <1>4, <1>5
    <3>2. \A i \in DOMAIN s : s[i] \in {t[j] : j \in DOMAIN t}
      BY <1>4, <1>5
    <3>3. r \in {t[j] : j \in DOMAIN t}
      BY <1>4, <1>5
    <3> QED
      BY <3>1, <3>2, <3>3
  <2>2. {db[k].object : k \in R \cup {id}} = {db[k].object : k \in R} \cup {r}
    OBVIOUS
  <2>3. {db[k].object : k \in Reloaded(l)}' = {db[k].object : k \in R \cup {id}}
    BY <1>1
  <2>4. Orders(l)' = {t[i] : i \in DOMAIN t}
    BY <1>4 DEF Orders
  <2> QED
    BY <1>6, <2>1, <2>2, <2>3, <2>4
<1>8. ASSUME NEW i \in DOMAIN t, NEW j \in DOMAIN t, i < j
      PROVE  Rank(order'[t[i]].id) < Rank(order'[t[j]].id)
  <2>1. i \in DOMAIN s /\ t[i] = s[i] /\ order'[t[i]] = order[s[i]]
    BY <1>2, <1>4, <1>5, <1>8
  <2>2. CASE j \in DOMAIN s
    <3>1. t[j] = s[j] /\ order'[t[j]] = order[s[j]]
      BY <1>2, <1>4, <2>2
    <3> QED
      BY <1>2, <1>8, <2>1, <2>2, <3>1 DEF RebuiltExactly
  <2>3. CASE j = Len(s) + 1
    <3>1. PICK k \in R : s[i] = db[k].object
      BY <1>6, <2>1
    <3> QED
      BY <1>1, <1>4, <2>1, <2>3, <3>1
  <2> QED
    BY <1>5, <2>2, <2>3
<1>9. volume'[l] = SumOver([k \in Reloaded(l) |-> db[k].qty], Reloaded(l))'
  <2>1. PICK f : f = [k \in R |-> db[k].qty]
    OBVIOUS
  <2>2. PICK g : g = [k \in R \cup {id} |-> db[k].qty]
    OBVIOUS
  <2>3. g[id] = db[id].qty /\ g[id] \in Int /\ id \notin R
    BY <1>1, <2>2
  <2>4. \A k \in R : f[k] \in Int /\ g[k] = f[k]
    BY <1>1, <2>1, <2>2
  <2>5. SumOver(g, R \cup {id}) = SumOver(f, R) + g[id]
    BY <1>3, <2>3, <2>4, SumInsert
  <2>6. volume[l] = SumOver(f, R)
    BY <1>1, <2>1 DEF RebuiltExactly
  <2>7. SumOver([k \in Reloaded(l) |-> db[k].qty], Reloaded(l))' = SumOver(g, R \cup {id})
    BY <1>1, <2>2
  <2> QED
    BY <2>3, <2>5, <2>6, <2>7
<1> QED
  BY <1>4, <1>7, <1>8, <1>9 DEF RebuiltExactly

(* One turn of the constructor's loop keeps ReloadInv. *)
LEMMA ReloadTurn ==
    ASSUME DurableInv, ReloadInv, NEW id \in Ref, LoadOrder(id)
    PROVE  ReloadInv'
<1>1. StepInv /\ DbInv /\ PhaseInv /\ CoreInv /\ KnownInv /\ QueueInv
  BY DEF DurableInv, StepInv
<1>2. PICK e : e = db[id]
  OBVIOUS
<1>3. /\ phase = "load" /\ phase' = "load" /\ NextToLoad(id)
      /\ order' = [order EXCEPT ![e.object] = e.fields]
      /\ loading' = loading \ {id} /\ db' = db
      /\ IF "STOP" \in e.params
         THEN UNCHANGED <<tree, queue, volume>>
         ELSE AddLimitOrder(e.object, e.fields.side, e.qty, <<e.fields.side, e.fields.price>>, queue, volume)
  BY <1>2 DEF LoadOrder, LoadedQty, bookVars
<1>4. /\ \A l \in Limit : RebuiltExactly(l)
      /\ volume \in [Limit -> Int]
      /\ \A s \in Side, p \in Price :
            tree[s][p] = <<s, p>> \/ (tree[s][p] = NoLimit /\ queue[<<s, p>>] = << >>)
      /\ \A n \in Ref \ loading, k \in loading : db[n] # NoEntry => Rank(n) < Rank(k)
  BY <1>3 DEF ReloadInv
<1>5. loading \subseteq Ref
  BY <1>1 DEF PhaseInv
<1>6. id \in loading /\ \A k \in loading : k # id => Rank(id) < Rank(k)
  BY <1>3, <1>5, NextIsLeast
<1>7. db[id] # NoEntry /\ StoredWell(id)
  BY <1>1, <1>6 DEF PhaseInv, DbInv
<1>8. PICK r \in Ref : r = e.object
  BY <1>2, <1>7 DEF StoredWell
<1>9. /\ e.fields \in OrderRecord /\ e.fields.id = id /\ e.fields.price \in Price /\ e.qty \in Int
      /\ ~Known(r)
  BY <1>2, <1>6, <1>7, <1>8 DEF StoredWell
<1>10. PICK s \in Side, p \in Price : s = e.fields.side /\ p = e.fields.price
  BY <1>9 DEF OrderRecord
<1>11. \A l \in Limit : queue[l] \in Seq(Ref) /\ \A i \in DOMAIN queue[l] : queue[l][i] # r
  BY <1>1, <1>9, BookAssumption DEF KnownInv, QueueInv, CoreInv
<1>12. order'[r].id = id /\ \A x \in Ref : x # r => order'[x] = order[x]
  BY <1>1, <1>3, <1>8, <1>9 DEF CoreInv
<1>13. \A l \in Limit : \A i \in DOMAIN queue[l] : order'[queue[l][i]] = order[queue[l][i]]
  BY <1>11, <1>12
<1>14. \A n \in Ref \ loading', k \in loading' : db'[n] # NoEntry => Rank(n) < Rank(k)
  BY <1>3, <1>4, <1>6
<1>15. ASSUME NEW l \in Limit
       PROVE  Reloaded(l)' = IF "STOP" \notin e.params /\ <<s, p>> = l
                             THEN Reloaded(l) \cup {id} ELSE Reloaded(l)
  BY <1>2, <1>3, <1>6, <1>7, <1>10 DEF Reloaded
<1>16. CASE "STOP" \in e.params
  <2>1. UNCHANGED <<tree, queue, volume>>
    BY <1>3, <1>16
  <2>2. \A l \in Limit : RebuiltExactly(l)'
    BY <1>3, <1>4, <1>13, <1>15, <1>16, <2>1, SameLevel
  <2> QED
    BY <1>3, <1>4, <1>14, <2>1, <2>2 DEF ReloadInv
<1>17. CASE "STOP" \notin e.params
  <2>1. PICK h \in Limit : h = <<s, p>>
    BY DEF Limit
  <2>2. AddLimitOrder(r, s, e.qty, h, queue, volume) /\ h[2] = p
    BY <1>3, <1>8, <1>10, <1>17, <2>1
  <2>3. Home(s, h) = h
    BY <1>4, <2>1, <2>2 DEF Home
  <2>4. tree' = [tree EXCEPT ![s][p] = h] /\ volume' = [volume EXCEPT ![h] = @ + e.qty]
    BY <2>2, <2>3 DEF AddLimitOrder
  <2>5. queue' = [queue EXCEPT ![h] = Append(queue[h], r)]
    <3>1. CASE tree[s][p] # NoLimit
      BY <2>2, <2>3, <3>1 DEF AddLimitOrder
    <3>2. CASE tree[s][p] = NoLimit
      <4>1. queue[h] = << >> /\ queue' = [queue EXCEPT ![h] = <<r>>]
        BY <1>4, <2>1, <2>2, <2>3, <3>2, BookAssumption DEF AddLimitOrder
      <4>2. Append(<< >>, r) = <<r>>
        OBVIOUS
      <4> QED
        BY <4>1, <4>2
    <3> QED
      BY <3>1, <3>2
  <2>6. /\ queue'[h] = Append(queue[h], r) /\ volume'[h] = volume[h] + e.qty
        /\ \A l \in Limit : l # h => queue'[l] = queue[l] /\ volume'[l] = volume[l]
    BY <1>1, <1>4, <2>4, <2>5 DEF CoreInv
  <2>7. RebuiltExactly(h)'
    <3>1. id \notin Reloaded(h) /\ Reloaded(h)' = Reloaded(h) \cup {id}
      BY <1>6, <1>15, <1>17, <2>1 DEF Reloaded
    <3>2. \A k \in Reloaded(h) : k \in Ref \ loading /\ db[k] # NoEntry
      BY DEF Reloaded
    <3>3. \A k \in Reloaded(h) : StoredWell(k)
      BY <1>1, <3>2 DEF DbInv
    <3>4. \A k \in Reloaded(h) : db[k].qty \in Int /\ order[db[k].object].id = k
      BY <3>2, <3>3 DEF StoredWell
    <3>5. \A k \in Reloaded(h) : Rank(k) < Rank(id)
      BY <1>4, <1>6, <3>2
    <3>6. queue[h] \in Seq(Ref) /\ db[id].qty \in Int /\ r = db[id].object /\ volume'[h] = volume[h] + db[id].qty
      BY <1>2, <1>8, <1>9, <1>11, <2>6
    <3>7. RebuiltExactly(h)
      BY <1>4
    <3>8. \A i \in DOMAIN queue[h] : order'[queue[h][i]] = order[queue[h][i]]
      BY <1>13
    <3> QED
      BY <1>3, <1>12, <2>6, <3>1, <3>4, <3>5, <3>6, <3>7, <3>8, MoreLevel
  <2>8. ASSUME NEW l \in Limit, l # h
        PROVE  RebuiltExactly(l)'
    <3>1. Reloaded(l)' = Reloaded(l)
      BY <1>15, <2>1, <2>8
    <3>2. RebuiltExactly(l) /\ \A i \in DOMAIN queue[l] : order'[queue[l][i]] = order[queue[l][i]]
      BY <1>4, <1>13
    <3> QED
      BY <1>3, <2>6, <2>8, <3>1, <3>2, SameLevel
  <2>9. volume' \in [Limit -> Int]
    BY <1>4, <1>9, <2>4
  <2>10. ASSUME NEW u \in Side, NEW v \in Price
         PROVE  tree'[u][v] = <<u, v>> \/ (tree'[u][v] = NoLimit /\ queue'[<<u, v>>] = << >>)
    <3>1. tree \in [Side -> [Price -> Limit \cup {NoLimit}]]
      BY <1>1 DEF CoreInv
    <3>2. CASE u = s /\ v = p
      BY <2>1, <2>4, <3>1, <3>2
    <3>3. CASE ~(u = s /\ v = p)
      <4>1. tree'[u][v] = tree[u][v]
        BY <2>4, <3>1, <3>3
      <4>2. <<u, v>> \in Limit /\ <<u, v>> # h
        BY <2>1, <3>3 DEF Limit
      <4> QED
        BY <1>4, <2>6, <4>1, <4>2
    <3> QED
      BY <3>2, <3>3
  <2> QED
    BY <1>3, <1>14, <2>7, <2>8, <2>9, <2>10 DEF ReloadInv
<1> QED
  BY <1>16, <1>17

(* A restart begins with empty levels, and nothing has been added to them. *)
LEMMA ReloadBegins ==
    ASSUME Restart
    PROVE  ReloadInv'
<1>1. /\ tree' = [s \in Side |-> [p \in Price |-> NoLimit]]
      /\ queue' = [l \in Limit |-> << >>] /\ volume' = [l \in Limit |-> 0]
      /\ loading' = {id \in Ref : db[id] # NoEntry} /\ db' = db
  BY DEF Restart
<1>2. ASSUME NEW l \in Limit
      PROVE  RebuiltExactly(l)'
  <2>1. Reloaded(l)' = {}
    BY <1>1 DEF Reloaded
  <2>2. queue'[l] = << >> /\ DOMAIN queue'[l] = {} /\ volume'[l] = 0
    BY <1>1
  <2>3. Orders(l)' = {} /\ {db[id].object : id \in Reloaded(l)}' = {}
    BY <2>1, <2>2 DEF Orders
  <2>4. SumOver([id \in Reloaded(l) |-> db[id].qty], Reloaded(l))' = 0
    BY <2>1, SumEmpty
  <2> QED
    BY <2>2, <2>3, <2>4 DEF RebuiltExactly
<1>3. volume' \in [Limit -> Int]
  BY <1>1
<1>4. \A s \in Side, p \in Price : tree'[s][p] = NoLimit /\ queue'[<<s, p>>] = << >>
  BY <1>1 DEF Limit
<1>5. \A id \in Ref \ loading' : db'[id] = NoEntry
  BY <1>1
<1> QED
  BY <1>2, <1>3, <1>4, <1>5 DEF ReloadInv

(* Nothing but the constructor's loop runs while the book is reloaded. *)
LEMMA ReloadStep ==
    ASSUME RepoInv, ReloadInv, [RepoNext]_allVars
    PROVE  ReloadInv'
<1>1. DurableInv /\ PhaseInv
  BY DEF RepoInv, DurableInv
<1>2. CASE Restart
  BY <1>2, ReloadBegins
<1>3. ASSUME NEW id \in Ref, LoadOrder(id)
      PROVE  ReloadInv'
  BY <1>1, <1>3, ReloadTurn
<1>4. CASE Serve \/ Work \/ LoadDone
  BY <1>4 DEF Serve, Work, LoadDone, ReloadInv
<1>5. CASE ProcessMessages
  <2>1. phase' = phase /\ (ring # << >> \/ rpc # "poll")
    BY <1>5 DEF ProcessMessages, PopOrder, Serialize, SaveOrder, RemoveOrder
  <2> QED
    BY <1>1, <2>1 DEF PhaseInv, ReloadInv
<1>6. CASE UNCHANGED allVars
  <2>1. UNCHANGED <<phase, loading, db, tree, queue, volume, order>>
    BY <1>6 DEF allVars, repoVars, vars, bookVars
  <2>2. ASSUME NEW l \in Limit, RebuiltExactly(l)
        PROVE  RebuiltExactly(l)'
    <3>1. Reloaded(l)' = Reloaded(l)
      BY <2>1 DEF Reloaded
    <3> QED
      BY <2>1, <2>2, <3>1, SameLevel
  <2> QED
    BY <2>1, <2>2 DEF ReloadInv
<1> QED
  BY <1>2, <1>3, <1>4, <1>5, <1>6 DEF RepoNext, Load

(* The constructor rebuilds every level from what was stored: each order    *)
(* once, at its own side and price, in the order of the keys, and with the  *)
(* volume that is the sum of the quantities, however many entries there are.*)
THEOREM RepoReloadExact == RepoSpec => []ReloadExact
<1>1. RepoInit => ReloadInv
  BY DEF RepoInit, ReloadInv
<1>2. RepoInv /\ ReloadInv /\ [RepoNext]_allVars => ReloadInv'
  BY ReloadStep
<1>3. ReloadInv => ReloadExact
  BY DEF ReloadInv, ReloadExact
<1> QED
  BY <1>1, <1>2, <1>3, RepoInvariant, PTL DEF RepoSpec
=============================================================================
