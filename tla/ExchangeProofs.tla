--------------------------- MODULE ExchangeProofs ---------------------------
(***************************************************************************)
(* Proofs about Exchange, for any number of shards, instruments and        *)
(* requests: tasks are found only where their callers wait for them, the   *)
(* calls are executed as Calls says, and the shutdown drops nothing.       *)
(***************************************************************************)
EXTENDS Exchange, FiniteSetTheorems, SequenceTheorems, TLAPS

(* What a handler has on its stack, and where its task may go. *)
HandlerInv ==
    \A c \in Shard :
        /\ pc[c] # "idle" => req[c] \in Request
        /\ pc[c] \in {"enqueue", "push", "wait"} => req[c].op \in {"create", "update", "cancel"}
        /\ pc[c] # "wait" => result[c] = NoTask
        /\ pc[c] \in {"push", "wait"} => WorkerOf(c) \in Worker

(* What the end of main has waited for. *)
PhaseInv ==
    /\ phase \in {"join", "pool", "gone"} => \A c \in Shard : pc[c] = "idle"
    /\ phase \in {"pool", "gone"} => closer = {}

(* The inductive invariant of the exchange. *)
ExchangeInv == TypeOK /\ HandlerInv /\ TaskRefsLive /\ PhaseInv

-----------------------------------------------------------------------------
(* Types *)

(* A function keeps its type when one value is replaced. *)
LEMMA ExceptType ==
    ASSUME NEW A, NEW B, NEW f \in [A -> B], NEW a, NEW b \in B
    PROVE  [f EXCEPT ![a] = b] \in [A -> B]
OBVIOUS

(* Every check of a handler has its status. *)
LEMMA ChecksHaveStatus ==
    ASSUME NEW op \in {"create", "update", "cancel", "get", "snapshot"},
           NEW n \in DOMAIN Checks[op]
    PROVE  StatusOf[Checks[op][n]] \in {204, 400, 404}
<1>1. CASE op = "create"
  BY <1>1 DEF Checks, StatusOf
<1>2. CASE op = "update"
  BY <1>2 DEF Checks, StatusOf
<1>3. CASE op = "cancel"
  BY <1>3 DEF Checks, StatusOf
<1>4. CASE op = "get"
  BY <1>4 DEF Checks, StatusOf
<1>5. CASE op = "snapshot"
  BY <1>5 DEF Checks, StatusOf
<1>6. QED
  BY <1>1, <1>2, <1>3, <1>4, <1>5

(* The index add_instrument gives is a number. *)
LEMMA KnownCounted == Cardinality(Known) \in Nat
<1>1. Known \subseteq Instrument
  BY DEF Known
<1>2. IsFiniteSet(Known)
  BY <1>1, FS_Subset, ExchangeAssumption
<1>3. QED
  BY <1>2, FS_CardinalityType

(* The initial state is well typed. *)
LEMMA InitTypes == Init => TypeOK
<1> SUFFICES ASSUME Init PROVE TypeOK
  OBVIOUS
<1> USE ExchangeAssumption
<1>1. idx \in [Instrument -> Int]
  <2> SUFFICES ASSUME NEW i \in Instrument, \E n \in DOMAIN Listed : Listed[n] = i
               PROVE  (CHOOSE n \in DOMAIN Listed : Listed[n] = i) - 1 \in Int
    BY DEF Init
  <2>1. (CHOOSE n \in DOMAIN Listed : Listed[n] = i) \in DOMAIN Listed
    OBVIOUS
  <2>2. QED
    BY <2>1
<1>2. ring \in [Worker -> Seq(Shard)]
  BY DEF Init
<1>3. /\ pc \in [Shard -> {"idle", "enqueue", "push", "wait", "read"}]
      /\ req \in [Shard -> Request \cup {NoTask}]
      /\ result \in [Shard -> Result \cup {NoTask}]
      /\ http \in [Shard -> {0, 200, 204, 400, 404}]
      /\ busy \in [Worker -> Shard \cup {NoTask}]
      /\ closes \in 0 .. MaxCloses
  BY DEF Init
<1>4. /\ working \in BOOLEAN /\ clash \in BOOLEAN /\ undefined \in BOOLEAN
      /\ closer \subseteq Instrument
      /\ phase \in {"serving", "stopping", "join", "pool", "gone"}
  BY DEF Init
<1>5. QED
  BY <1>1, <1>2, <1>3, <1>4 DEF TypeOK

(* What a worker executes has a caller that waits. *)
LEMMA BusyWaits ==
    ASSUME TypeOK, TaskRefsLive, NEW w \in Worker, busy[w] # NoTask
    PROVE  /\ busy[w] \in Shard
           /\ pc[busy[w]] = "wait" /\ result[busy[w]] = NoTask
<1>1. 0 \in 0 .. Len(ring[w])
  BY DEF TypeOK
<1>2. TaskAt(w, 0) = busy[w]
  BY DEF TaskAt
<1>3. QED
  BY <1>1, <1>2 DEF TaskRefsLive, TypeOK

(* Every step of a handler keeps the types. *)
LEMMA HandlerTypes ==
    ASSUME TypeOK, HandlerInv, NEW c \in Shard,
           Handle(c) \/ \E r \in Request : Refuse(c, r) \/ Accept(c, r)
    PROVE  TypeOK'
<1> USE ExchangeAssumption DEF TypeOK
<1>1. ASSUME NEW r \in Request, Refuse(c, r) PROVE TypeOK'
  <2>1. PICK n \in DOMAIN Checks[r.op] : Reply(c, StatusOf[Checks[r.op][n]])
    BY <1>1 DEF Refuse
  <2>2. StatusOf[Checks[r.op][n]] \in {204, 400, 404}
    <3>1. r.op \in {"create", "update", "cancel", "get", "snapshot"}
      BY ExchangeAssumption DEF HttpRequest
    <3>2. \A op \in {"create", "update", "cancel", "get", "snapshot"} :
            \A k \in DOMAIN Checks[op] : StatusOf[Checks[op][k]] \in {204, 400, 404}
      BY ChecksHaveStatus
    <3>3. n \in DOMAIN Checks[r.op]
      OBVIOUS
    <3>4. QED
      BY <3>1, <3>2, <3>3
  <2>3. QED
    BY <1>1, <2>1, <2>2 DEF Refuse, Reply, workerVars
<1>2. ASSUME NEW r \in Request, Accept(c, r) PROVE TypeOK'
  BY <1>2 DEF Accept, workerVars
<1>3. CASE Read(c)
  BY <1>3 DEF Read, Reply, workerVars
<1>4. CASE EnqueueTask(c)
  <2>1. clash' \in BOOLEAN /\ undefined' \in BOOLEAN
    BY <1>4, Zenon DEF EnqueueTask
  <2>2. pc' \in [Shard -> {"idle", "enqueue", "push", "wait", "read"}]
    <3>1. pc' = [pc EXCEPT ![c] = "push"] \/ pc' = pc
      BY <1>4, Zenon DEF EnqueueTask
    <3>2. QED
      BY <3>1
  <2>3. UNCHANGED <<working, idx, req, result, http, ring, busy, closer, closes, phase>>
    BY <1>4 DEF EnqueueTask
  <2>4. QED
    BY <2>1, <2>2, <2>3
<1>5. CASE Pushed(c)
  <2>1. WorkerOf(c) \in Worker
    BY <1>5 DEF Pushed, HandlerInv
  <2>2. ring' \in [Worker -> Seq(Shard)]
    <3>1. Append(ring[WorkerOf(c)], c) \in Seq(Shard)
      BY <2>1
    <3>2. ring' = [ring EXCEPT ![WorkerOf(c)] = Append(ring[WorkerOf(c)], c)] \/ ring' = ring
      BY <1>5 DEF Pushed
    <3>3. QED
      BY <3>1, <3>2, ExceptType
  <2>3. QED
    BY <1>5, <2>2 DEF Pushed
<1>6. CASE Answer(c)
  BY <1>6 DEF Answer, Reply, StatusFor, workerVars
<1>7. QED
  BY <1>1, <1>2, <1>3, <1>4, <1>5, <1>6 DEF Handle

(* What the book answers to the task a worker executes is a result. *)
LEMMA BookAnswers ==
    ASSUME TypeOK, TaskRefsLive, HandlerInv, NEW w \in Worker, busy[w] # NoTask
    PROVE  ResultsOf(req[busy[w]].op) \subseteq Result
<1>1. req[busy[w]].op \in {"create", "update", "cancel"}
  BY BusyWaits DEF HandlerInv
<1>2. CASE req[busy[w]].op = "create"
  BY <1>2 DEF ResultsOf, Result
<1>3. CASE req[busy[w]].op = "update"
  BY <1>3 DEF ResultsOf, Result
<1>4. CASE req[busy[w]].op = "cancel"
  BY <1>4 DEF ResultsOf, Result
<1>5. QED
  BY <1>1, <1>2, <1>3, <1>4

(* So does every step of a worker. *)
LEMMA WorkerTypes ==
    ASSUME TypeOK, TaskRefsLive, HandlerInv, NEW w \in Worker, Work(w)
    PROVE  TypeOK'
<1> USE ExchangeAssumption DEF TypeOK
<1>1. CASE RunTask(w)
  <2>1. Head(ring[w]) \in Shard /\ Tail(ring[w]) \in Seq(Shard)
    BY <1>1 DEF RunTask
  <2>2. QED
    BY <1>1, <2>1 DEF RunTask, handlerVars
<1>o. CASE RunOutOfTurn(w)
  <2>1. PICK c \in Shard : busy' = [busy EXCEPT ![w] = c]
    BY <1>o DEF RunOutOfTurn
  <2>2. << >> \in Seq(Shard)
    OBVIOUS
  <2>3. ring' = [ring EXCEPT ![w] = << >>]
    BY <1>o DEF RunOutOfTurn
  <2>4. ring' \in [Worker -> Seq(Shard)] /\ busy' \in [Worker -> Shard \cup {NoTask}]
    BY <2>1, <2>2, <2>3, ExceptType
  <2>5. QED
    BY <1>o, <2>4 DEF RunOutOfTurn, handlerVars
<1>e. CASE RunEmptySlot(w)
  BY <1>e DEF RunEmptySlot, handlerVars, workerVars
<1>2. CASE FinishTask(w)
  <2>1. PICK res \in ResultsOf(req[busy[w]].op) : result' = [result EXCEPT ![busy[w]] = res]
    BY <1>2 DEF FinishTask
  <2>2. busy[w] \in Shard /\ pc[busy[w]] = "wait"
    BY <1>2, BusyWaits DEF FinishTask
  <2>3. res \in Result
    BY <1>2, <2>1, BookAnswers DEF FinishTask
  <2>4. QED
    BY <1>2, <2>1, <2>2, <2>3 DEF FinishTask
<1>3. QED
  BY <1>1, <1>o, <1>e, <1>2 DEF Work

(* And so do the closing thread, add_instrument and the end of main. *)
LEMMA OtherTypes ==
    ASSUME TypeOK,
           OpenMarket \/ CloseMarket \/ Closing \/ StopServer \/ Shutdown
               \/ \E i \in Instrument : AddInstrument(i)
    PROVE  TypeOK'
<1> USE ExchangeAssumption DEF TypeOK, handlerVars, workerVars
<1>1. CASE OpenMarket
  BY <1>1 DEF OpenMarket
<1>2. CASE CloseMarket
  <2>1. closes' \in 0 .. MaxCloses
    BY <1>2 DEF CloseMarket
  <2>2. closer' \subseteq Instrument
    BY <1>2 DEF CloseMarket, Known
  <2>3. working' \in BOOLEAN /\ UNCHANGED <<idx, handlerVars, workerVars, phase, undefined>>
    BY <1>2 DEF CloseMarket
  <2>4. QED
    BY <2>1, <2>2, <2>3
<1>3. ASSUME NEW i \in Instrument, CheckBook(i) PROVE TypeOK'
  BY <1>3 DEF CheckBook
<1>4. ASSUME NEW i \in Instrument, AddInstrument(i) PROVE TypeOK'
  <2>1. Cardinality(Known) \in Int
    BY KnownCounted
  <2>2. QED
    BY <1>4, <2>1 DEF AddInstrument
<1>5. CASE StopServer
  BY <1>5 DEF StopServer
<1>6. CASE ServerStopped
  BY <1>6 DEF ServerStopped
<1>7. CASE JoinCloser
  BY <1>7 DEF JoinCloser
<1>8. CASE JoinWorkers
  <2>1. ring' \in [Worker -> Seq(Shard)]
    BY <1>8 DEF JoinWorkers
  <2>2. QED
    BY <1>8, <2>1 DEF JoinWorkers
<1>9. QED
  BY <1>1, <1>2, <1>3, <1>4, <1>5, <1>6, <1>7, <1>8 DEF Closing, Shutdown

(* Every step of the exchange keeps the types. *)
LEMMA StepTypes ==
    ASSUME ExchangeInv, [Next]_vars
    PROVE  TypeOK'
<1> USE DEF ExchangeInv
<1>1. CASE UNCHANGED vars
  BY <1>1 DEF TypeOK, vars, handlerVars, workerVars
<1>2. ASSUME NEW c \in Shard, Handle(c) \/ \E r \in Request : Refuse(c, r) \/ Accept(c, r)
      PROVE  TypeOK'
  BY <1>2, HandlerTypes
<1>3. ASSUME NEW w \in Worker, Work(w) PROVE TypeOK'
  BY <1>3, WorkerTypes
<1>4. CASE OpenMarket \/ CloseMarket \/ Closing \/ StopServer \/ Shutdown
               \/ \E i \in Instrument : AddInstrument(i)
  BY <1>4, OtherTypes
<1>5. QED
  BY <1>1, <1>2, <1>3, <1>4 DEF Next

-----------------------------------------------------------------------------
(* The handlers *)

(* A step that leaves the handlers alone and moves no worker of theirs keeps *)
(* what is known of them.                                                    *)
LEMMA HandlersKept ==
    ASSUME HandlerInv, UNCHANGED handlerVars,
           \A c \in Shard : WorkerOf(c) \in Worker => WorkerOf(c)' = WorkerOf(c)
    PROVE  HandlerInv'
BY DEF HandlerInv, handlerVars, Worker

(* Every step keeps what is known of the handlers. *)
LEMMA StepHandlers ==
    ASSUME ExchangeInv, [Next]_vars
    PROVE  HandlerInv'
<1> USE DEF ExchangeInv
<1>a. ASSUME NEW c \in Shard,
             \A d \in Shard \ {c} : /\ pc'[d] = pc[d] /\ req'[d] = req[d]
                                    /\ result'[d] = result[d],
             idx' = idx,
             /\ pc'[c] # "idle" => req'[c] \in Request
             /\ pc'[c] \in {"enqueue", "push", "wait"} =>
                    req'[c].op \in {"create", "update", "cancel"}
             /\ pc'[c] # "wait" => result'[c] = NoTask
             /\ pc'[c] \in {"push", "wait"} => WorkerOf(c)' \in Worker
      PROVE  HandlerInv'
  BY <1>a DEF HandlerInv, WorkerOf, Worker
<1>1. CASE UNCHANGED vars
  BY <1>1, HandlersKept DEF vars, handlerVars, WorkerOf
<1>2. ASSUME NEW c \in Shard, NEW r \in Request, Refuse(c, r) PROVE HandlerInv'
  BY <1>2, <1>a DEF Refuse, Reply, TypeOK, HandlerInv
<1>3. ASSUME NEW c \in Shard, NEW r \in Request, Accept(c, r) PROVE HandlerInv'
  <2>1. r.op \in {"create", "update", "cancel", "get", "snapshot"}
    BY ExchangeAssumption DEF HttpRequest
  <2>2. /\ req'[c] = r
        /\ pc'[c] = IF r.op \in {"get", "snapshot"} THEN "read" ELSE "enqueue"
        /\ result'[c] = NoTask
    BY <1>3 DEF Accept, TypeOK, HandlerInv
  <2>3. \A d \in Shard \ {c} : /\ pc'[d] = pc[d] /\ req'[d] = req[d]
                               /\ result'[d] = result[d]
    BY <1>3 DEF Accept, TypeOK
  <2>4. idx' = idx
    BY <1>3 DEF Accept
  <2>5. QED
    BY <1>a, <2>1, <2>2, <2>3, <2>4
<1>4. ASSUME NEW c \in Shard, Read(c) PROVE HandlerInv'
  BY <1>4, <1>a DEF Read, Reply, TypeOK, HandlerInv
<1>5. ASSUME NEW c \in Shard, EnqueueTask(c) PROVE HandlerInv'
  <2>1. \/ pc' = [pc EXCEPT ![c] = "push"] /\ WorkerOf(c) \in Worker
        \/ pc' = pc
    BY <1>5, Zenon DEF EnqueueTask
  <2>2. UNCHANGED <<req, result, idx>> /\ pc[c] = "enqueue"
    BY <1>5 DEF EnqueueTask
  <2>3. QED
    BY <1>a, <2>1, <2>2 DEF TypeOK, HandlerInv, WorkerOf
<1>6. ASSUME NEW c \in Shard, Pushed(c) PROVE HandlerInv'
  BY <1>6, <1>a DEF Pushed, TypeOK, HandlerInv, WorkerOf
<1>7. ASSUME NEW c \in Shard, Answer(c) PROVE HandlerInv'
  BY <1>7, <1>a DEF Answer, Reply, TypeOK, HandlerInv
<1>8. ASSUME NEW w \in Worker, RunTask(w) \/ RunOutOfTurn(w) \/ RunEmptySlot(w) PROVE HandlerInv'
  BY <1>8, HandlersKept DEF RunTask, RunOutOfTurn, RunEmptySlot, handlerVars, WorkerOf
<1>9. ASSUME NEW w \in Worker, FinishTask(w) PROVE HandlerInv'
  <2>1. busy[w] \in Shard /\ pc[busy[w]] = "wait"
    BY <1>9, BusyWaits DEF FinishTask
  <2>2. QED
    BY <1>9, <1>a, <2>1 DEF FinishTask, TypeOK, HandlerInv, WorkerOf
<1>10. ASSUME NEW i \in Instrument, AddInstrument(i) PROVE HandlerInv'
  <2>1. ASSUME NEW c \in Shard, pc[c] \in {"push", "wait"} PROVE WorkerOf(c)' \in Worker
    <3>1. req[c].instrument \in Instrument
      BY <2>1, ExchangeAssumption DEF HandlerInv, HttpRequest
    <3>2. idx[req[c].instrument] # -1
      BY <2>1, ExchangeAssumption DEF HandlerInv, WorkerOf, Worker
    <3>3. req[c].instrument # i
      BY <3>1, <3>2, <1>10 DEF AddInstrument, Known
    <3>4. QED
      BY <1>10, <2>1, <3>1, <3>3 DEF AddInstrument, handlerVars, TypeOK, HandlerInv, WorkerOf
  <2>2. QED
    BY <1>10, <2>1 DEF HandlerInv, AddInstrument, handlerVars
<1>11. CASE OpenMarket \/ CloseMarket \/ Closing \/ StopServer \/ Shutdown
  <2>1. UNCHANGED <<handlerVars, idx>>
    BY <1>11 DEF OpenMarket, CloseMarket, Closing, CheckBook, StopServer, Shutdown,
                 ServerStopped, JoinCloser, JoinWorkers
  <2>2. QED
    BY <2>1, HandlersKept DEF handlerVars, WorkerOf
<1>12. QED
  BY <1>1, <1>2, <1>3, <1>4, <1>5, <1>6, <1>7, <1>8, <1>9, <1>10, <1>11
  DEF Next, Handle, Work

-----------------------------------------------------------------------------
(* The end of main *)

(* Every step keeps what main has waited for. *)
LEMMA StepPhase ==
    ASSUME ExchangeInv, [Next]_vars
    PROVE  PhaseInv'
<1> USE DEF ExchangeInv, PhaseInv
<1>1. CASE UNCHANGED vars
  BY <1>1 DEF vars, handlerVars
<1>2. ASSUME NEW c \in Shard, Handle(c) \/ \E r \in Request : Refuse(c, r) \/ Accept(c, r)
      PROVE  PhaseInv'
  <2>1. UNCHANGED <<phase, closer>>
    BY <1>2 DEF Handle, Read, EnqueueTask, Pushed, Answer, Refuse, Accept
  <2>2. pc[c] # "idle" \/ phase = "serving"
    BY <1>2 DEF Handle, Read, EnqueueTask, Pushed, Answer, Refuse, Accept
  <2>3. QED
    BY <2>1, <2>2 DEF TypeOK
<1>3. ASSUME NEW w \in Worker, Work(w) PROVE PhaseInv'
  BY <1>3 DEF Work, RunTask, RunOutOfTurn, RunEmptySlot, FinishTask, handlerVars
<1>4. CASE OpenMarket \/ CloseMarket
  BY <1>4 DEF OpenMarket, CloseMarket, handlerVars
<1>5. CASE Closing \/ StopServer \/ \E i \in Instrument : AddInstrument(i)
  BY <1>5 DEF Closing, CheckBook, StopServer, AddInstrument, handlerVars
<1>6. CASE Shutdown
  BY <1>6 DEF Shutdown, ServerStopped, JoinCloser, JoinWorkers, handlerVars
<1>7. QED
  BY <1>1, <1>2, <1>3, <1>4, <1>5, <1>6 DEF Next

-----------------------------------------------------------------------------
(* The tasks *)

(* The part of TaskRefsLive about place i of worker w. *)
PlaceOK(w, i) ==
    LET c == TaskAt(w, i) IN
    c # NoTask =>
        /\ pc[c] = "wait" /\ result[c] = NoTask
        /\ idx[req[c].instrument] = w
        /\ \A j \in 0 .. Len(ring[w]) : TaskAt(w, j) = c => j = i

(* TaskRefsLive, place by place. *)
LEMMA TasksByPlace == TaskRefsLive <=> \A w \in Worker : \A i \in 0 .. Len(ring[w]) : PlaceOK(w, i)
BY DEF TaskRefsLive, PlaceOK

(* A place holds the task of a shard, or none. *)
LEMMA PlaceTypes ==
    ASSUME TypeOK, NEW w \in Worker, NEW i \in 0 .. Len(ring[w])
    PROVE  /\ TaskAt(w, i) \in Shard \cup {NoTask}
           /\ i # 0 => TaskAt(w, i) \in Shard
<1>1. ring[w] \in Seq(Shard) /\ busy[w] \in Shard \cup {NoTask}
  BY DEF TypeOK
<1>2. QED
  BY <1>1 DEF TaskAt

(* A step that moves no task, and under which callers that wait for one go  *)
(* on waiting for the same worker, keeps the tasks in place.                *)
LEMMA TasksKept ==
    ASSUME TypeOK, TaskRefsLive, UNCHANGED <<ring, busy>>,
           \A c \in Shard : pc[c] = "wait" /\ result[c] = NoTask /\ WorkerOf(c) \in Worker =>
               /\ pc'[c] = "wait" /\ result'[c] = NoTask
               /\ WorkerOf(c)' = WorkerOf(c)
    PROVE  TaskRefsLive'
<1> SUFFICES ASSUME NEW w \in Worker, NEW i \in 0 .. Len(ring[w]) PROVE PlaceOK(w, i)'
  BY DEF TaskRefsLive, PlaceOK, Worker
<1>1. \A j : TaskAt(w, j)' = TaskAt(w, j)
  BY DEF TaskAt
<1>2. PlaceOK(w, i)
  BY TasksByPlace
<1>3. TaskAt(w, i) # NoTask => TaskAt(w, i) \in Shard
  BY PlaceTypes
<1>4. QED
  BY <1>1, <1>2, <1>3 DEF PlaceOK, WorkerOf

(* The push of a task adds one place, for a caller that had none. *)
LEMMA TasksPushed ==
    ASSUME ExchangeInv, NEW c \in Shard, Pushed(c)
    PROVE  TaskRefsLive'
<1> USE DEF ExchangeInv
<1> DEFINE v == WorkerOf(c)
<1>1. /\ pc[c] = "push" /\ v \in Worker /\ result[c] = NoTask
      /\ UNCHANGED <<req, result, idx, busy>>
      /\ pc' = [pc EXCEPT ![c] = "wait"]
  BY DEF Pushed, HandlerInv
<1>2. CASE UNCHANGED ring
  <2>1. \A d \in Shard : pc[d] = "wait" /\ result[d] = NoTask /\ WorkerOf(d) \in Worker =>
            /\ pc'[d] = "wait" /\ result'[d] = NoTask
            /\ WorkerOf(d)' = WorkerOf(d)
    BY <1>1 DEF TypeOK, WorkerOf
  <2>2. QED
    BY <1>1, <1>2, <2>1, TasksKept
<1>3. CASE ring' = [ring EXCEPT ![v] = Append(@, c)]
  <2> SUFFICES ASSUME NEW w \in Worker, NEW i \in 0 .. Len(ring'[w]) PROVE PlaceOK(w, i)'
    BY DEF TaskRefsLive, PlaceOK, Worker
  <2>1. ring[w] \in Seq(Shard)
    BY DEF TypeOK
  <2>2. ring'[w] = IF w = v THEN Append(ring[w], c) ELSE ring[w]
    BY <1>1, <1>3 DEF TypeOK
  <2>3. \A j \in 0 .. Len(ring[w]) : TaskAt(w, j)' = TaskAt(w, j) /\ TaskAt(w, j) # c
    <3> SUFFICES ASSUME NEW j \in 0 .. Len(ring[w])
                 PROVE  TaskAt(w, j)' = TaskAt(w, j) /\ TaskAt(w, j) # c
      OBVIOUS
    <3>1. TaskAt(w, j)' = TaskAt(w, j)
      BY <1>1, <2>1, <2>2 DEF TaskAt
    <3>2. PlaceOK(w, j)
      BY TasksByPlace
    <3>3. TaskAt(w, j) # c
      BY <3>2, <1>1, ExchangeAssumption DEF PlaceOK
    <3>4. QED
      BY <3>1, <3>3
  <2>4. CASE i \in 0 .. Len(ring[w])
    <3>1. PlaceOK(w, i)
      BY <2>4, TasksByPlace
    <3>2. TaskAt(w, i) # NoTask => TaskAt(w, i) \in Shard \ {c}
      BY <2>3, <2>4, PlaceTypes
    <3>3. ASSUME NEW j \in 0 .. Len(ring'[w]), TaskAt(w, i) # NoTask, TaskAt(w, j)' = TaskAt(w, i)
          PROVE  j = i
      <4>1. CASE j \in 0 .. Len(ring[w])
        BY <3>1, <3>3, <4>1, <2>3 DEF PlaceOK
      <4>2. CASE j \notin 0 .. Len(ring[w])
        <5>1. w = v /\ j = Len(ring[w]) + 1
          BY <4>2, <2>1, <2>2
        <5>2. TaskAt(w, j)' = c
          BY <5>1, <2>1, <2>2 DEF TaskAt
        <5>3. QED
          BY <5>2, <3>2, <3>3
      <4>3. QED
        BY <4>1, <4>2
    <3>4. TaskAt(w, i)' = TaskAt(w, i)
      BY <2>3, <2>4
    <3>5. QED
      BY <1>1, <3>1, <3>2, <3>3, <3>4 DEF PlaceOK, TypeOK
  <2>5. CASE i \notin 0 .. Len(ring[w])
    <3>1. w = v /\ i = Len(ring[w]) + 1
      BY <2>5, <2>1, <2>2
    <3>2. TaskAt(w, i)' = c
      BY <3>1, <2>1, <2>2 DEF TaskAt
    <3>3. \A j \in 0 .. Len(ring'[w]) : TaskAt(w, j)' = c => j = i
      BY <2>1, <2>2, <2>3, <3>1
    <3>4. idx'[req'[c].instrument] = w
      BY <1>1, <3>1 DEF WorkerOf
    <3>5. QED
      BY <1>1, <3>2, <3>3, <3>4 DEF PlaceOK, TypeOK
  <2>6. QED
    BY <2>4, <2>5
<1>4. QED
  BY <1>2, <1>3 DEF Pushed

(* A worker that takes its next task moves every place one forward. *)
LEMMA TasksTaken ==
    ASSUME ExchangeInv, NEW v \in Worker, RunTask(v)
    PROVE  TaskRefsLive'
<1> USE DEF ExchangeInv
<1> SUFFICES ASSUME NEW w \in Worker, NEW i \in 0 .. Len(ring'[w]) PROVE PlaceOK(w, i)'
  BY DEF TaskRefsLive, PlaceOK, Worker
<1>1. /\ busy[v] = NoTask /\ ring[v] # << >>
      /\ UNCHANGED <<pc, req, result, idx>>
      /\ busy' = [busy EXCEPT ![v] = Head(ring[v])]
      /\ ring' = [ring EXCEPT ![v] = Tail(ring[v])]
  BY DEF RunTask, handlerVars
<1>2. ring[w] \in Seq(Shard) /\ ring[v] \in Seq(Shard)
  BY DEF TypeOK
<1>3. CASE w # v
  <2>1. ring'[w] = ring[w] /\ busy'[w] = busy[w]
    BY <1>1, <1>3 DEF TypeOK
  <2>2. \A j : TaskAt(w, j)' = TaskAt(w, j)
    BY <2>1 DEF TaskAt
  <2>3. PlaceOK(w, i)
    BY <2>1, TasksByPlace
  <2>4. QED
    BY <1>1, <2>1, <2>2, <2>3 DEF PlaceOK
<1>4. CASE w = v
  <2>1. ring'[w] = Tail(ring[w]) /\ busy'[w] = Head(ring[w])
    BY <1>1, <1>4 DEF TypeOK
  <2>2. Len(ring'[w]) = Len(ring[w]) - 1
    <3>1. ring[w] # << >>
      BY <1>1, <1>4
    <3>2. QED
      BY <3>1, <1>2, <2>1, HeadTailProperties
  <2>3. \A j \in 0 .. Len(ring'[w]) : TaskAt(w, j)' = TaskAt(w, j + 1)
    BY <1>1, <1>2, <1>4, <2>1, <2>2 DEF TaskAt
  <2>4. i + 1 \in 0 .. Len(ring[w])
    BY <2>2, <1>2
  <2>5. PlaceOK(w, i + 1)
    BY <2>4, TasksByPlace
  <2>6. ASSUME NEW j \in 0 .. Len(ring'[w]), TaskAt(w, i + 1) # NoTask,
               TaskAt(w, j + 1) = TaskAt(w, i + 1)
        PROVE  j = i
    <3>1. j + 1 \in 0 .. Len(ring[w])
      BY <2>2, <1>2
    <3>2. j + 1 = i + 1
      BY <3>1, <2>5, <2>6 DEF PlaceOK
    <3>3. QED
      BY <3>2
  <2>7. QED
    BY <1>1, <2>3, <2>5, <2>6 DEF PlaceOK
<1>5. QED
  BY <1>3, <1>4

(* A worker that takes a task out of turn leaves nothing at other places. *)
LEMMA TasksOutOfTurn ==
    ASSUME ExchangeInv, NEW v \in Worker, RunOutOfTurn(v)
    PROVE  TaskRefsLive'
<1> USE DEF ExchangeInv
<1> SUFFICES ASSUME NEW w \in Worker, NEW i \in 0 .. Len(ring'[w]) PROVE PlaceOK(w, i)'
  BY DEF TaskRefsLive, PlaceOK, Worker
<1>1. /\ UNCHANGED <<pc, req, result, idx>>
      /\ ring' = [ring EXCEPT ![v] = << >>]
  BY DEF RunOutOfTurn, handlerVars
<1>2. PICK c \in Shard : /\ pc[c] = "wait" /\ result[c] = NoTask /\ idx[req[c].instrument] = v
                        /\ busy' = [busy EXCEPT ![v] = c]
  BY DEF RunOutOfTurn, WorkerOf
<1>3. CASE w # v
  <2>1. ring'[w] = ring[w] /\ busy'[w] = busy[w]
    BY <1>1, <1>2, <1>3 DEF TypeOK
  <2>2. \A j : TaskAt(w, j)' = TaskAt(w, j)
    BY <2>1 DEF TaskAt
  <2>3. PlaceOK(w, i)
    BY <2>1, TasksByPlace
  <2>4. QED
    BY <1>1, <2>1, <2>2, <2>3 DEF PlaceOK
<1>4. CASE w = v
  <2>1. ring'[w] = << >> /\ busy'[w] = c
    BY <1>1, <1>2, <1>4 DEF TypeOK
  <2>2. \A j \in 0 .. Len(ring'[w]) : j = 0
    BY <2>1
  <2>3. TaskAt(w, i)' = c
    BY <2>1, <2>2 DEF TaskAt
  <2>4. QED
    BY <1>1, <1>2, <1>4, <2>2, <2>3 DEF PlaceOK
<1>5. QED
  BY <1>3, <1>4

(* A worker that has executed a task held the only place it had. *)
LEMMA TasksFinished ==
    ASSUME ExchangeInv, NEW v \in Worker, FinishTask(v)
    PROVE  TaskRefsLive'
<1> USE DEF ExchangeInv
<1> SUFFICES ASSUME NEW w \in Worker, NEW i \in 0 .. Len(ring'[w]) PROVE PlaceOK(w, i)'
  BY DEF TaskRefsLive, PlaceOK, Worker
<1> DEFINE c == busy[v]
<1>1. /\ c # NoTask
      /\ UNCHANGED <<pc, req, idx, ring>>
      /\ busy' = [busy EXCEPT ![v] = NoTask]
      /\ \E res : result' = [result EXCEPT ![c] = res]
  BY DEF FinishTask
<1>2. 0 \in 0 .. Len(ring[v]) /\ TaskAt(v, 0) = c
  BY DEF TypeOK, TaskAt
<1>3. PlaceOK(v, 0) /\ PlaceOK(w, i)
  BY <1>1, <1>2, TasksByPlace
<1>4. \A j : TaskAt(w, j)' = IF w = v /\ j = 0 THEN NoTask ELSE TaskAt(w, j)
  BY <1>1 DEF TaskAt, TypeOK
<1>5. ASSUME TaskAt(w, i)' # NoTask PROVE TaskAt(w, i)' = TaskAt(w, i) /\ TaskAt(w, i) # c
  <2>1. ~(w = v /\ i = 0) /\ TaskAt(w, i)' = TaskAt(w, i)
    BY <1>4, <1>5
  <2>2. ASSUME TaskAt(w, i) = c PROVE FALSE
    <3>1. w = v
      BY <1>1, <1>2, <1>3, <2>2 DEF PlaceOK
    <3>2. i = 0
      BY <1>1, <1>2, <1>3, <2>2, <3>1 DEF PlaceOK
    <3>3. QED
      BY <2>1, <3>1, <3>2
  <2>3. QED
    BY <2>1, <2>2
<1>6. TaskAt(w, i) \in Shard \cup {NoTask}
  BY <1>1, PlaceTypes
<1>7. ASSUME TaskAt(w, i)' # NoTask
      PROVE  result'[TaskAt(w, i)] = result[TaskAt(w, i)]
  BY <1>1, <1>5, <1>6, <1>7 DEF TypeOK
<1>8. ASSUME TaskAt(w, i)' # NoTask, NEW j \in 0 .. Len(ring'[w]), TaskAt(w, j)' = TaskAt(w, i)'
      PROVE  j = i
  BY <1>1, <1>3, <1>4, <1>5, <1>8 DEF PlaceOK
<1>9. QED
  BY <1>1, <1>3, <1>5, <1>7, <1>8 DEF PlaceOK

(* Every step keeps the tasks where their callers wait for them. *)
LEMMA StepTasks ==
    ASSUME ExchangeInv, [Next]_vars
    PROVE  TaskRefsLive'
<1> USE DEF ExchangeInv
<1>a. ASSUME UNCHANGED <<ring, busy, idx>>, NEW c \in Shard,
             ~(pc[c] = "wait" /\ result[c] = NoTask),
             \A d \in Shard \ {c} : /\ pc'[d] = pc[d] /\ req'[d] = req[d]
                                    /\ result'[d] = result[d]
      PROVE  TaskRefsLive'
  BY <1>a, TasksKept DEF WorkerOf
<1>1. CASE UNCHANGED vars
  BY <1>1, TasksKept DEF vars, handlerVars, workerVars, WorkerOf
<1>2. ASSUME NEW c \in Shard, NEW r \in Request, Refuse(c, r) \/ Accept(c, r)
      PROVE  TaskRefsLive'
  BY <1>2, <1>a DEF Refuse, Accept, Reply, TypeOK, workerVars
<1>3. ASSUME NEW c \in Shard, Read(c) \/ Answer(c) PROVE TaskRefsLive'
  BY <1>3, <1>a DEF Read, Answer, Reply, TypeOK, workerVars
<1>4. ASSUME NEW c \in Shard, EnqueueTask(c) PROVE TaskRefsLive'
  <2>1. pc' = [pc EXCEPT ![c] = "push"] \/ pc' = pc
    BY <1>4, Zenon DEF EnqueueTask
  <2>2. UNCHANGED <<req, result, idx, ring, busy>> /\ pc[c] = "enqueue"
    BY <1>4 DEF EnqueueTask
  <2>3. QED
    BY <1>a, <2>1, <2>2 DEF TypeOK
<1>5. ASSUME NEW c \in Shard, Pushed(c) PROVE TaskRefsLive'
  BY <1>5, TasksPushed
<1>6. ASSUME NEW w \in Worker, Work(w) PROVE TaskRefsLive'
  <2>1. CASE RunEmptySlot(w)
    BY <2>1, TasksKept DEF RunEmptySlot, handlerVars, workerVars, WorkerOf
  <2>2. QED
    BY <1>6, <2>1, TasksTaken, TasksOutOfTurn, TasksFinished DEF Work
<1>7. ASSUME NEW i \in Instrument, AddInstrument(i) PROVE TaskRefsLive'
  <2>1. ASSUME NEW c \in Shard, pc[c] = "wait" PROVE WorkerOf(c)' = WorkerOf(c)
    <3>1. req[c].instrument \in Instrument
      BY <2>1, ExchangeAssumption DEF HandlerInv, HttpRequest
    <3>2. idx[req[c].instrument] # -1
      BY <2>1, ExchangeAssumption DEF HandlerInv, WorkerOf, Worker
    <3>3. req[c].instrument # i
      BY <3>1, <3>2, <1>7 DEF AddInstrument, Known
    <3>4. QED
      BY <1>7, <3>1, <3>3 DEF AddInstrument, handlerVars, TypeOK, WorkerOf
  <2>2. QED
    BY <1>7, <2>1, TasksKept DEF AddInstrument, handlerVars, workerVars
<1>8. CASE OpenMarket \/ CloseMarket \/ Closing \/ StopServer \/ ServerStopped \/ JoinCloser
  <2>1. UNCHANGED <<handlerVars, workerVars, idx>>
    BY <1>8 DEF OpenMarket, CloseMarket, Closing, CheckBook, StopServer, ServerStopped, JoinCloser
  <2>2. QED
    BY <2>1, TasksKept DEF handlerVars, workerVars, WorkerOf
<1>9. CASE JoinWorkers
  <2> SUFFICES ASSUME NEW w \in Worker, NEW i \in 0 .. Len(ring'[w]) PROVE PlaceOK(w, i)'
    BY DEF TaskRefsLive, PlaceOK, Worker
  <2>1. ring'[w] = << >> /\ busy'[w] = NoTask
    BY <1>9 DEF JoinWorkers
  <2>2. i = 0
    BY <2>1
  <2>3. QED
    BY <2>1, <2>2 DEF PlaceOK, TaskAt
<1>10. QED
  BY <1>1, <1>2, <1>3, <1>4, <1>5, <1>6, <1>7, <1>8, <1>9 DEF Next, Handle, Shutdown

-----------------------------------------------------------------------------
(* The invariant *)

(* The invariant holds in the beginning: nobody waits and no task is there. *)
LEMMA InitInv == Init => ExchangeInv
<1> SUFFICES ASSUME Init PROVE ExchangeInv
  OBVIOUS
<1>1. TypeOK
  BY InitTypes
<1>2. HandlerInv /\ PhaseInv
  BY DEF Init, HandlerInv, PhaseInv
<1>3. TaskRefsLive
  BY DEF Init, TaskRefsLive, TaskAt
<1>4. QED
  BY <1>1, <1>2, <1>3 DEF ExchangeInv

(* exchange.cpp, the handlers and the shutdown: the invariant of the        *)
(* exchange holds in every reachable state, for any number of shards,       *)
(* instruments and requests.                                                *)
THEOREM ExchangeInvariant == Spec => []ExchangeInv
<1>1. Init => ExchangeInv
  BY InitInv
<1>2. ExchangeInv /\ [Next]_vars => ExchangeInv'
  BY StepTypes, StepHandlers, StepTasks, StepPhase DEF ExchangeInv
<1>3. QED
  BY <1>1, <1>2, PTL DEF Spec

(* enqueue_task: a task that captures references to the stack of its caller *)
(* is found only while its caller waits, once, and with the worker of its   *)
(* instrument.                                                              *)
THEOREM ExchangeTasks == Spec => []TaskRefsLive
<1>1. ExchangeInv => TaskRefsLive
  BY DEF ExchangeInv
<1>2. QED
  BY <1>1, ExchangeInvariant, PTL

(* The end of main: when the workers are joined no task is dropped, no      *)
(* handler waits and nobody uses a book.                                    *)
THEOREM ExchangeShutdown == Spec => []CleanShutdown
<1>1. ExchangeInv => CleanShutdown
  <2> SUFFICES ASSUME ExchangeInv, phase \in {"pool", "gone"}
               PROVE  /\ \A c \in Shard : pc[c] = "idle"
                      /\ \A w \in Worker : ring[w] = << >> /\ busy[w] = NoTask
                      /\ closer = {}
    BY DEF CleanShutdown
  <2> USE DEF ExchangeInv
  <2>1. closer = {} /\ \A c \in Shard : pc[c] = "idle"
    BY DEF PhaseInv
  <2>2. ASSUME NEW w \in Worker PROVE ring[w] = << >> /\ busy[w] = NoTask
    <3>1. ring[w] \in Seq(Shard)
      BY DEF TypeOK
    <3>2. ASSUME NEW i \in 0 .. Len(ring[w]) PROVE TaskAt(w, i) = NoTask
      <4>1. PlaceOK(w, i)
        BY TasksByPlace
      <4>2. TaskAt(w, i) \in Shard \cup {NoTask}
        BY PlaceTypes
      <4>3. QED
        BY <2>1, <4>1, <4>2 DEF PlaceOK
    <3>3. busy[w] = NoTask
      BY <3>1, <3>2 DEF TaskAt
    <3>4. ASSUME ring[w] # << >> PROVE FALSE
      <4>1. 1 \in 0 .. Len(ring[w]) /\ TaskAt(w, 1) \in Shard
        BY <3>1, <3>4 DEF TaskAt
      <4>2. QED
        BY <3>2, <4>1, ExchangeAssumption
    <3>5. QED
      BY <3>3, <3>4
  <2>3. QED
    BY <2>1, <2>2
<1>2. QED
  BY <1>1, ExchangeInvariant, PTL

-----------------------------------------------------------------------------
(* The calls *)

(* A step in which nobody begins or ceases to wait, and no result comes or  *)
(* goes, is nothing to the callers.                                         *)
LEMMA CallsStutter ==
    ASSUME UNCHANGED result, \A c \in Shard : pc'[c] = "wait" <=> pc[c] = "wait"
    PROVE  UNCHANGED Service!vars
BY DEF Service!vars

(* add_order, modify_order and cancel_order of the exchange: each call is   *)
(* executed once, while its caller waits for it, whatever the other shards, *)
(* the closing thread and the shutdown do.                                  *)
THEOREM ExchangeCalls == Spec => ImplementsCalls
<1>1. Init => Service!Init
  BY DEF Init, Service!Init
<1>2. ASSUME ExchangeInv, [Next]_vars PROVE [Service!Next]_(Service!vars)
  <2> USE <1>2 DEF ExchangeInv
  <2>1. CASE UNCHANGED vars
    BY <2>1, CallsStutter DEF vars, handlerVars
  <2>2. ASSUME NEW c \in Shard, NEW r \in Request, Refuse(c, r) \/ Accept(c, r)
        PROVE  UNCHANGED Service!vars
    BY <2>2, CallsStutter DEF Refuse, Accept, Reply, TypeOK
  <2>3. ASSUME NEW c \in Shard, Read(c) PROVE UNCHANGED Service!vars
    BY <2>3, CallsStutter DEF Read, Reply, TypeOK
  <2>4. ASSUME NEW c \in Shard, EnqueueTask(c) PROVE UNCHANGED Service!vars
    <3>1. pc' = [pc EXCEPT ![c] = "push"] \/ pc' = pc
      BY <2>4, Zenon DEF EnqueueTask
    <3>2. UNCHANGED result /\ pc[c] = "enqueue"
      BY <2>4 DEF EnqueueTask
    <3>3. QED
      BY <3>1, <3>2, CallsStutter DEF TypeOK
  <2>5. ASSUME NEW c \in Shard, Pushed(c) PROVE Service!Call(c)
    BY <2>5 DEF Pushed, TypeOK, Service!Call
  <2>6. ASSUME NEW c \in Shard, Answer(c) PROVE Service!Return(c)
    BY <2>6 DEF Answer, Reply, TypeOK, Service!Return
  <2>7. ASSUME NEW w \in Worker, RunTask(w) \/ RunOutOfTurn(w) \/ RunEmptySlot(w)
        PROVE  UNCHANGED Service!vars
    BY <2>7, CallsStutter DEF RunTask, RunOutOfTurn, RunEmptySlot, handlerVars
  <2>8. ASSUME NEW w \in Worker, FinishTask(w) PROVE Service!Execute(busy[w])
    <3>1. /\ busy[w] \in Shard
          /\ pc[busy[w]] = "wait" /\ result[busy[w]] = NoTask
      BY <2>8, BusyWaits DEF FinishTask
    <3>2. PICK res \in ResultsOf(req[busy[w]].op) : result' = [result EXCEPT ![busy[w]] = res]
      BY <2>8 DEF FinishTask
    <3>3. res \in Result
      BY <2>8, <3>2, BookAnswers DEF FinishTask
    <3>4. UNCHANGED pc
      BY <2>8 DEF FinishTask
    <3>5. QED
      BY <3>1, <3>2, <3>3, <3>4 DEF Service!Execute
  <2>9. CASE OpenMarket \/ CloseMarket \/ Closing \/ StopServer \/ Shutdown
               \/ \E i \in Instrument : AddInstrument(i)
    <3>1. UNCHANGED handlerVars
      BY <2>9 DEF OpenMarket, CloseMarket, Closing, CheckBook, StopServer, Shutdown,
                  ServerStopped, JoinCloser, JoinWorkers, AddInstrument
    <3>2. QED
      BY <3>1, CallsStutter DEF handlerVars
  <2>10. ASSUME NEW c \in Shard, Service!Call(c) \/ Service!Execute(c) \/ Service!Return(c)
         PROVE  Service!Next
    BY <2>10 DEF Service!Next
  <2>11. ASSUME NEW w \in Worker, FinishTask(w) PROVE Service!Next
    <3>1. busy[w] \in Shard
      BY <2>11, BusyWaits DEF FinishTask
    <3>2. QED
      BY <3>1, <2>8, <2>10, <2>11
  <2>12. QED
    BY <2>1, <2>2, <2>3, <2>4, <2>5, <2>6, <2>7, <2>9, <2>10, <2>11 DEF Next, Handle, Work
<1>3. QED
  BY <1>1, <1>2, ExchangeInvariant, PTL DEF Spec, ImplementsCalls, Service!Spec
=============================================================================
