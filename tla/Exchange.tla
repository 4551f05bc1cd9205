------------------------------ MODULE Exchange ------------------------------
(***************************************************************************)
(* The exchange (exchange.cpp) between the request handlers and the books: *)
(* every server thread (a shard of the Seastar server) handles one request *)
(* at a time, pushes a task into the ring of the instrument's worker and   *)
(* blocks on the future of the task; every worker executes the tasks of    *)
(* its ring; the closing thread goes through all books itself.  At the     *)
(* end main stops the server and destroys the exchange.                    *)
(*                                                                         *)
(* What a task does to its book is OrderBook; when the market opens and    *)
(* closes is WorkingHours; here it may happen at any time.  A task is      *)
(* named by the shard that waits for it.  The rings are FIFO channels as   *)
(* long as no two pushes into one of them overlap.  After that (clash) a   *)
(* push may be lost, and the slower producer may have stored an older      *)
(* write position: the worker then finds tasks out of turn, or a slot that *)
(* is empty or half written.  RingBuffer has the ring step by step.        *)
(***************************************************************************)
EXTENDS Integers, Sequences, FiniteSets

CONSTANTS
    Shard,      \* the server threads
    Listed,     \* the instruments of the initial file, in its order
    Instrument, \* all instruments requests may name, listed or not
    Request,    \* the requests that may come
    NoTask,     \* no task, no result, no request
    MaxCloses   \* bound on the number of times the market closes

(* A request: its handler, the instrument it names and whether the order    *)
(* side or the order id its handler asks for is in order.                   *)
HttpRequest ==
    [op: {"create", "update", "cancel", "get", "snapshot"},
     instrument: Instrument, valid: BOOLEAN]

ASSUME ExchangeAssumption ==
    /\ Request \subseteq HttpRequest
    /\ NoTask \notin Shard
    /\ IsFiniteSet(Instrument)
    /\ Listed \in Seq(Instrument)
    /\ \A i, j \in DOMAIN Listed : Listed[i] = Listed[j] => i = j
    /\ MaxCloses \in Nat

VARIABLES
    working,    \* _working
    idx,        \* _instrument_idx: instrument -> worker, -1 when it does not exist
    pc,         \* where the handler of each shard is
    req,        \* the request it handles
    result,     \* the value of the promise of its task
    http,       \* the status of its reply, 0 while there is none
    ring,       \* the ring of every worker: shards that wait for their task
    busy,       \* the task every worker executes
    clash,      \* have two pushes into one ring overlapped?
    closer,     \* the closing thread: the books it has still to check
    closes,     \* how often the market has closed
    phase,      \* the end of main
    undefined   \* a worker that does not exist was used, or an empty task called

handlerVars == <<pc, req, result, http>>
workerVars  == <<ring, busy, clash>>
vars == <<working, idx, handlerVars, workerVars, closer, closes, phase, undefined>>

Worker == 0 .. Len(Listed) - 1

Result == {"ACCEPTED", "MATCHED", "NOT_MATCHED", "MODIFIED", "CANCELLED", "NOT_FOUND"}

Init ==
    /\ working = FALSE
    /\ idx = [i \in Instrument |->
                IF \E n \in DOMAIN Listed : Listed[n] = i
                THEN (CHOOSE n \in DOMAIN Listed : Listed[n] = i) - 1 ELSE -1]
    /\ pc = [c \in Shard |-> "idle"]
    /\ req = [c \in Shard |-> NoTask]
    /\ result = [c \in Shard |-> NoTask]
    /\ http = [c \in Shard |-> 0]
    /\ ring = [w \in Worker |-> << >>]
    /\ busy = [w \in Worker |-> NoTask]
    /\ clash = FALSE
    /\ closer = {}
    /\ closes = 0
    /\ phase = "serving"
    /\ undefined = FALSE

-----------------------------------------------------------------------------
(* The handlers: what each of them checks, in which order, and the status   *)
(* of the reply when a check fails ("form" is the side or the order id).    *)

Known == {i \in Instrument : idx[i] # -1}

Checks ==
    [create   |-> <<"instrument", "form", "working">>,
     update   |-> <<"instrument", "working">>,
     cancel   |-> <<"form", "working", "instrument">>,
     get      |-> <<"form", "working">>,
     snapshot |-> <<"instrument">>]

Passes(check, r) ==
    CASE check = "instrument" -> r.instrument \in Known
      [] check = "form"       -> r.valid
      [] check = "working"    -> working

StatusOf == [instrument |-> 404, form |-> 400, working |-> 204]

Reply(c, status) ==
    /\ http' = [http EXCEPT ![c] = status]
    /\ pc' = [pc EXCEPT ![c] = "idle"]
    /\ req' = [req EXCEPT ![c] = NoTask]

(* A request arrives and is turned down by its first check that fails. *)
Refuse(c, r) ==
    /\ pc[c] = "idle"
    /\ phase = "serving"
    /\ \E n \in DOMAIN Checks[r.op] :
        /\ ~Passes(Checks[r.op][n], r)
        /\ \A m \in 1 .. n - 1 : Passes(Checks[r.op][m], r)
        /\ Reply(c, StatusOf[Checks[r.op][n]])
    /\ UNCHANGED <<working, idx, result, workerVars, closer, closes, phase, undefined>>

(* A request passes all checks of its handler. *)
Accept(c, r) ==
    /\ pc[c] = "idle"
    /\ phase = "serving"
    /\ \A n \in DOMAIN Checks[r.op] : Passes(Checks[r.op][n], r)
    /\ req' = [req EXCEPT ![c] = r]
    /\ http' = [http EXCEPT ![c] = 0]
    /\ pc' = [pc EXCEPT ![c] = IF r.op \in {"get", "snapshot"} THEN "read" ELSE "enqueue"]
    /\ UNCHANGED <<working, idx, result, workerVars, closer, closes, phase, undefined>>

(* get_order asks the repository, get_orderbook_snapshot walks the book on  *)
(* the server's own thread.                                                 *)
Read(c) ==
    /\ pc[c] = "read"
    /\ \E status \in IF req[c].op = "get" THEN {200, 404} ELSE {200} : Reply(c, status)
    /\ UNCHANGED <<working, idx, result, workerVars, closer, closes, phase, undefined>>

(* The thread_id of enqueue_task. *)
WorkerOf(c) == idx[req[c].instrument]

(* add_order, modify_order and cancel_order make the task and begin to push *)
(* it.  An index past the workers of the pool is undefined behaviour.       *)
EnqueueTask(c) ==
    /\ pc[c] = "enqueue"
    /\ IF WorkerOf(c) \in Worker
       THEN /\ pc' = [pc EXCEPT ![c] = "push"]
            /\ clash' = (clash \/ \E d \in Shard : pc[d] = "push" /\ WorkerOf(d) = WorkerOf(c))
            /\ UNCHANGED undefined
       ELSE /\ undefined' = TRUE
            /\ UNCHANGED <<pc, clash>>
    /\ UNCHANGED <<working, idx, req, result, http, ring, busy, closer, closes, phase>>

(* Mutant of Pushed: the handler does not wait for the future. *)
PushedNoWait(c) ==
    /\ pc[c] = "push"
    /\ ring' = [ring EXCEPT ![WorkerOf(c)] = Append(@, c)]
    /\ Reply(c, 200)
    /\ UNCHANGED <<working, idx, result, busy, clash, closer, closes, phase, undefined>>

Pushed(c) ==
    /\ pc[c] = "push"
    /\ \/ ring' = [ring EXCEPT ![WorkerOf(c)] = Append(@, c)]
       \/ clash /\ UNCHANGED ring
    /\ pc' = [pc EXCEPT ![c] = "wait"]
    /\ UNCHANGED <<working, idx, req, result, http, busy, clash, closer, closes, phase, undefined>>

(* The handler's status for a result: only cancel looks at it. *)
StatusFor(op, res) == IF op = "cancel" /\ res = "NOT_FOUND" THEN 404 ELSE 200

(* future.get returns. *)
Answer(c) ==
    /\ pc[c] = "wait"
    /\ result[c] # NoTask
    /\ Reply(c, StatusFor(req[c].op, result[c]))
    /\ result' = [result EXCEPT ![c] = NoTask]
    /\ UNCHANGED <<working, idx, workerVars, closer, closes, phase, undefined>>

-----------------------------------------------------------------------------
(* The workers: process_messages of FunctionTask *)

(* Mutant of RunTask: the task stays in the ring and is executed again. *)
RunTaskAgain(w) ==
    /\ busy[w] = NoTask
    /\ ring[w] # << >>
    /\ phase \notin {"pool", "gone"}
    /\ busy' = [busy EXCEPT ![w] = Head(ring[w])]
    /\ UNCHANGED <<working, idx, handlerVars, ring, clash, closer, closes, phase, undefined>>

RunTask(w) ==
    /\ busy[w] = NoTask
    /\ ring[w] # << >>
    /\ phase \notin {"pool", "gone"}
    /\ busy' = [busy EXCEPT ![w] = Head(ring[w])]
    /\ ring' = [ring EXCEPT ![w] = Tail(@)]
    /\ UNCHANGED <<working, idx, handlerVars, clash, closer, closes, phase, undefined>>

(* After a clash: any task that is still waited for may be at the read      *)
(* position, and what lies before it is passed over (it may come up in the  *)
(* same way, or never).  A push counts as done when its slot is written.    *)
RunOutOfTurn(w) ==
    /\ clash
    /\ busy[w] = NoTask
    /\ phase \notin {"pool", "gone"}
    /\ \E c \in Shard :
        /\ pc[c] = "wait" /\ result[c] = NoTask /\ WorkerOf(c) = w
        /\ busy' = [busy EXCEPT ![w] = c]
    /\ ring' = [ring EXCEPT ![w] = << >>]
    /\ UNCHANGED <<working, idx, handlerVars, clash, closer, closes, phase, undefined>>

(* Or nothing is there: the slot was moved out of, and the call of an empty *)
(* std::function throws on the worker's thread; or a push is writing it.    *)
RunEmptySlot(w) ==
    /\ clash
    /\ busy[w] = NoTask
    /\ phase \notin {"pool", "gone"}
    /\ undefined' = TRUE
    /\ UNCHANGED <<working, idx, handlerVars, workerVars, closer, closes, phase>>

(* What the book answers to each kind of task. *)
ResultsOf(op) ==
    CASE op = "create" -> {"ACCEPTED", "MATCHED", "NOT_MATCHED"}
      [] op = "update" -> {"MODIFIED", "NOT_FOUND"}
      [] op = "cancel" -> {"CANCELLED", "NOT_FOUND"}

(* Mutant of FinishTask: the promise is not set. *)
FinishUnset(w) ==
    /\ busy[w] # NoTask
    /\ busy' = [busy EXCEPT ![w] = NoTask]
    /\ UNCHANGED <<working, idx, handlerVars, ring, clash, closer, closes, phase, undefined>>

(* The task has run; the packaged_task sets the promise. *)
FinishTask(w) ==
    LET c == busy[w] IN
    /\ c # NoTask
    /\ \E res \in ResultsOf(req[c].op) : result' = [result EXCEPT ![c] = res]
    /\ busy' = [busy EXCEPT ![w] = NoTask]
    /\ UNCHANGED <<working, idx, pc, req, http, ring, clash, closer, closes, phase, undefined>>

-----------------------------------------------------------------------------
(* The closing thread and add_instrument.  A thread that was told to stop   *)
(* in its sleep still does what the end of the turn says.                   *)

OpenMarket ==
    /\ phase \in {"serving", "stopping", "join"}
    /\ closer = {}
    /\ ~working
    /\ working' = TRUE
    /\ UNCHANGED <<idx, handlerVars, workerVars, closer, closes, phase, undefined>>

CloseMarket ==
    /\ phase \in {"serving", "stopping", "join"}
    /\ working
    /\ closes < MaxCloses
    /\ working' = FALSE
    /\ closer' = Known
    /\ closes' = closes + 1
    /\ UNCHANGED <<idx, handlerVars, workerVars, phase, undefined>>

(* check_date_orders of one book, on the closing thread. *)
CheckBook(i) ==
    /\ i \in closer
    /\ closer' = closer \ {i}
    /\ UNCHANGED <<working, idx, handlerVars, workerVars, closes, phase, undefined>>

(* The index of a new instrument is the number of instruments. *)
AddInstrument(i) ==
    /\ phase = "serving"
    /\ i \notin Known
    /\ idx' = [idx EXCEPT ![i] = Cardinality(Known)]
    /\ UNCHANGED <<working, handlerVars, workerVars, closer, closes, phase, undefined>>

-----------------------------------------------------------------------------
(* The end of main *)

(* server.stop: no request arrives any more. *)
StopServer ==
    /\ phase = "serving"
    /\ phase' = "stopping"
    /\ UNCHANGED <<working, idx, handlerVars, workerVars, closer, closes, undefined>>

(* Mutant of ServerStopped: main does not wait for server.stop. *)
ServerAbandoned ==
    /\ phase = "stopping"
    /\ phase' = "join"
    /\ UNCHANGED <<working, idx, handlerVars, workerVars, closer, closes, undefined>>

(* It has waited for the handlers under way; the exchange is destroyed. *)
ServerStopped ==
    /\ phase = "stopping"
    /\ \A c \in Shard : pc[c] = "idle"
    /\ phase' = "join"
    /\ UNCHANGED <<working, idx, handlerVars, workerVars, closer, closes, undefined>>

(* ~Exchange joins the closing thread. *)
JoinCloser ==
    /\ phase = "join"
    /\ closer = {}
    /\ phase' = "pool"
    /\ UNCHANGED <<working, idx, handlerVars, workerVars, closer, closes, undefined>>

(* The members go: the pool joins its workers, what is in their rings is    *)
(* dropped, and then the books are destroyed.                               *)
JoinWorkers ==
    /\ phase = "pool"
    /\ \A w \in Worker : busy[w] = NoTask
    /\ phase' = "gone"
    /\ ring' = [w \in Worker |-> << >>]
    /\ UNCHANGED <<working, idx, handlerVars, busy, clash, closer, closes, undefined>>

-----------------------------------------------------------------------------
Handle(c)   == Read(c) \/ EnqueueTask(c) \/ Pushed(c) \/ Answer(c)
Work(w)     == RunTask(w) \/ RunOutOfTurn(w) \/ RunEmptySlot(w) \/ FinishTask(w)
Closing     == \E i \in Instrument : CheckBook(i)
Shutdown    == ServerStopped \/ JoinCloser \/ JoinWorkers

Next ==
    /\ ~undefined
    /\ \/ \E c \in Shard : Handle(c) \/ \E r \in Request : Refuse(c, r) \/ Accept(c, r)
       \/ \E w \in Worker : Work(w)
       \/ OpenMarket \/ CloseMarket \/ Closing
       \/ \E i \in Instrument : AddInstrument(i)
       \/ StopServer \/ Shutdown

(* Every thread goes on with what it has begun; nobody has to send a        *)
(* request, to open the market or to stop the server.                       *)
Spec ==
    /\ Init /\ [][Next]_vars
    /\ \A c \in Shard : WF_vars(~undefined /\ Handle(c))
    /\ \A w \in Worker : WF_vars(~undefined /\ Work(w))
    /\ WF_vars(~undefined /\ Closing)
    /\ WF_vars(~undefined /\ Shutdown)

-----------------------------------------------------------------------------
(* Correctness *)

(* Every variable of the exchange keeps its type. *)
TypeOK ==
    /\ working \in BOOLEAN
    /\ idx \in [Instrument -> Int]
    /\ pc \in [Shard -> {"idle", "enqueue", "push", "wait", "read"}]
    /\ req \in [Shard -> Request \cup {NoTask}]
    /\ result \in [Shard -> Result \cup {NoTask}]
    /\ http \in [Shard -> {0, 200, 204, 400, 404}]
    /\ ring \in [Worker -> Seq(Shard)]
    /\ busy \in [Worker -> Shard \cup {NoTask}]
    /\ clash \in BOOLEAN
    /\ closer \subseteq Instrument
    /\ closes \in 0 .. MaxCloses
    /\ phase \in {"serving", "stopping", "join", "pool", "gone"}
    /\ undefined \in BOOLEAN

(* What worker w executes (i = 0) or has at place i of its ring. *)
TaskAt(w, i) == IF i = 0 THEN busy[w] ELSE ring[w][i]

(* A task refers to the order, the id and the book pointer on the stack of  *)
(* its caller: wherever a task is, its caller still waits for it.  It is    *)
(* there once, and only with the worker of its instrument: no book has two  *)
(* workers, and no ring holds more tasks than there are shards.             *)
TaskRefsLive ==
    \A w \in Worker : \A i \in 0 .. Len(ring[w]) :
        LET c == TaskAt(w, i) IN
        c # NoTask =>
            /\ pc[c] = "wait" /\ result[c] = NoTask
            /\ idx[req[c].instrument] = w
            /\ \A j \in 0 .. Len(ring[w]) : TaskAt(w, j) = c => j = i

(* When the workers are stopped no task is dropped and nobody is using a    *)
(* book: no handler waits, no worker runs and the closing thread is done.   *)
CleanShutdown ==
    phase \in {"pool", "gone"} =>
        /\ \A c \in Shard : pc[c] = "idle"
        /\ \A w \in Worker : ring[w] = << >> /\ busy[w] = NoTask
        /\ closer = {}

(* A call of the exchange, from the push of its task to the return of       *)
(* future.get.                                                              *)
Service == INSTANCE Calls WITH
    Caller   <- Shard,
    NoResult <- NoTask,
    waiting  <- {c \in Shard : pc[c] = "wait"},
    answer   <- result

(* The exchange executes each call once, while its caller waits for it.     *)
ImplementsCalls == Service!Spec

(* Every request is answered, as long as no two pushes into a ring have     *)
(* overlapped.                                                              *)
AnsweredInTheEnd == \A c \in Shard : pc[c] # "idle" ~> pc[c] = "idle" \/ clash \/ undefined

(* main returns once it has been told to stop, under the same condition.    *)
ShutdownEnds == phase = "stopping" ~> phase = "gone" \/ clash \/ undefined

(* README.md:53, "Each object communicates with others using a lock-free    *)
(* ring buffer": no thread looks into a book whose worker is at work.       *)
OneThreadPerBook ==
    \A w \in Worker : busy[w] # NoTask =>
        LET i == req[busy[w]].instrument IN
        /\ i \notin closer
        /\ \A c \in Shard : pc[c] = "read" => req[c].op # "snapshot" \/ req[c].instrument # i
=============================================================================
