------------------------------- MODULE Calls -------------------------------
(***************************************************************************)
(* What a request handler relies on when it calls add_order, modify_order  *)
(* or cancel_order of the exchange: while the caller waits its task is     *)
(* executed once, it goes on only when there is a result, and what the     *)
(* execution has left is for this call alone.                              *)
(***************************************************************************)
CONSTANTS
    Caller,     \* the threads that call
    Result,     \* what an execution may give
    NoResult    \* there is none yet

VARIABLES
    waiting,    \* the callers that wait for an answer
    answer      \* caller -> the result its execution has left

vars == <<waiting, answer>>

Init == waiting = {} /\ answer = [c \in Caller |-> NoResult]

Call(c) ==
    /\ c \notin waiting
    /\ waiting' = waiting \cup {c}
    /\ UNCHANGED answer

Execute(c) ==
    /\ c \in waiting
    /\ answer[c] = NoResult
    /\ \E r \in Result : answer' = [answer EXCEPT ![c] = r]
    /\ UNCHANGED waiting

Return(c) ==
    /\ c \in waiting
    /\ answer[c] # NoResult
    /\ waiting' = waiting \ {c}
    /\ answer' = [answer EXCEPT ![c] = NoResult]

Next == \E c \in Caller : Call(c) \/ Execute(c) \/ Return(c)

Spec == Init /\ [][Next]_vars
=============================================================================
