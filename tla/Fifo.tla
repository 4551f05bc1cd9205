------------------------------- MODULE Fifo -------------------------------
(***************************************************************************)
(* What the users of a RingBuffer rely on: a channel that delivers every   *)
(* message once and in the order it was sent.  Messages are numbered in    *)
(* the order of sending, so the channel holds Len(got) + 1 .. sent.  Once  *)
(* its users have strained it nothing is promised.                         *)
(***************************************************************************)
EXTENDS Naturals, Sequences

VARIABLES
    sent,       \* number of messages sent
    got,        \* the messages received
    strained    \* have the users gone beyond what the channel stands?

vars == <<sent, got, strained>>

Init == sent = 0 /\ got = << >> /\ strained = FALSE

Send == sent' = sent + 1 /\ UNCHANGED <<got, strained>>

Receive ==
    /\ Len(got) < sent
    /\ got' = Append(got, Len(got) + 1)
    /\ UNCHANGED <<sent, strained>>

(* Anything may happen to the messages, now and later. *)
Strain == strained'

Next == Send \/ Receive \/ Strain

Spec == Init /\ [][Next]_vars
=============================================================================
