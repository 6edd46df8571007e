---------------------------- MODULE BoundedFifo ----------------------------
(***************************************************************************)
(* What the firmware's byte buffers promise to their callers: a first-in   *)
(* first-out queue of at most Capacity characters that refuses a character *)
(* when it is full and answers -1 when it is empty.                        *)
(***************************************************************************)
EXTENDS Integers, Sequences

CONSTANTS Capacity,   \* characters the queue can hold
          Char        \* the characters that travel through it

BUFF_FULL == 1
BUFF_EMPTY == -1
BUFF_NORMAL == 0

VARIABLES queue,      \* the characters waiting, oldest first
          ret         \* what the last call returned

vars == <<queue, ret>>

Init == queue = <<>> /\ ret = BUFF_NORMAL

Put(c) == \/ /\ Len(queue) < Capacity
             /\ queue' = Append(queue, c)
             /\ ret' = BUFF_NORMAL
          \/ /\ Len(queue) = Capacity
             /\ ret' = BUFF_FULL
             /\ UNCHANGED queue

Get == \/ /\ queue # <<>>
          /\ ret' = Head(queue)
          /\ queue' = Tail(queue)
       \/ /\ queue = <<>>
          /\ ret' = BUFF_EMPTY
          /\ UNCHANGED queue

\* asking for the state of the queue changes nothing but the answer
Ask == /\ ret' = IF queue = <<>> THEN BUFF_EMPTY
                 ELSE IF Len(queue) = Capacity THEN BUFF_FULL ELSE BUFF_NORMAL
       /\ UNCHANGED queue

Next == Get \/ Ask \/ \E c \in Char : Put(c)

Spec == Init /\ [][Next]_vars
=============================================================================
