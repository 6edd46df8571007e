----------------------------- MODULE ByteBuffer -----------------------------
(***************************************************************************)
(* The circular buffer of the firmware (struct _BUFFER and the BUFF_       *)
(* functions), one instance of which carries the bytes received from the   *)
(* Atom board and another the bytes to send to it.  One slot always stays  *)
(* free: head = tail means empty, and a buffer of MAX_BUFFSIZE slots holds *)
(* MAX_BUFFSIZE - 1 characters.                                            *)
(***************************************************************************)
EXTENDS Integers, Sequences

CONSTANTS MAX_BUFFSIZE,  \* number of slots (500 in the firmware)
          Char           \* the C chars that are stored: -1 is also BUFF_EMPTY

ASSUME SizeAssumption == MAX_BUFFSIZE \in Nat /\ MAX_BUFFSIZE > 1
ASSUME CharAssumption == {-1, 0} \subseteq Char /\ Char \subseteq Int

BUFF_FULL == 1
BUFF_EMPTY == -1
BUFF_NORMAL == 0

Slot == 0 .. MAX_BUFFSIZE - 1

VARIABLES head, tail, data,
          ret               \* the value the last call returned

vars == <<head, tail, data, ret>>

\* static storage, zeroed, and the assignments at the start of main
Init == /\ head = 0 /\ tail = 0
        /\ data = [s \in Slot |-> 0]
        /\ ret = BUFF_NORMAL

following_NoWrap(s) == s + 1     \* fault: the index never returns to slot 0

following(s) == (s + 1) % MAX_BUFFSIZE

\* fault: full is only noticed once head = tail, which already means empty
BUFF_push_NoGap(c) ==
  /\ data' = [data EXCEPT ![tail] = c]
  /\ tail' = following(tail)
  /\ ret' = BUFF_NORMAL
  /\ UNCHANGED head

BUFF_push(c) ==
  \/ /\ following(tail) = head
     /\ ret' = BUFF_FULL
     /\ UNCHANGED <<head, tail, data>>
  \/ /\ following(tail) # head
     /\ data' = [data EXCEPT ![tail] = c]
     /\ tail' = following(tail)
     /\ ret' = BUFF_NORMAL
     /\ UNCHANGED head

BUFF_pop ==
  \/ /\ head = tail
     /\ ret' = BUFF_EMPTY
     /\ UNCHANGED <<head, tail, data>>
  \/ /\ head # tail
     /\ ret' = data[head]
     /\ head' = following(head)
     /\ UNCHANGED <<tail, data>>

status == IF head = tail THEN BUFF_EMPTY
          ELSE IF following(tail) = head THEN BUFF_FULL
          ELSE BUFF_NORMAL

BUFF_status == ret' = status /\ UNCHANGED <<head, tail, data>>

Next == BUFF_pop \/ BUFF_status \/ \E c \in Char : BUFF_push(c)

Spec == Init /\ [][Next]_vars

-----------------------------------------------------------------------------
\* Both indices stay inside the array and every slot holds a char: no call
\* sequence makes BUFF_push or BUFF_pop touch memory outside data.
TypeOK == /\ head \in Slot /\ tail \in Slot
          /\ data \in [Slot -> Char]
          /\ ret \in Char \cup {BUFF_FULL}

\* The characters in the buffer, oldest first: the slots from head up to tail,
\* continuing at slot 0 after the last one.
Count == IF head <= tail THEN tail - head ELSE tail - head + MAX_BUFFSIZE
slotOf(i) == IF head + i <= MAX_BUFFSIZE THEN head + i - 1
             ELSE head + i - 1 - MAX_BUFFSIZE
contents == [i \in 1 .. Count |-> data[slotOf(i)]]

Fifo == INSTANCE BoundedFifo WITH Capacity <- MAX_BUFFSIZE - 1, queue <- contents

\* Whatever the calls and wherever the indices wrap, the buffer delivers the
\* accepted characters once each and in order, and refuses a character only
\* when MAX_BUFFSIZE - 1 of them are waiting.
ImplementsFifo == Fifo!Spec
=============================================================================
