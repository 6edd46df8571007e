---------------------------- MODULE CommandQueue ----------------------------
\* The host's command queue (src/ids/CommandQueue.cpp): the queue thread of
\* main_command_queue.h adds its periodic commands, then runs one command in
\* each turn and queues the periodic ones that are due; the command thread
\* (main_cnc_wait.h) adds one more and pushes pictures.  Neither takes a lock.
\* A push reads the end of the queue and later writes the end it has computed;
\* what is done to the queue between is undone or goes astray.  Time is
\* processor time of the whole process, kept as what is left until
\* Periodic::next.
EXTENDS Integers, Sequences, FiniteSets

CONSTANTS
  Own,         \* commands the queue thread adds itself, in their order
  Late,        \* the command the command thread adds: the frame proxy
  Picture,     \* the command a client asks for
  Period,      \* Periodic::period of Own and Late
  MaxCost,     \* processor time that passes in one turn, at most
  Limit,       \* commands beyond which the loop throws: 100
  MaxPictures  \* bound on the pictures that wait at the same time

VARIABLES
  q,         \* the std::queue
  per_cmds,  \* the std::vector of periodic commands, by their command
  left,      \* Periodic::next minus now; meaningless while next is 0
  unset,     \* the commands whose next is still 0
  turn,      \* the queue thread is to "start", to "take" or to "generate"
  own,       \* how many of its commands the queue thread has added
  ran,       \* the command the turn has run, Nothing for none
  cncTurn,   \* the command thread is to "add", is "idle", or in a "push"
  tail,      \* in a push, the end of the queue that it has read, counted from
             \* the present head
  ended,     \* the loop has thrown, or the process has crashed
  raced      \* history: the threads have been in q or in per_cmds together
queueVars == <<q, per_cmds, left, unset, turn, own, ran, cncTurn, tail, ended, raced>>

Nothing == "nothing"
Elements(s) == {s[i] : i \in DOMAIN s}
Periodic == Elements(Own) \union {Late}
Commands == Periodic \union {Picture}

\* The queue thread adds each of its commands once.
ASSUME QueueAssumption ==
  /\ Own \in Seq(Elements(Own)) /\ \A i, j \in DOMAIN Own : Own[i] = Own[j] => i = j
  /\ Own # <<>>
  /\ Period \in [Periodic -> Nat \ {0}]
  /\ MaxCost \in Nat /\ Limit \in Nat /\ MaxPictures \in Nat
  /\ Late \notin Elements(Own) /\ Picture \notin Periodic
  /\ Nothing \notin Commands

QueueInit ==
  /\ q = <<>> /\ per_cmds = <<>>
  /\ left = [c \in Periodic |-> 0] /\ unset = Periodic
  /\ turn = "start" /\ own = 0 /\ ran = Nothing
  /\ cncTurn = "add" /\ tail = 0
  /\ ended = FALSE /\ raced = FALSE

\* t units of processor time pass, in this thread or in another one.
later(t) ==
  [c \in DOMAIN left |-> IF c \in unset THEN left[c] ELSE left[c] - t]
due_Started(c) == c \notin unset /\ left[c] <= 0
due(c) == c \in unset \/ left[c] <= 0
\* The commands that are due, in the order of the vector.
dueSlots == {i \in DOMAIN per_cmds : due(per_cmds[i])}
place(i) == Cardinality({j \in dueSlots : j <= i})
dueNow == [k \in 1..Cardinality(dueSlots) |->
             per_cmds[CHOOSE i \in dueSlots : place(i) = k]]
\* Periodic::next after a push, for the commands S.
advanced_Never(S) ==
  [c \in DOMAIN left |-> IF c \in S /\ c \in unset THEN Period[c] ELSE left[c]]
advanced(S) ==
  [c \in DOMAIN left |-> IF c \in S THEN left[c] + Period[c] ELSE left[c]]

occurrences(c) == {i \in DOMAIN q : q[i] = c}

-----------------------------------------------------------------------------
\* The queue thread, before its loop.
AddOwn ==
  /\ turn = "start"
  /\ per_cmds' = Append(per_cmds, Own[own + 1])
  /\ own' = own + 1
  /\ turn' = IF own + 1 = Len(Own) THEN "take" ELSE "start"
  /\ UNCHANGED <<q, left, unset, ran, cncTurn, tail, ended, raced>>

\* The top of the loop: throw, or run the oldest command, or sleep.
Overflow ==
  /\ turn = "take" /\ Len(q) > Limit
  /\ ended' = TRUE
  /\ UNCHANGED <<q, per_cmds, left, unset, turn, own, ran, cncTurn, tail, raced>>

\* pop moves the head; the end a push has read is now one place nearer to it.
\* More than one place before it makes no difference.
Run_PopFirst(t) ==
  /\ turn = "take" /\ Len(q) <= Limit /\ q # <<>>
  /\ ran' = IF Tail(q) # <<>> THEN Head(Tail(q)) ELSE Nothing
  /\ q' = Tail(q)
  /\ tail' = IF cncTurn = "push" /\ tail > -2 THEN tail - 1 ELSE tail
  /\ raced' = (raced \/ cncTurn = "push")
  /\ left' = later(t)
  /\ turn' = "generate"
  /\ UNCHANGED <<per_cmds, unset, own, cncTurn, ended>>
Run(t) ==
  /\ turn = "take" /\ Len(q) <= Limit /\ q # <<>>
  /\ ran' = Head(q)
  /\ q' = Tail(q)
  /\ tail' = IF cncTurn = "push" /\ tail > -2 THEN tail - 1 ELSE tail
  /\ raced' = (raced \/ cncTurn = "push")
  /\ left' = later(t)
  /\ turn' = "generate"
  /\ UNCHANGED <<per_cmds, unset, own, cncTurn, ended>>

Sleep(t) ==
  /\ turn = "take" /\ q = <<>>
  /\ ran' = Nothing
  /\ left' = later(t)
  /\ turn' = "generate"
  /\ UNCHANGED <<q, per_cmds, unset, own, cncTurn, tail, ended, raced>>

\* gen_periodic: each command that is due once, however late it is.
Generate ==
  /\ turn = "generate"
  /\ q' = q \o dueNow
  /\ left' = advanced(Elements(dueNow))
  /\ unset' = unset \ Elements(dueNow)
  /\ turn' = "take"
  /\ raced' = (raced \/ (cncTurn = "push" /\ dueNow # <<>>))
  /\ UNCHANGED <<per_cmds, own, ran, cncTurn, tail, ended>>

-----------------------------------------------------------------------------
\* The command thread, before its loop.
AddPeriodic_Again ==
  /\ cncTurn # "push"
  /\ per_cmds' = Append(per_cmds, Late)
  /\ cncTurn' = "idle"
  /\ UNCHANGED <<q, left, unset, turn, own, ran, tail, ended, raced>>
AddPeriodic ==
  /\ cncTurn = "add"
  /\ per_cmds' = Append(per_cmds, Late)
  /\ cncTurn' = "idle"
  /\ UNCHANGED <<q, left, unset, turn, own, ran, tail, ended, raced>>

\* push reads the end of the queue ...
PushRead ==
  /\ cncTurn = "idle" /\ Cardinality(occurrences(Picture)) < MaxPictures
  /\ cncTurn' = "push" /\ tail' = Len(q)
  /\ UNCHANGED <<q, per_cmds, left, unset, turn, own, ran, ended, raced>>

\* ... and stores the picture there and the end one place on.  An end that lies
\* before the head is a size beyond every limit: the loop throws.
pushed == [i \in 1..(tail + 1) |-> IF i <= tail THEN q[i] ELSE Picture]
PushWrite ==
  /\ cncTurn = "push"
  /\ q' = IF tail + 1 >= 0 THEN pushed ELSE q
  /\ ended' = (tail + 1 < 0)
  /\ cncTurn' = "idle" /\ tail' = 0
  /\ UNCHANGED <<per_cmds, left, unset, turn, own, ran, raced>>

-----------------------------------------------------------------------------
\* Both threads in the vector.  Two push_backs: one may overwrite the other,
\* and both may free the same memory.
AddWhileAdding ==
  /\ turn = "start" /\ cncTurn = "add"
  /\ \E c \in {Own[own + 1], Late} : per_cmds' = Append(per_cmds, c)
  /\ own' = own + 1
  /\ turn' = IF own + 1 = Len(Own) THEN "take" ELSE "start"
  /\ cncTurn' = "idle"
  /\ ended' \in BOOLEAN /\ raced' = TRUE
  /\ UNCHANGED <<q, left, unset, ran, tail>>

\* The vector moves under gen_periodic.  What is written to the old elements
\* after they were copied is lost, so a command pushed may still be due; and an
\* iterator in the old memory never meets the new end(): the loop walks on
\* through what is no Periodic, and that ends the process, then or when what
\* it has pushed is run.
GenerateWhileAdding ==
  /\ turn = "generate" /\ cncTurn = "add"
  /\ per_cmds' = Append(per_cmds, Late)
  /\ \E S \in SUBSET Elements(dueNow) :
       left' = advanced(S) /\ unset' = unset \ S
  /\ q' = q \o dueNow
  /\ turn' = "take" /\ cncTurn' = "idle"
  /\ ended' \in BOOLEAN /\ raced' = TRUE
  /\ UNCHANGED <<own, ran, tail>>

\* Both threads in the queue.  The queue thread's push has read the end before
\* the other one writes it and writes it after: the picture is lost, or takes
\* the place of a command.
GenerateWhilePushing ==
  /\ turn = "generate" /\ cncTurn = "push" /\ dueNow # <<>>
  /\ LET both == q \o dueNow IN
     \/ q' = both
     \/ tail >= 0 /\ q' = [both EXCEPT ![tail + 1] = Picture]
  /\ left' = advanced(Elements(dueNow))
  /\ unset' = unset \ Elements(dueNow)
  /\ turn' = "take" /\ cncTurn' = "idle" /\ tail' = 0
  /\ raced' = TRUE
  /\ UNCHANGED <<per_cmds, own, ran, ended>>

\* The end of the queue moves to another block, or the table of its blocks
\* moves, under size, front, pop or push: the loop throws or the process ends.
MeetInQueue ==
  /\ turn \in {"take", "generate"} /\ cncTurn = "push"
  /\ ended' = TRUE /\ raced' = TRUE
  /\ UNCHANGED <<q, per_cmds, left, unset, turn, own, ran, cncTurn, tail>>

QueueThread == AddOwn \/ Overflow \/ Generate \/ \E t \in 0..MaxCost : Run(t) \/ Sleep(t)
CommandThread == AddPeriodic \/ PushRead \/ PushWrite
Both == AddWhileAdding \/ GenerateWhileAdding \/ GenerateWhilePushing \/ MeetInQueue
QueueNext == ~ ended /\ (QueueThread \/ CommandThread \/ Both)

QueueSpec == QueueInit /\ [][QueueNext]_queueVars

\* The queue thread is never done, and some thread of the process always uses
\* some processor time in the end: without that no command is ever due.
Busy == ~ ended /\ \E t \in 1..MaxCost : Run(t) \/ Sleep(t)
FairQueueSpec ==
  /\ QueueSpec
  /\ WF_queueVars(~ ended /\ QueueThread) /\ SF_queueVars(Busy)
  /\ WF_queueVars(~ ended /\ AddPeriodic)

-----------------------------------------------------------------------------
\* Every variable stays in its type.
QueueTypeOK ==
  /\ q \in Seq(Commands)
  /\ per_cmds \in Seq(Periodic)
  /\ left \in [Periodic -> Int] /\ unset \subseteq Periodic
  /\ turn \in {"start", "take", "generate"}
  /\ own \in 0..Len(Own) /\ (turn = "start" => own < Len(Own))
  /\ ran \in Commands \union {Nothing}
  /\ cncTurn \in {"add", "idle", "push"}
  /\ tail \in (IF cncTurn = "push" THEN -2..Len(q) ELSE {0})
  /\ ended \in BOOLEAN /\ raced \in BOOLEAN

\* The load the loop can bear: every command that may wait at the same time is
\* run within each period, and their number is within the limit.
Most == Len(Own) + 1 + MaxPictures
LightLoad ==
  Most <= Limit /\ \A c \in Periodic : Most * MaxCost <= Period[c]

\* Under a light load the loop never throws and the process never crashes
\* before the two threads have met in the queue or in the vector
\* (main_command_queue.h:32).
NoOverflow == ended => raced

\* Under a light load a periodic command waits at most once, whatever pictures
\* are queued between (CommandQueue.cpp:60-65), until the two threads meet.
QueuedOnce ==
  ~ raced => \A c \in Elements(per_cmds) :
               \A i, j \in occurrences(c) : i = j

QueueInv == QueueTypeOK /\ QueuedOnce

\* Every periodic command goes on being run: none is starved by the others or
\* by pictures (main_command_queue.h:34-57), unless the two threads meet: then
\* a command may be lost from the vector, or the process end.
EachRunsForever == \A c \in Periodic : []<>(ran = c \/ raced)

\* A picture that is in the queue is taken, unless a push meets gen_periodic,
\* size, front or pop (main_command_queue.h:32-57).
PictureTaken == (occurrences(Picture) # {}) ~> (ran = Picture \/ raced)
=============================================================================
