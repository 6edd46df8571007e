--------------------------- MODULE WheelOdometry ---------------------------
\* The numbers of the host's odometry: how the 16-bit encoder counts and the
\* time stamps of two states become a movement, and when it is refused
\* (src/ids/minotaur.cpp, Minotaur::recv from line 180 on).  The position is
\* kept per wheel as the sum of the movements accepted, from which the code
\* computes x, y and the orientation.  How packets get here is MinosReceive; a
\* count torn by an interrupt between its two bytes is in WheelEncoder, and
\* left out here.
EXTENDS Integers

CONSTANTS
  Wheels,
  Radix,        \* values of a byte: 256
  Ticks, Time,  \* a movement is plausible below Ticks[w] counts in Time
                \* microseconds: 249 in 16000 left, 493 in 32000 right
  Travel,       \* bound: encoder w counts within Travel[w] of the start
  MaxTime       \* bound on the clock

ASSUME OdometryAssumption ==
  /\ Radix \in Nat \ {0} /\ Radix % 2 = 0
  /\ Ticks \in [Wheels -> Nat] /\ Time \in Nat
  /\ Travel \in [Wheels -> SUBSET Int] /\ MaxTime \in Nat
  /\ "ir" \notin Wheels

VARIABLES
  wheel,     \* what the robot has counted of each wheel, never wrapping
  now,       \* processor time (getMicroseconds)
  current,   \* currentState
  next,      \* nextState
  position   \* movement taken into x, y and orient, per wheel
vars == <<wheel, now, current, next, position>>

\* A state records what the robot had counted, from which the count follows.
Fresh == [stamp |-> 0, stamped |-> FALSE, tick |-> [w \in Wheels |-> 0],
          got |-> {}]
Sensors == Wheels \union {"ir"}

\* The two bytes of a count.  The robot sends the high one first, and the host
\* takes the first one for the low one.
Modulus == Radix * Radix
high(n) == (n % Modulus) \div Radix
low(n) == (n % Modulus) % Radix
udata16(n) == Radix * low(n) + high(n)
count(s, w) == udata16(s.tick[w])
sensorsComplete(s) == s.got = Sensors

\* The wrapped difference of two counts, lines 238 to 253.
wrap_ByLargest(d) == IF d > Modulus \div 2 THEN d - (Modulus - 1)
                     ELSE IF d < -(Modulus \div 2) THEN d + (Modulus - 1) ELSE d
wrap(d) == IF d > Modulus \div 2 THEN d - Modulus
           ELSE IF d < -(Modulus \div 2) THEN d + Modulus ELSE d
diff(s, w) == IF current.stamped THEN wrap(count(s, w) - count(current, w))
              ELSE 0
size(d) == IF d < 0 THEN -d ELSE d
plausible(s) == \A w \in Wheels :
  size(diff(s, w)) * Time < (s.stamp - current.stamp) * Ticks[w]

\* The packets served by one call of recv, in any number: the first of them
\* stamps nextState unless an earlier call has.
served_Restamp(S) ==
  [stamp   |-> IF S = {} THEN next.stamp ELSE now,
   stamped |-> next.stamped \/ S # {},
   tick    |-> [w \in Wheels |-> IF w \in S THEN wheel[w] ELSE next.tick[w]],
   got     |-> next.got \union S]
served(S) ==
  [stamp   |-> IF S = {} \/ next.stamped THEN next.stamp ELSE now,
   stamped |-> next.stamped \/ S # {},
   tick    |-> [w \in Wheels |-> IF w \in S THEN wheel[w] ELSE next.tick[w]],
   got     |-> next.got \union S]

Init ==
  /\ wheel = [w \in Wheels |-> 0]
  /\ now = 0
  /\ current = Fresh
  /\ next = Fresh
  /\ position = [w \in Wheels |-> 0]

Move(w, d) ==
  /\ wheel[w] + d \in Travel[w]
  /\ wheel' = [wheel EXCEPT ![w] = @ + d]
  /\ UNCHANGED <<now, current, next, position>>

Elapse ==
  /\ now < MaxTime
  /\ now' = now + 1
  /\ UNCHANGED <<wheel, current, next, position>>

\* nextState stays incomplete, or is refused and kept with its time stamp.
\* The state accepted first makes both currentState.valid_ts and valid_pos
\* true, for good: current.stamped stands for both.
Keep_FirstToo(S) ==
  /\ ~ sensorsComplete(served(S)) \/ ~ plausible(served(S))
  /\ next' = served(S)
  /\ UNCHANGED <<wheel, now, current, position>>
Keep(S) ==
  /\ ~ sensorsComplete(served(S)) \/ (current.stamped /\ ~ plausible(served(S)))
  /\ next' = served(S)
  /\ UNCHANGED <<wheel, now, current, position>>

Accept(S) ==
  LET s == served(S) IN
  /\ sensorsComplete(s)
  /\ current.stamped => plausible(s)
  /\ position' = [w \in Wheels |-> position[w] + diff(s, w)]
  /\ current' = s
  /\ next' = Fresh
  /\ UNCHANGED <<wheel, now>>

Next ==
  \/ \E w \in Wheels, d \in {-1, 1} : Move(w, d)
  \/ Elapse
  \/ \E S \in SUBSET Sensors : Keep(S) \/ Accept(S)

Spec == Init /\ [][Next]_vars

-----------------------------------------------------------------------------
State == [stamp : 0..MaxTime, stamped : BOOLEAN, tick : [Wheels -> Int],
          got : SUBSET Sensors]

\* Every variable stays in its type; a state carries a time stamp exactly when
\* some sensor has reported to it, and never one ahead of the clock.
TypeOK ==
  /\ wheel \in [Wheels -> Int]
  /\ now \in 0..MaxTime
  /\ current \in State /\ next \in State
  /\ position \in [Wheels -> Int]
  /\ current.stamp <= now /\ next.stamp <= now
  /\ current.stamped <=> current.got # {}
  /\ next.stamped <=> next.got # {}

\* A state that is complete and still waiting was refused, and stays so: its
\* time stamp is that of its first packet, so the speed it is judged by does
\* not fall as time passes (minotaur.cpp:188 and 259).
RefusedStaysImplausible ==
  sensorsComplete(next) => current.stamped /\ ~ plausible(next)

\* Both hold between any two packets.
OdometryInv == TypeOK /\ RefusedStaysImplausible

\* However many states were refused in between, and wherever the counters
\* wrapped, what an accepted state adds to the position of a wheel is what was
\* counted since the state accepted before it just if both bytes of the count
\* have changed by the same amount, for less than half a turn of the counter:
\* one tick is taken for 256, and 256 ticks for one (minotaur.cpp:215-220,
\* 238-253 and 310-314).
ExactIfBytesAgree ==
  [][current' # current /\ current.stamped =>
       \A w \in Wheels :
         LET before == current.tick[w]
             after == current'.tick[w]
         IN size(after - before) < Modulus \div 2 =>
              (position'[w] - position[w] = after - before
                 <=> high(after) - high(before) = low(after) - low(before))]_vars

\* Once a state has been refused, a later one is accepted only after the count
\* of some wheel, as the host reads it, has come nearer to the one accepted
\* last: no time that passes makes up for it.  Coming nearer takes a return of
\* the wheel only within a byte: 256 ticks further on are read as a difference
\* of one (minotaur.cpp:188, 259 and 301).
RefusedUntilNearer ==
  [][current' # current /\ sensorsComplete(next) =>
       \E w \in Wheels :
         size(wrap(count(current', w) - count(current, w)))
           < size(diff(next, w))]_vars
=============================================================================
