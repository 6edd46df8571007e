------------------------ MODULE WheelOdometryProofs ------------------------
\* Proofs for WheelOdometry, for every even number of values of a byte, every
\* speed limit and every set of wheels.
EXTENDS WheelOdometry, TLAPS

LEMMA ModulusType ==
  /\ Radix \in Nat /\ Radix >= 2
  /\ Modulus \in Nat \ {0} /\ Modulus % 2 = 0
<1>1. Radix \in Nat /\ Radix >= 2 /\ Radix % 2 = 0
  BY OdometryAssumption
<1>2. PICK k \in Int : Radix = 2 * k
  BY <1>1
<1>3. Radix * Radix \in Int /\ Radix * Radix > 0
  BY <1>1
<1>4. Radix * Radix = 2 * (k * Radix) /\ k * Radix \in Int
  BY <1>1, <1>2
<1>5. ASSUME NEW m \in Int, NEW i \in Int, m = 2 * i PROVE m % 2 = 0
  BY <1>5
<1> QED BY <1>1, <1>3, <1>4, <1>5 DEF Modulus

\* A count is the position of the wheel less a whole number of turns.
LEMMA CountIsRemainder ==
  ASSUME NEW a \in Int
  PROVE  /\ a % Modulus \in 0..(Modulus - 1)
         /\ a = Modulus * (a \div Modulus) + (a % Modulus)
         /\ a \div Modulus \in Int
<1>1. Modulus \in Nat \ {0}
  BY ModulusType
<1> QED BY <1>1

\* A multiple of the modulus smaller than it is zero; one smaller than twice
\* it is zero or the modulus.
LEMMA SmallMultiple ==
  ASSUME NEW k \in Int, Modulus * k < 2 * Modulus, -(2 * Modulus) < Modulus * k
  PROVE  k \in {-1, 0, 1}
  BY ModulusType

\* The wrapped difference of two counts is the true one when that is less
\* than half a turn of the counter.
LEMMA WrapExact ==
  ASSUME NEW a \in Int, NEW b \in Int, size(a - b) < Modulus \div 2
  PROVE  wrap((a % Modulus) - (b % Modulus)) = a - b
<1> DEFINE qa == a \div Modulus
           qb == b \div Modulus
           ra == a % Modulus
           rb == b % Modulus
           h == Modulus \div 2
<1>1. /\ qa \in Int /\ qb \in Int
      /\ ra \in 0..(Modulus - 1) /\ rb \in 0..(Modulus - 1)
      /\ a = Modulus * qa + ra /\ b = Modulus * qb + rb
  BY CountIsRemainder
<1>2. h \in Int /\ Modulus \in Nat \ {0} /\ Modulus = 2 * h
  BY ModulusType
<1>3. a - b < h /\ -h < a - b
  BY <1>2 DEF size
<1>4. Modulus * (qa - qb) = (a - b) - (ra - rb)
  <2> HIDE DEF qa, qb, ra, rb, h
  <2>1. Modulus * (qa - qb) = Modulus * qa - Modulus * qb
    BY <1>1, <1>2
  <2>2. Modulus * qa \in Int /\ Modulus * qb \in Int
    BY <1>1, <1>2
  <2> QED BY <1>1, <1>2, <2>1, <2>2
<1>5. qa - qb \in {-1, 0, 1}
  <2> HIDE DEF qa, qb, ra, rb, h
  <2>1. qa - qb \in Int /\ Modulus * (qa - qb) < 2 * Modulus
        /\ -(2 * Modulus) < Modulus * (qa - qb)
    BY <1>1, <1>2, <1>3, <1>4
  <2> QED BY <2>1, SmallMultiple
<1>6. Modulus * (qa - qb) \in {-Modulus, 0, Modulus}
  <2> HIDE DEF qa, qb, ra, rb, h
  <2> QED BY <1>2, <1>5
<1>7. (ra - rb) \in {(a - b) + Modulus, a - b, (a - b) - Modulus}
  <2> HIDE DEF qa, qb, ra, rb, h
  <2> QED BY <1>1, <1>2, <1>4, <1>6
<1> HIDE DEF qa, qb, ra, rb, h
<1>8. wrap(ra - rb) = IF ra - rb > h THEN (ra - rb) - Modulus
                      ELSE IF ra - rb < -h THEN (ra - rb) + Modulus
                      ELSE ra - rb
  BY DEF wrap, h
<1>9. wrap(ra - rb) = a - b
  BY <1>1, <1>2, <1>3, <1>7, <1>8
<1> QED BY <1>9 DEF ra, rb

\* The two bytes of a count, and the count as the host reads it.
LEMMA Bytes ==
  ASSUME NEW n \in Int
  PROVE  /\ high(n) \in 0..(Radix - 1) /\ low(n) \in 0..(Radix - 1)
         /\ n % Modulus = Radix * high(n) + low(n)
         /\ udata16(n) = Radix * low(n) + high(n) /\ udata16(n) \in Int
<1> DEFINE c == n % Modulus
           h == c \div Radix
           l == c % Radix
<1>1. c \in 0..(Modulus - 1)
  BY CountIsRemainder
<1>2. /\ h \in Int /\ l \in 0..(Radix - 1) /\ c = Radix * h + l
  BY <1>1, ModulusType
<1> HIDE DEF c, h, l
<1>3. h >= 0
  <2>1. SUFFICES ASSUME h <= -1 PROVE FALSE
    BY <1>2
  <2>2. Radix * h <= -Radix
    BY <1>2, <2>1, ModulusType
  <2> QED BY <1>1, <1>2, <2>2, ModulusType
<1>4. h <= Radix - 1
  <2>1. SUFFICES ASSUME h >= Radix PROVE FALSE
    BY <1>2, ModulusType
  <2>2. Radix * h >= Radix * Radix
    BY <1>2, <2>1, ModulusType
  <2> QED BY <1>1, <1>2, <2>2, ModulusType DEF Modulus
<1>5. Radix * l + h \in Int
  BY <1>2, ModulusType
<1> QED BY <1>2, <1>3, <1>4, <1>5, ModulusType DEF high, low, udata16, c, h, l

\* Exchanging the two digits of a difference changes it by a whole number of
\* turns only if they are the same.
LEMMA DigitsAgree ==
  ASSUME NEW e \in Int, -(2 * Radix - 2) <= e, e <= 2 * Radix - 2,
         NEW j \in -2..2, (Radix - 1) * e = j * Modulus
  PROVE  e = 0
<1>1. Radix \in Nat /\ Radix >= 2 /\ Radix # 3
  BY OdometryAssumption
<1>2. CASE Radix = 2
  BY <1>2 DEF Modulus
<1>3. CASE Radix >= 4
  <2> DEFINE f == e - j * (Radix + 1)
  <2>1. f \in Int /\ (Radix - 1) * f = j
    <3>1. j * Modulus = (Radix - 1) * (j * (Radix + 1)) + j
      BY <1>1 DEF Modulus
    <3>2. (Radix - 1) * f = (Radix - 1) * e - (Radix - 1) * (j * (Radix + 1))
      BY <1>1
    <3>3. (Radix - 1) * (j * (Radix + 1)) \in Int
      BY <1>1
    <3> QED BY <1>1, <3>1, <3>2, <3>3
  <2>2. f = 0
    <3> HIDE DEF f
    <3>1. f >= 1 => (Radix - 1) * f >= 3
      BY <1>1, <1>3, <2>1
    <3>2. f <= -1 => (Radix - 1) * f <= -3
      BY <1>1, <1>3, <2>1
    <3> QED BY <2>1, <3>1, <3>2
  <2>3. j = 0
    <3> HIDE DEF f
    <3> QED BY <1>1, <2>1, <2>2
  <2> QED BY <1>1, <2>2, <2>3
<1> QED BY <1>1, <1>2, <1>3

\* The wrapped difference of two counts as the host reads them is the true one
\* just if their bytes differ by the same amount.
LEMMA SwappedExact ==
  ASSUME NEW a \in Int, NEW b \in Int, size(a - b) < Modulus \div 2
  PROVE  wrap(udata16(a) - udata16(b)) = a - b
           <=> high(a) - high(b) = low(a) - low(b)
<1>1. PICK ha \in Int, la \in Int, hb \in Int, lb \in Int :
          /\ ha = high(a) /\ la = low(a) /\ hb = high(b) /\ lb = low(b)
          /\ ha \in 0..(Radix - 1) /\ la \in 0..(Radix - 1)
          /\ hb \in 0..(Radix - 1) /\ lb \in 0..(Radix - 1)
  <2>1. /\ high(a) \in 0..(Radix - 1) /\ low(a) \in 0..(Radix - 1)
        /\ high(b) \in 0..(Radix - 1) /\ low(b) \in 0..(Radix - 1)
    BY Bytes
  <2>2. 0..(Radix - 1) \subseteq Int
    BY ModulusType
  <2> HIDE DEF high, low
  <2> QED BY <2>1, <2>2
<1>2. PICK d \in Int, e \in Int :
          /\ d = (a % Modulus) - (b % Modulus)
          /\ e = udata16(a) - udata16(b)
          /\ d = (Radix * ha + la) - (Radix * hb + lb)
          /\ e = (Radix * la + ha) - (Radix * lb + hb)
  <2>1. /\ a % Modulus = Radix * ha + la /\ b % Modulus = Radix * hb + lb
        /\ udata16(a) = Radix * la + ha /\ udata16(b) = Radix * lb + hb
    BY <1>1, Bytes
  <2>2. /\ (Radix * ha + la) - (Radix * hb + lb) \in Int
        /\ (Radix * la + ha) - (Radix * lb + hb) \in Int
    BY <1>1, ModulusType
  <2> QED BY <2>1, <2>2
<1>3. wrap(d) = a - b
  BY <1>2, WrapExact
<1>4. PICK m \in Int, h \in Int : m = Modulus /\ h = Modulus \div 2
  BY ModulusType
<1>5. ASSUME NEW x \in Int PROVE wrap(x) \in {x - m, x, x + m}
  BY <1>4, <1>5 DEF wrap
<1>6. ASSUME ha - hb = la - lb PROVE e = d
  <2>1. PICK t \in Int : t = ha - hb
    BY <1>1
  <2>2. la = lb + t /\ ha = hb + t
    BY <1>1, <1>6, <2>1
  <2> QED BY <1>1, <1>2, <2>1, <2>2, ModulusType
<1>7. ASSUME wrap(e) = wrap(d) PROVE ha - hb = la - lb
  <2>1. PICK j \in -2..2 : e - d = j * m
    <3>1. e - d \in {-2 * m, -m, 0, m, 2 * m}
      BY <1>2, <1>4, <1>5, <1>7
    <3> QED BY <1>4, <3>1
  <2>2. PICK g \in Int : g = (la - lb) - (ha - hb)
    BY <1>1
  <2>3. (Radix - 1) * g = e - d
    BY <1>1, <1>2, <2>2, ModulusType
  <2>4. -(2 * Radix - 2) <= g /\ g <= 2 * Radix - 2
    BY <1>1, <2>2, ModulusType
  <2>5. (Radix - 1) * g = j * Modulus
    BY <1>4, <2>1, <2>3
  <2>6. g = 0
    BY <2>4, <2>5, DigitsAgree
  <2> QED BY <1>1, <2>2, <2>6
<1> QED BY <1>1, <1>2, <1>3, <1>6, <1>7

-----------------------------------------------------------------------------
Inv == TypeOK /\ RefusedStaysImplausible

\* What recv has served is a state, stamped no later than now.
LEMMA ServedType ==
  ASSUME TypeOK, NEW S \in SUBSET Sensors
  PROVE  /\ served(S) \in State
         /\ served(S).stamp <= now
         /\ served(S).stamped <=> served(S).got # {}
<1>1. /\ now \in 0..MaxTime /\ next.stamp \in 0..MaxTime /\ next.stamp <= now
      /\ next.stamped \in BOOLEAN /\ next.tick \in [Wheels -> Int]
      /\ next.got \in SUBSET Sensors /\ wheel \in [Wheels -> Int]
      /\ next.stamped <=> next.got # {}
  BY DEF TypeOK, State
<1>2. /\ served(S).stamp \in 0..MaxTime /\ served(S).stamp <= now
      /\ served(S).stamped \in BOOLEAN
      /\ served(S).stamped <=> served(S).got # {}
  <2>1. served(S).stamp \in {next.stamp, now}
    BY DEF served
  <2>2. now <= now
    BY <1>1, OdometryAssumption
  <2>3. served(S).stamp \in 0..MaxTime /\ served(S).stamp <= now
    BY <1>1, <2>1, <2>2
  <2>4. served(S).stamped = (next.stamped \/ S # {})
        /\ served(S).got = next.got \union S
    BY DEF served
  <2>5. served(S).stamped \in BOOLEAN
    BY <2>4
  <2>6. next.got \union S = {} <=> next.got = {} /\ S = {}
    OBVIOUS
  <2>7. served(S).stamped <=> served(S).got # {}
    BY <1>1, <2>4, <2>6, Zenon
  <2> QED BY <2>3, <2>5, <2>7
<1>3. served(S).tick \in [Wheels -> Int] /\ served(S).got \in SUBSET Sensors
  BY <1>1 DEF served
<1>4. served(S) = [stamp |-> served(S).stamp, stamped |-> served(S).stamped,
                   tick |-> served(S).tick, got |-> served(S).got]
  BY DEF served
<1> HIDE DEF served
<1>5. served(S) \in State
  BY <1>2, <1>3, <1>4 DEF State
<1> QED BY <1>2, <1>5

\* A difference of counts is an integer.
LEMMA DiffType ==
  ASSUME TypeOK, NEW s \in State, NEW w \in Wheels
  PROVE  diff(s, w) \in Int
<1>1. count(s, w) \in Int /\ count(current, w) \in Int
  BY Bytes DEF TypeOK, State, count
<1> QED BY <1>1, ModulusType DEF diff, wrap

LEMMA TypeStep == TypeOK /\ [Next]_vars => TypeOK'
<1> SUFFICES ASSUME TypeOK, [Next]_vars PROVE TypeOK'
  OBVIOUS
<1> USE DEF TypeOK
<1>1. ASSUME NEW w \in Wheels, NEW d \in {-1, 1}, Move(w, d) PROVE TypeOK'
  BY <1>1 DEF Move
<1>2. CASE Elapse
  <2>1. now' \in 0..MaxTime /\ now <= now'
    BY <1>2, OdometryAssumption DEF Elapse
  <2>2. current.stamp \in 0..MaxTime /\ next.stamp \in 0..MaxTime
    BY DEF State
  <2>3. current.stamp <= now' /\ next.stamp <= now'
    BY <2>1, <2>2, OdometryAssumption
  <2> QED BY <1>2, <2>1, <2>3 DEF Elapse
<1>3. ASSUME NEW S \in SUBSET Sensors, Keep(S) PROVE TypeOK'
  BY <1>3, ServedType DEF Keep
<1>4. ASSUME NEW S \in SUBSET Sensors, Accept(S) PROVE TypeOK'
  <2>1. Fresh \in State /\ Fresh.stamp <= now /\ ~ Fresh.stamped
        /\ Fresh.got = {}
    BY OdometryAssumption DEF Fresh, State
  <2>2. position' \in [Wheels -> Int]
    BY <1>4, DiffType, ServedType DEF Accept
  <2> QED BY <1>4, <2>1, <2>2, ServedType DEF Accept
<1>5. CASE UNCHANGED vars
  BY <1>5 DEF vars
<1> QED BY <1>1, <1>2, <1>3, <1>4, <1>5 DEF Next

\* Whether a state is plausible depends on the state and on currentState only.
LEMMA PlausibleFrame ==
  ASSUME UNCHANGED <<next, current>>
  PROVE  RefusedStaysImplausible => RefusedStaysImplausible'
  BY DEF RefusedStaysImplausible, sensorsComplete, plausible, diff, count, size,
         wrap

LEMMA RefusedStep == Inv /\ [Next]_vars => RefusedStaysImplausible'
<1> SUFFICES ASSUME Inv, [Next]_vars PROVE RefusedStaysImplausible'
  OBVIOUS
<1>1. ASSUME NEW w \in Wheels, NEW d \in {-1, 1}, Move(w, d)
      PROVE RefusedStaysImplausible'
  BY <1>1, PlausibleFrame DEF Move, Inv
<1>2. CASE Elapse
  BY <1>2, PlausibleFrame DEF Elapse, Inv
<1>3. ASSUME NEW S \in SUBSET Sensors, Keep(S)
      PROVE RefusedStaysImplausible'
  BY <1>3 DEF Keep, RefusedStaysImplausible, sensorsComplete, plausible, diff,
              count
<1>4. ASSUME NEW S \in SUBSET Sensors, Accept(S)
      PROVE RefusedStaysImplausible'
  <2>1. next' = Fresh
    BY <1>4 DEF Accept
  <2>2. ~ sensorsComplete(Fresh)
    BY DEF sensorsComplete, Fresh, Sensors
  <2> QED BY <2>1, <2>2 DEF RefusedStaysImplausible, sensorsComplete
<1>5. CASE UNCHANGED vars
  BY <1>5, PlausibleFrame DEF vars, Inv
<1> QED BY <1>1, <1>2, <1>3, <1>4, <1>5 DEF Next

\* Every variable stays in its type, and a complete state still waiting was
\* refused with the time stamp it keeps (minotaur.cpp:188 and 259).
THEOREM RefusalIsKept == Spec => []OdometryInv
<1>1. Init => Inv
  BY OdometryAssumption
  DEF Init, Inv, TypeOK, Fresh, State, RefusedStaysImplausible,
      sensorsComplete, Sensors
<1>2. Inv /\ [Next]_vars => Inv'
  BY TypeStep, RefusedStep DEF Inv
<1>3. Inv => OdometryInv
  BY DEF Inv, OdometryInv
<1> QED BY <1>1, <1>2, <1>3, PTL DEF Spec

\* A step that changes currentState is an acceptance.
LEMMA OnlyAcceptChanges ==
  ASSUME [Next]_vars, current' # current
  PROVE  \E S \in SUBSET Sensors : Accept(S)
  BY DEF Next, vars, Move, Elapse, Keep

\* What an acceptance adds to the position of a wheel is what was counted since
\* the acceptance before just if both bytes have changed alike, because the
\* host reads them in the other order (minotaur.cpp:215-220, 238-253, 310-314).
THEOREM ExactJustIfBytesAgree == Spec => ExactIfBytesAgree
<1> DEFINE Step == current' # current /\ current.stamped =>
             \A w \in Wheels :
               LET before == current.tick[w]
                   after == current'.tick[w]
               IN size(after - before) < Modulus \div 2 =>
                    (position'[w] - position[w] = after - before
                       <=> high(after) - high(before)
                             = low(after) - low(before))
<1>1. TypeOK /\ [Next]_vars => [Step]_vars
  <2> SUFFICES ASSUME TypeOK, [Next]_vars, current' # current, current.stamped,
                      NEW w \in Wheels,
                      size(current'.tick[w] - current.tick[w]) < Modulus \div 2
               PROVE  position'[w] - position[w]
                        = current'.tick[w] - current.tick[w]
                      <=> high(current'.tick[w]) - high(current.tick[w])
                            = low(current'.tick[w]) - low(current.tick[w])
    OBVIOUS
  <2>1. PICK S \in SUBSET Sensors : Accept(S)
    BY OnlyAcceptChanges
  <2>2. current' = served(S) /\ position'[w] = position[w] + diff(served(S), w)
    BY <2>1 DEF Accept
  <2>3. PICK a \in Int, b \in Int, p \in Int :
            a = served(S).tick[w] /\ b = current.tick[w] /\ p = position[w]
    BY ServedType DEF TypeOK, State
  <2>4. diff(served(S), w) = wrap(udata16(a) - udata16(b))
    BY <2>3 DEF diff, count
  <2>5. diff(served(S), w) \in Int
    BY ServedType, DiffType
  <2>6. wrap(udata16(a) - udata16(b)) = a - b
          <=> high(a) - high(b) = low(a) - low(b)
    BY <2>2, <2>3, SwappedExact
  <2>7. position'[w] - position[w] = diff(served(S), w)
    BY <2>2, <2>3, <2>5
  <2> QED BY <2>2, <2>3, <2>4, <2>6, <2>7
<1>2. Spec => []TypeOK
  BY RefusalIsKept, PTL DEF OdometryInv
<1> QED BY <1>1, <1>2, PTL DEF Spec, ExactIfBytesAgree

\* After a refusal, a state is accepted only when the count of some wheel is read
\* nearer to the one last accepted (minotaur.cpp:259 and 301).
THEOREM RefusalLasts == Spec => RefusedUntilNearer
<1> DEFINE Step == current' # current /\ sensorsComplete(next) =>
             \E w \in Wheels :
               size(wrap(count(current', w) - count(current, w)))
                 < size(diff(next, w))
<1>1. Inv /\ [Next]_vars => [Step]_vars
  <2> SUFFICES ASSUME Inv, [Next]_vars, current' # current,
                      sensorsComplete(next)
               PROVE  \E w \in Wheels :
                        size(wrap(count(current', w) - count(current, w)))
                          < size(diff(next, w))
    OBVIOUS
  <2>1. PICK S \in SUBSET Sensors : Accept(S)
    BY OnlyAcceptChanges
  <2>2. current.stamped /\ ~ plausible(next)
    BY DEF Inv, RefusedStaysImplausible
  <2>3. plausible(served(S)) /\ current' = served(S)
    BY <2>1, <2>2 DEF Accept
  <2>4. served(S).stamp = next.stamp
    BY DEF served, Inv, TypeOK, sensorsComplete, Sensors
  <2>5. PICK w \in Wheels :
          ~ (size(diff(next, w)) * Time
               < (next.stamp - current.stamp) * Ticks[w])
    BY <2>2 DEF plausible
  <2>6. size(diff(served(S), w)) * Time
          < (next.stamp - current.stamp) * Ticks[w]
    BY <2>3, <2>4 DEF plausible
  <2>7. /\ size(diff(next, w)) \in Int
        /\ size(diff(served(S), w)) \in Int
        /\ next.stamp \in Int /\ current.stamp \in Int
    BY DiffType, ServedType DEF Inv, TypeOK, State, size
  <2>8. size(diff(served(S), w)) < size(diff(next, w))
    <3> DEFINE a == size(diff(served(S), w))
               b == size(diff(next, w))
               c == (next.stamp - current.stamp) * Ticks[w]
    <3>1. a \in Int /\ b \in Int /\ c \in Int /\ Time \in Nat
      BY <2>7, OdometryAssumption
    <3>2. a * Time < c /\ ~ (b * Time < c)
      BY <2>5, <2>6
    <3> HIDE DEF a, b, c
    <3>3. a < b
      BY <3>1, <3>2
    <3> QED BY <3>3 DEF a, b
  <2>9. diff(served(S), w) = wrap(count(current', w) - count(current, w))
    BY <2>2, <2>3 DEF diff
  <2> QED BY <2>8, <2>9
<1>2. Spec => []Inv
  BY RefusalIsKept, PTL DEF Inv, OdometryInv
<1> QED BY <1>1, <1>2, PTL DEF Spec, RefusedUntilNearer
=============================================================================
