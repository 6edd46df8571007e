------------------------- MODULE WheelEncoderProofs -------------------------
(***************************************************************************)
(* The theorems about WheelEncoder: the drift of the tick counter is       *)
(* bounded by the number of reversals, whatever the bounds of the model,   *)
(* and a report is torn by nothing but a carry.                            *)
(***************************************************************************)
EXTENDS WheelEncoder, TLAPS

LEMMA ModulusType == Modulus \in Nat \ {0}
BY BoundAssumption DEF Modulus

\* Within one quarter the handler counts exactly what rounding up gains on the
\* way forwards, and what rounding down loses on the way back.
LEMMA QuarterStep ==
  ASSUME NEW p \in Int
  PROVE  /\ pins(p) \in {0, 1, 16, 17}
         /\ ticked(pins(p), pins(p)) = 0
         /\ ticked(pins(p), pins(p + 1)) = ceil(p + 1) - ceil(p)
         /\ ticked(pins(p), pins(p - 1)) = floor(p - 1) - floor(p)
         /\ adjacent(pins(p), pins(p + 1)) /\ adjacent(pins(p), pins(p - 1))
         /\ ceil(p) \in Int /\ floor(p) \in Int /\ ceil(p) - floor(p) \in 0 .. 1
         /\ 4 * ceil(p) - p \in 0 .. 3 /\ p - 4 * floor(p) \in 0 .. 3
<1> DEFINE k == p \div 4
           q == p % 4
<1>1. k \in Int /\ q \in 0 .. 3 /\ p = 4 * k + q
  OBVIOUS
<1>2. /\ (p + 1) % 4 = (IF q = 3 THEN 0 ELSE q + 1)
      /\ (p - 1) % 4 = (IF q = 0 THEN 3 ELSE q - 1)
  BY <1>1
<1>3. /\ floor(p) = k
      /\ floor(p - 1) = (IF q = 0 THEN k - 1 ELSE k)
      /\ ceil(p) = (IF q = 0 THEN k ELSE k + 1)
      /\ ceil(p + 1) = k + 1
  <2>1. /\ p \div 4 = k
        /\ (p - 1) \div 4 = (IF q = 0 THEN k - 1 ELSE k)
    BY <1>1
  <2>2. (-p) \div 4 = (IF q = 0 THEN -k ELSE -k - 1)
    BY <1>1
  <2>3. (-(p + 1)) \div 4 = -k - 1
    BY <1>1
  <2> QED
    BY <1>1, <2>1, <2>2, <2>3 DEF floor, ceil
<1> HIDE DEF k, q
<1>4. /\ pins(p) = (IF q = 0 THEN 0 ELSE IF q = 1 THEN 1 ELSE IF q = 2 THEN 17 ELSE 16)
      /\ pins(p + 1) = (IF q = 3 THEN 0 ELSE IF q = 0 THEN 1 ELSE IF q = 1 THEN 17 ELSE 16)
      /\ pins(p - 1) = (IF q = 1 THEN 0 ELSE IF q = 2 THEN 1 ELSE IF q = 3 THEN 17 ELSE 16)
  BY <1>1, <1>2 DEF pins, q
<1>5. /\ ticked(pins(p), pins(p)) = 0
      /\ ticked(pins(p), pins(p + 1)) = (IF q = 0 THEN 1 ELSE 0)
      /\ ticked(pins(p), pins(p - 1)) = (IF q = 0 THEN -1 ELSE 0)
  BY <1>1, <1>4 DEF ticked
<1>6. adjacent(pins(p), pins(p + 1)) /\ adjacent(pins(p), pins(p - 1))
  BY <1>1, <1>4 DEF adjacent
<1> QED
  BY <1>1, <1>3, <1>4, <1>5, <1>6

\* Rounding, and the counter's width, taken by themselves.
LEMMA Rounding ==
  ASSUME NEW p \in Int
  PROVE  /\ ceil(p) \in Int /\ floor(p) \in Int /\ ceil(p) - floor(p) \in 0 .. 1
         /\ 4 * ceil(p) - p \in 0 .. 3 /\ p - 4 * floor(p) \in 0 .. 3
BY QuarterStep

LEMMA RemainderUnique ==
  ASSUME NEW M \in Nat \ {0}, NEW a \in Int, NEW b \in Int,
         NEW u \in 0 .. M - 1, NEW v \in 0 .. M - 1, M * a + u = M * b + v
  PROVE  u = v
<1> DEFINE d == a - b
<1>1. M * d = v - u /\ d \in Int
  OBVIOUS
<1>2. -M < M * d /\ M * d < M
  BY <1>1
<1> HIDE DEF d
<1>3. ~(d >= 1)
  <2> SUFFICES ASSUME d >= 1 PROVE FALSE
    OBVIOUS
  <2>1. M * d = M * (d - 1) + M /\ M * (d - 1) >= 0
    BY <1>1
  <2> QED
    BY <1>1, <1>2, <2>1
<1>4. ~(d <= -1)
  <2> SUFFICES ASSUME d <= -1 PROVE FALSE
    OBVIOUS
  <2>1. M * d = M * (d + 1) - M /\ M * (-(d + 1)) >= 0 /\ M * (-(d + 1)) = -(M * (d + 1))
    BY <1>1
  <2> QED
    BY <1>1, <1>2, <2>1
<1>5. d = 0
  BY <1>1, <1>3, <1>4
<1> QED
  BY <1>1, <1>5

LEMMA WidthDropsOut ==
  ASSUME NEW M \in Nat \ {0}, NEW n \in Int, NEW t \in Int
  PROVE  ((n % M) + t) % M = (n + t) % M
<1> DEFINE k == n \div M
           r == n % M
           l == (r + t) \div M
           u == (r + t) % M
<1>1. n = M * k + r /\ k \in Int /\ r \in 0 .. M - 1
  OBVIOUS
<1>2. r + t = M * l + u /\ l \in Int /\ u \in 0 .. M - 1
  BY <1>1
<1> HIDE DEF k, r, l, u
<1>3. n + t = M * (k + l) + u /\ k + l \in Int
  BY <1>1, <1>2
<1>4. n + t = M * ((n + t) \div M) + ((n + t) % M)
      /\ (n + t) \div M \in Int /\ (n + t) % M \in 0 .. M - 1
  OBVIOUS
<1>5. (n + t) % M = u
  BY <1>2, <1>3, <1>4, RemainderUnique
<1> QED
  BY <1>5 DEF u, r

LEMMA TickedType ==
  ASSUME NEW a, NEW b
  PROVE  ticked(a, b) \in {-1, 0, 1}
BY DEF ticked

LEMMA TypeStep == TypeOK /\ pos - seen \in -1 .. 1 /\ [Next]_vars => TypeOK'
<1> SUFFICES ASSUME TypeOK, pos - seen \in -1 .. 1, [Next]_vars PROVE TypeOK'
  OBVIOUS
<1>0. Modulus \in Nat \ {0} /\ ByteSize \in Nat \ {0}
  BY ModulusType, BoundAssumption
<1>1. ASSUME NEW d \in {-1, 1}, Turn(d) PROVE TypeOK'
  BY <1>1 DEF TypeOK, Turn, counter, reporting
<1>2. CASE T3Interrupt
  <2> DEFINE t == ticked(PREV_ENCODER, pins(pos))
  <2>1. t \in {-1, 0, 1} /\ pins(pos) \in {0, 1, 16, 17}
    BY TickedType, QuarterStep DEF TypeOK
  <2> HIDE DEF t
  <2>2. TICKS' = (TICKS + t) % Modulus /\ count' = count + t
    BY <1>2 DEF T3Interrupt, wrapped, t
  <2>3. TICKS' \in 0 .. Modulus - 1 /\ count' \in Int
    BY <1>0, <2>1, <2>2 DEF TypeOK
  <2>4. PREV_ENCODER' \in {0, 1, 16, 17}
    BY <1>2, <2>1 DEF T3Interrupt, TypeOK
  <2>5. /\ dir' \in {-1, 0, 1} /\ reversals' \in Nat /\ seen' \in Int
        /\ start' = start /\ pos' = pos /\ high' = high /\ sent' = sent
    BY <1>2 DEF T3Interrupt, TypeOK, wheel
  <2>6. held' \subseteq 0 .. Modulus - 1
    BY <1>2, <2>3 DEF T3Interrupt, TypeOK
  <2> QED
    BY <2>3, <2>4, <2>5, <2>6 DEF TypeOK
<1>3. CASE PushHigh
  <2>1. TICKS \div ByteSize \in 0 .. ByteSize - 1
    <3>1. TICKS \in Nat /\ TICKS < ByteSize * ByteSize
      BY <1>0 DEF TypeOK, Modulus
    <3> QED
      BY <1>0, <3>1
  <2> QED
    BY <1>3, <2>1 DEF TypeOK, PushHigh, wheel, counter
<1>4. CASE PushLow
  <2>1. PICK h \in high : /\ sent' = {<<h, TICKS % ByteSize>>}
                          /\ high' = {}
                          /\ UNCHANGED <<wheel, counter, held>>
    BY <1>4 DEF PushLow
  <2>2. h \in 0 .. ByteSize - 1 /\ TICKS % ByteSize \in 0 .. ByteSize - 1
    BY <1>0 DEF TypeOK
  <2> QED
    BY <2>1, <2>2 DEF TypeOK, wheel, counter
<1>5. CASE UNCHANGED vars
  BY <1>5 DEF TypeOK, vars, wheel, counter, reporting
<1> QED
  BY <1>1, <1>2, <1>3, <1>4, <1>5 DEF Next

-----------------------------------------------------------------------------
\* A sample taken in step: the count follows the rounded distance in the way
\* the wheel moves, and each reversal costs at most the difference of the two.
LEMMA SampleInStep ==
  ASSUME TypeOK, DriftInv, InStep, T3Interrupt
  PROVE  DriftInv'
<1> DEFINE m == pos - seen
           t == ticked(PREV_ENCODER, pins(pos))
<1>1. /\ seen \in Int /\ pos \in Int /\ m \in {-1, 0, 1} /\ pos = seen + m
      /\ count \in Int /\ reversals \in Nat /\ dir \in {-1, 0, 1}
      /\ TICKS = count % Modulus /\ Modulus \in Nat \ {0}
  BY ModulusType DEF TypeOK, DriftInv
<1>2. /\ PREV_ENCODER = pins(seen)
      /\ count' = count + t /\ seen' = pos /\ pos' = pos
      /\ dir' = (IF m = 0 THEN dir ELSE m)
      /\ reversals' = (IF dir # 0 /\ m # 0 /\ m # dir THEN reversals + 1 ELSE reversals)
      /\ PREV_ENCODER' = (IF adjacent(PREV_ENCODER, pins(pos)) THEN pins(pos) ELSE PREV_ENCODER)
      /\ TICKS' = (TICKS + t) % Modulus
  BY DEF T3Interrupt, InStep, wrapped, wheel
<1>3. t \in {-1, 0, 1}
  BY TickedType
<1>4. /\ m = 0 => t = 0
      /\ m = 1 => t = ceil(pos) - ceil(seen)
      /\ m = -1 => t = floor(pos) - floor(seen)
      /\ PREV_ENCODER' = pins(pos)
  <2>1. CASE m = 0
    BY <1>1, <1>2, <2>1, QuarterStep
  <2>2. CASE m = 1
    <3>1. pos = seen + 1
      BY <1>1, <2>2
    <3> QED
      BY <1>1, <1>2, <2>2, <3>1, QuarterStep
  <2>3. CASE m = -1
    <3>1. pos = seen - 1
      BY <1>1, <2>3
    <3> QED
      BY <1>1, <1>2, <2>3, <3>1, QuarterStep
  <2> QED
    BY <1>1, <2>1, <2>2, <2>3
<1>5. /\ ceil(seen) \in Int /\ floor(seen) \in Int /\ ceil(seen) - floor(seen) \in 0 .. 1
      /\ ceil(pos) \in Int /\ floor(pos) \in Int /\ ceil(pos) - floor(pos) \in 0 .. 1
  BY <1>1, Rounding
<1> HIDE DEF t, m
<1>6. TICKS' = count' % Modulus
  <2>1. t \in Int
    BY <1>3
  <2> QED
    BY <1>1, <1>2, <2>1, WidthDropsOut
<1>7. /\ dir # -1 => count - ceil(seen) \in -(2 + reversals) .. 1 + reversals
      /\ dir # 1 => count - floor(seen) \in -(1 + reversals) .. 2 + reversals
  BY DEF DriftInv
<1>8. /\ dir' # -1 => count' - ceil(pos) \in -(2 + reversals') .. 1 + reversals'
      /\ dir' # 1 => count' - floor(pos) \in -(1 + reversals') .. 2 + reversals'
  <2>1. CASE m = 0
    BY <1>1, <1>2, <1>4, <1>7, <2>1
  <2>2. CASE m = 1
    BY <1>1, <1>2, <1>4, <1>5, <1>7, <2>2
  <2>3. CASE m = -1
    BY <1>1, <1>2, <1>4, <1>5, <1>7, <2>3
  <2> QED
    BY <1>1, <2>1, <2>2, <2>3
<1>9. (pos - seen \in -1 .. 1)' /\ InStep'
  BY <1>1, <1>2, <1>4 DEF InStep, pins
<1> QED
  BY <1>2, <1>6, <1>8, <1>9 DEF DriftInv, ceil, floor

\* After power-up there are few positions the first samples can meet.
LEMMA SampleOutOfStep ==
  ASSUME TypeOK, DriftInv, OutOfStep, T3Interrupt
  PROVE  DriftInv'
<1> DEFINE m == pos - seen
           t == ticked(0, pins(pos))
<1>1. /\ seen \in {-2, -1, 0, 1, 2} /\ m \in {-1, 0, 1} /\ pos = seen + m
      /\ dir \in {-1, 0, 1} /\ Modulus \in Nat \ {0} /\ TICKS \in Int
      /\ TICKS = 0 % Modulus /\ start \in -1 .. 2
      /\ dir = 0 => seen = start
      /\ dir = 1 => seen = 2
      /\ dir = -1 => seen = -2
  BY ModulusType DEF TypeOK, DriftInv, OutOfStep
<1>2. /\ count' = t /\ seen' = pos /\ pos' = pos /\ start' = start
      /\ dir' = (IF m = 0 THEN dir ELSE m)
      /\ reversals' = (IF dir # 0 /\ m # 0 /\ m # dir THEN 1 ELSE 0)
      /\ PREV_ENCODER' = (IF adjacent(0, pins(pos)) THEN pins(pos) ELSE 0)
      /\ TICKS' = (TICKS + t) % Modulus
  BY TickedType DEF T3Interrupt, OutOfStep, wrapped, wheel
<1>3. pos \in {-3, -2, -1, 0, 1, 2, 3} /\ t \in {-1, 0, 1}
  BY <1>1, TickedType
<1>4. /\ pins(pos) = (IF pos = 0 THEN 0 ELSE IF pos \in {1, -3} THEN 1
                      ELSE IF pos \in {2, -2} THEN 17 ELSE 16)
      /\ floor(pos) = (IF pos < 0 THEN -1 ELSE 0)
      /\ ceil(pos) = (IF pos > 0 THEN 1 ELSE 0)
  BY <1>3 DEF pins, floor, ceil
<1>5. /\ t = (IF pos \in {1, -3} THEN 1 ELSE IF pos \in {-1, 3} THEN -1 ELSE 0)
      /\ PREV_ENCODER' = (IF pos \in {2, -2} THEN 0 ELSE pins(pos))
  <2> DEFINE c == pins(pos)
  <2>1. /\ c = (IF pos = 0 THEN 0 ELSE IF pos \in {1, -3} THEN 1
                ELSE IF pos \in {2, -2} THEN 17 ELSE 16)
    BY <1>4
  <2>2. t = (IF c = 1 THEN 1 ELSE IF c = 16 THEN -1 ELSE 0)
    BY DEF ticked
  <2>3. PREV_ENCODER' = (IF c \in {1, 16} THEN c ELSE 0)
    <3>1. c \in {0, 1, 16, 17}
      BY <2>1
    <3>2. adjacent(0, c) <=> c \in {1, 16}
      BY <3>1 DEF adjacent
    <3> HIDE DEF c
    <3> QED
      BY <1>2, <3>1, <3>2 DEF c
  <2> HIDE DEF c, t
  <2>4. t = (IF pos \in {1, -3} THEN 1 ELSE IF pos \in {-1, 3} THEN -1 ELSE 0)
    BY <1>3, <2>1, <2>2
  <2>5. PREV_ENCODER' = (IF pos \in {2, -2} THEN 0 ELSE c)
    BY <1>3, <2>1, <2>3
  <2> QED
    BY <2>4, <2>5 DEF c
<1> HIDE DEF t
<1>6. TICKS' = count' % Modulus
  <2>1. t \in Int /\ count \in Int /\ TICKS = count % Modulus /\ count' = count + t
    BY <1>2, <1>3 DEF OutOfStep, DriftInv
  <2>2. ((count % Modulus) + t) % Modulus = (count + t) % Modulus
    BY <1>1, <2>1, WidthDropsOut
  <2> QED
    BY <1>2, <2>1, <2>2
<1>7. /\ dir' # -1 => count' - ceil(pos) \in -(2 + reversals') .. 1 + reversals'
      /\ dir' # 1 => count' - floor(pos) \in -(1 + reversals') .. 2 + reversals'
  <2>1. count' = t /\ reversals' \in {0, 1}
    BY <1>2
  <2>2. /\ dir' # -1 => pos # -3
        /\ dir' # 1 => pos # 3
    BY <1>1, <1>2
  <2>3. /\ t = (IF pos \in {1, -3} THEN 1 ELSE IF pos \in {-1, 3} THEN -1 ELSE 0)
        /\ floor(pos) = (IF pos < 0 THEN -1 ELSE 0)
        /\ ceil(pos) = (IF pos > 0 THEN 1 ELSE 0)
    BY <1>4, <1>5
  <2> DEFINE c == ceil(pos)
             f == floor(pos)
             n == count'
             v == reversals'
             e == dir'
  <2>4. /\ e # -1 => n - c \in -2 .. 1
        /\ e # 1 => n - f \in -1 .. 2
        /\ v \in {0, 1} /\ n \in Int /\ c \in Int /\ f \in Int
    BY <1>3, <2>1, <2>2, <2>3
  <2> HIDE DEF c, f, n, v, e
  <2>5. /\ e # -1 => n - c \in -(2 + v) .. 1 + v
        /\ e # 1 => n - f \in -(1 + v) .. 2 + v
    BY <2>4
  <2> QED
    BY <2>5 DEF c, f, n, v, e
<1>8. (pos - seen \in -1 .. 1)'
  BY <1>2, <1>3
<1>9. InStep' \/ OutOfStep'
  <2>1. CASE pos \in {2, -2}
    <3>1. /\ PREV_ENCODER' = 0 /\ count' = 0
      BY <1>2, <1>5, <2>1
    <3>2. /\ reversals' = 0
          /\ \/ dir' = 0 /\ pos = start
             \/ dir' = 1 /\ pos = 2
             \/ dir' = -1 /\ pos = -2
      BY <1>1, <1>2, <2>1 DEF m
    <3> QED
      BY <1>2, <3>1, <3>2 DEF OutOfStep
  <2>2. CASE pos \notin {2, -2}
    BY <1>2, <1>5, <2>2 DEF InStep, pins
  <2> QED
    BY <2>1, <2>2
<1> QED
  BY <1>2, <1>6, <1>7, <1>8, <1>9 DEF DriftInv, ceil, floor

LEMMA DriftStep == TypeOK /\ DriftInv /\ [Next]_vars => DriftInv'
<1> SUFFICES ASSUME TypeOK, DriftInv, [Next]_vars PROVE DriftInv'
  OBVIOUS
<1>1. ASSUME NEW d \in {-1, 1}, Turn(d) PROVE DriftInv'
  <2>1. pos' - seen \in -1 .. 1 /\ UNCHANGED <<start, TICKS, PREV_ENCODER, seen, dir,
                                              reversals, count>>
    BY <1>1 DEF Turn, counter, TypeOK
  <2> QED
    BY <2>1 DEF DriftInv, InStep, OutOfStep, pins, ceil, floor
<1>2. CASE T3Interrupt
  BY <1>2, SampleInStep, SampleOutOfStep DEF DriftInv
<1>3. CASE PushHigh \/ PushLow \/ UNCHANGED vars
  <2>1. UNCHANGED <<start, pos, TICKS, PREV_ENCODER, seen, dir, reversals, count>>
    BY <1>3 DEF PushHigh, PushLow, vars, wheel, counter
  <2> QED
    BY <2>1 DEF DriftInv, InStep, OutOfStep, pins, ceil, floor
<1> QED
  BY <1>1, <1>2, <1>3 DEF Next

-----------------------------------------------------------------------------
LEMMA EncoderInit == Init => TypeOK /\ DriftInv /\ ReportInv
<1> SUFFICES ASSUME Init PROVE TypeOK /\ DriftInv /\ ReportInv
  OBVIOUS
<1>0. Modulus \in Nat \ {0}
  BY ModulusType
<1>1. 0 % Modulus = 0
  BY <1>0
<1>2. TypeOK
  BY <1>0 DEF Init, TypeOK
<1>3. ceil(seen) \in {0, 1} /\ floor(seen) \in {-1, 0} /\ count = 0
  BY DEF Init, ceil, floor
<1>4. DriftInv
  <2>1. OutOfStep
    BY DEF Init, OutOfStep
  <2>2. count - ceil(seen) \in -2 .. 1 /\ count - floor(seen) \in -1 .. 2
    BY <1>3
  <2>3. pos - seen \in -1 .. 1
    BY DEF Init
  <2> QED
    BY <1>1, <2>1, <2>2, <2>3 DEF Init, DriftInv
<1>5. ReportInv
  BY DEF Init, ReportInv
<1> QED
  BY <1>2, <1>4, <1>5

LEMMA ReportStep == TypeOK /\ ReportInv /\ [Next]_vars => ReportInv'
<1> SUFFICES ASSUME TypeOK, ReportInv, [Next]_vars PROVE ReportInv'
  OBVIOUS
<1>1. ASSUME NEW d \in {-1, 1}, Turn(d) PROVE ReportInv'
  BY <1>1 DEF ReportInv, Turn, counter, reporting
<1>2. CASE T3Interrupt
  <2>1. /\ high' = high /\ sent' = sent
        /\ high = {} => held' = held
        /\ high # {} => held' = held \cup {TICKS'}
    BY <1>2 DEF T3Interrupt
  <2> QED
    BY <2>1 DEF ReportInv
<1>3. CASE PushHigh
  BY <1>3 DEF ReportInv, PushHigh, counter
<1>4. CASE PushLow
  BY <1>4 DEF ReportInv, PushLow, counter
<1>5. CASE UNCHANGED vars
  BY <1>5 DEF ReportInv, vars, counter, reporting
<1> QED
  BY <1>1, <1>2, <1>3, <1>4, <1>5 DEF Next

\* Every variable stays in its range; the counter in two bytes.
THEOREM TypeCorrect == Spec => [](TypeOK /\ DriftInv)
<1>1. Init => TypeOK /\ DriftInv
  BY EncoderInit
<1>2. TypeOK /\ DriftInv /\ [Next]_vars => (TypeOK /\ DriftInv)'
  <2>1. DriftInv => pos - seen \in -1 .. 1
    BY DEF DriftInv
  <2> QED
    BY <2>1, TypeStep, DriftStep
<1> QED
  BY <1>1, <1>2, PTL DEF Spec

\* The distance of main.c 82-83 is off by two and a half ticks at most, and by
\* one more for each reversal of the wheel, however far it travels.
THEOREM DriftOnlyByReversals == Spec => []DriftBounded
<1>1. TypeOK /\ DriftInv => DriftBounded
  <2> SUFFICES ASSUME TypeOK, DriftInv PROVE DriftBounded
    OBVIOUS
  <2>1. /\ seen \in Int /\ start \in -1 .. 2 /\ reversals \in Nat /\ count \in Int
        /\ dir \in {-1, 0, 1}
    BY DEF TypeOK
  <2>2. /\ ceil(seen) \in Int /\ floor(seen) \in Int
        /\ 4 * ceil(seen) - seen \in 0 .. 3 /\ seen - 4 * floor(seen) \in 0 .. 3
    BY <2>1, Rounding
  <2>3. /\ dir # -1 => count - ceil(seen) \in -(2 + reversals) .. 1 + reversals
        /\ dir # 1 => count - floor(seen) \in -(1 + reversals) .. 2 + reversals
    BY DEF DriftInv
  <2>4. CASE dir # -1
    BY <2>1, <2>2, <2>3, <2>4 DEF DriftBounded
  <2>5. CASE dir # 1
    BY <2>1, <2>2, <2>3, <2>5 DEF DriftBounded
  <2> QED
    BY <2>1, <2>4, <2>5
<1> QED
  BY <1>1, TypeCorrect, PTL

\* A report that is wrong was sent while the counter carried.
THEOREM TornOnlyByCarry == Spec => []ReportWrongOnlyByCarry
<1>1. Spec => [](TypeOK /\ DriftInv)
  BY TypeCorrect
<1>2. Init => ReportInv
  BY EncoderInit
<1>3. TypeOK /\ ReportInv /\ [Next]_vars => ReportInv'
  BY ReportStep
<1>4. TypeOK /\ ReportInv => ReportWrongOnlyByCarry
  <2> SUFFICES ASSUME TypeOK, ReportInv, NEW r \in sent,
                      \A a, b \in held : a \div ByteSize = b \div ByteSize
               PROVE  ByteSize * r[1] + r[2] \in held
    BY DEF ReportWrongOnlyByCarry
  <2>1. PICK a \in held, b \in held : r = <<a \div ByteSize, b % ByteSize>>
    BY DEF ReportInv
  <2>2. r[1] = b \div ByteSize /\ r[2] = b % ByteSize
    BY <2>1
  <2>3. b \in Int /\ ByteSize \in Nat \ {0}
    BY ModulusType, BoundAssumption DEF TypeOK
  <2>4. ByteSize * (b \div ByteSize) + (b % ByteSize) = b
    BY <2>3
  <2> QED
    BY <2>2, <2>4
<1> QED
  BY <1>1, <1>2, <1>3, <1>4, PTL DEF Spec
=============================================================================
