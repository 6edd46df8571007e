---------------------------- MODULE WheelEncoder ----------------------------
(***************************************************************************)
(* One wheel, its quadrature encoder, the tick counter that the timer 3    *)
(* interrupt keeps, and the main loop that reports the counter to the Atom *)
(* board.  The interrupt samples the two pins; the loop reads the counter  *)
(* twice, once for each byte of the report, with interrupts between.       *)
(*                                                                         *)
(* The interrupt handles both wheels by the same code, so one is modelled. *)
(* Positions are quarters of a tick.  Timer 3 samples at 7.8 kHz and the   *)
(* encoder gives 15 ticks an inch, so that the wheel moves by no more than *)
(* one quarter between two samples up to ten feet a second.                *)
(***************************************************************************)
EXTENDS Integers

CONSTANTS ByteSize,       \* values of a byte: 256
          MaxTravel,      \* bound: how far the wheel gets from where it was
          MaxReversals    \* bound: how often it reverses

ASSUME BoundAssumption == /\ ByteSize \in Nat \ {0, 1}
                          /\ MaxTravel \in Nat /\ MaxReversals \in Nat

VARIABLES
  start,        \* where the wheel stood at power-up
  pos,          \* where it is
  TICKS,        \* the counter, as an unsigned number of two bytes
  PREV_ENCODER, \* the pins when they last changed to an adjacent state
  seen,         \* history: where the wheel was at the last sample
  dir,          \* history: which way it went last, 0 at first
  reversals,    \* history: how often it has changed its direction
  count,        \* history: the counter if it had no width
  high,         \* the high byte of the running report, if there is one
  held,         \* history: the values of TICKS since that byte was read
  sent          \* the two bytes of the last report, if there is one

wheel == <<start, pos>>
counter == <<TICKS, PREV_ENCODER, seen, dir, reversals, count>>
reporting == <<high, held, sent>>
vars == <<wheel, counter, reporting>>

Modulus == ByteSize * ByteSize

\* The pins as the handler combines them, for each quarter of a tick.
pins(p) == LET q == p % 4
           IN IF q = 0 THEN 0 ELSE IF q = 1 THEN 1 ELSE IF q = 2 THEN 17 ELSE 16

\* At power-up the wheel stands anywhere, the firmware assumes pins 00.
Init == /\ start \in -1 .. 2 /\ pos = start
        /\ TICKS = 0 /\ PREV_ENCODER = 0
        /\ seen = pos /\ dir = 0 /\ reversals = 0 /\ count = 0
        /\ high = {} /\ held = {} /\ sent = {}

-----------------------------------------------------------------------------
\* The wheel turns by a quarter of a tick: never away from the last sample by
\* more than that.
Turn(d) == /\ pos + d - seen \in -1 .. 1
           /\ pos + d \in -MaxTravel .. MaxTravel
           /\ pos' = pos + d
           /\ UNCHANGED <<start, counter, reporting>>

\* Two states of the pins are adjacent when one pin differs.
adjacent(a, b) == {a, b} \in {{0, 1}, {1, 17}, {17, 16}, {16, 0}}

ticked_Twice(prev, cur) ==  \* fault: the other half of a phase counts as well
  IF prev \in {0, 17} /\ cur = 1 THEN 1
  ELSE IF prev \in {0, 17} /\ cur = 16 THEN -1 ELSE 0

\* A tick is counted where the wheel leaves 00.
ticked(prev, cur) ==
  IF prev = 0 /\ cur = 1 THEN 1 ELSE IF prev = 0 /\ cur = 16 THEN -1 ELSE 0

wrapped_Clipped(n) == n   \* fault: the counter has no width
wrapped(n) == n % Modulus

\* _T3Interrupt; seen, dir, reversals and count record what it sampled.
T3Interrupt ==
  LET cur == pins(pos)
      moved == pos - seen
      reversed == dir # 0 /\ moved # 0 /\ moved # dir
  IN /\ reversed => reversals < MaxReversals
     /\ TICKS' = wrapped(TICKS + ticked(PREV_ENCODER, cur))
     /\ PREV_ENCODER' = IF adjacent(PREV_ENCODER, cur) THEN cur ELSE PREV_ENCODER
     /\ count' = count + ticked(PREV_ENCODER, cur)
     /\ seen' = pos
     /\ dir' = IF moved = 0 THEN dir ELSE moved
     /\ reversals' = IF reversed THEN reversals + 1 ELSE reversals
     /\ held' = IF high = {} THEN held ELSE held \cup {TICKS'}
     /\ UNCHANGED <<wheel, high, sent>>

\* The main loop's two BUFF_push calls for the counter.
PushHigh == /\ high = {}
            /\ high' = {TICKS \div ByteSize}
            /\ held' = {TICKS}
            /\ sent' = {}
            /\ UNCHANGED <<wheel, counter>>

PushLow_Signed ==   \* fault: the low byte is sent in seven bits
  \E h \in high :
    /\ sent' = {<<h, (TICKS % ByteSize) % (ByteSize \div 2)>>}
    /\ high' = {}
    /\ UNCHANGED <<wheel, counter, held>>

PushLow == \E h \in high :
             /\ sent' = {<<h, TICKS % ByteSize>>}
             /\ high' = {}
             /\ UNCHANGED <<wheel, counter, held>>

Next == (\E d \in {-1, 1} : Turn(d)) \/ T3Interrupt \/ PushHigh \/ PushLow

Spec == Init /\ [][Next]_vars

-----------------------------------------------------------------------------
(* Properties.                                                             *)

TypeOK == /\ start \in -1 .. 2 /\ pos \in Int /\ seen \in Int
          /\ TICKS \in 0 .. Modulus - 1 /\ count \in Int
          /\ PREV_ENCODER \in {0, 1, 16, 17}
          /\ dir \in {-1, 0, 1} /\ reversals \in Nat
          /\ high \subseteq 0 .. ByteSize - 1
          /\ held \subseteq 0 .. Modulus - 1
          /\ sent \subseteq (0 .. ByteSize - 1) \X (0 .. ByteSize - 1)

\* p quarters in ticks, rounded up and down.
ceil(p) == -((-p) \div 4)
floor(p) == p \div 4

\* The firmware knows the pins of the last sample, except after power-up: before
\* the first sample, and while the wheel stays in the state opposite to 00.
InStep == PREV_ENCODER = pins(seen)
OutOfStep == /\ PREV_ENCODER = 0 /\ count = 0 /\ reversals = 0
             /\ \/ dir = 0 /\ seen = start
                \/ dir = 1 /\ seen = 2
                \/ dir = -1 /\ seen = -2

\* The count differs from the distance by rounding (up on the way forwards,
\* down on the way back), by what was lost at power-up and by at most one tick
\* for each reversal.
DriftInv ==
  /\ pos - seen \in -1 .. 1
  /\ TICKS = count % Modulus
  /\ InStep \/ OutOfStep
  /\ dir # -1 => count - ceil(seen) \in -(2 + reversals) .. 1 + reversals
  /\ dir # 1 => count - floor(seen) \in -(1 + reversals) .. 2 + reversals

\* The distance the firmware reports drifts only when the wheel reverses: it is
\* off by at most two and a half ticks, and by one more for each reversal.
DriftBounded ==
  4 * count - (seen - start) \in -(10 + 4 * reversals) .. 10 + 4 * reversals

\* A report is wrong only when the counter carried into, or borrowed from, the
\* high byte while it was sent: it is one of the counts the counter had, if
\* they all have the same high byte.
ReportWrongOnlyByCarry ==
  \A r \in sent : (\A a, b \in held : a \div ByteSize = b \div ByteSize)
                   => ByteSize * r[1] + r[2] \in held

\* Why: the first byte is that of a count held, and so is the second.
ReportInv ==
  /\ \A h \in high : TICKS \in held /\ \E a \in held : h = a \div ByteSize
  /\ \A r \in sent : \E a, b \in held : r = <<a \div ByteSize, b % ByteSize>>

-----------------------------------------------------------------------------
(* What a comment of the code says, and is not so.                         *)

\* "Get Left Encoder": what the Atom board reads is the count that was sent.
\* MinosPacket's udata16 overlays the two bytes, and the processor stores the
\* low byte first.
udata16(r) == r[1] + ByteSize * r[2]
HostReadsTheCount ==
  \A r \in sent : ByteSize * r[1] + r[2] \in held => udata16(r) \in held
=============================================================================
