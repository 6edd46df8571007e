------------------------------- MODULE RoomMap -------------------------------
\* The room map that the map picture keeps (src/ids/map.h, point.h): points in
\* square sectors, each with the history of its last observations, open or
\* closed.  Its operations are functions of one point and of one coordinate,
\* and the facts about them below hold for every history and coordinate.
EXTENDS Integers, FiniteSets

CONSTANTS
  HistoryBits,  \* bits of Point::history: 256, in eight words
  BlockSize     \* BLOCKSIZE: points on the side of a sector

ASSUME MapAssumption ==
  /\ HistoryBits \in Nat \ {0} /\ HistoryBits % 2 = 0
  /\ BlockSize \in Nat \ {0, 1}

\* The newest observation is bit 0; the counter has as many values as the
\* history has bits.
Histories == [0..HistoryBits - 1 -> BOOLEAN]
NewPoint == [history |-> [i \in 0..HistoryBits - 1 |-> i % 2 = 1],
             opencount |-> HistoryBits \div 2 - 1]

increased(n) == (n + 1) % HistoryBits
decreased(n) == (n - 1) % HistoryBits

\* Point::shift: the counter is raised for an open observation, the history
\* moves by one bit, and the counter is lowered if its last bit is now set.
shift(p, open) ==
  LET raised == IF open THEN increased(p.opencount) ELSE p.opencount
      moved == [i \in 0..HistoryBits - 1 |->
                  IF i = 0 THEN open ELSE p.history[i - 1]]
  IN [history |-> moved,
      opencount |-> IF moved[HistoryBits - 1] THEN decreased(raised) ELSE raised]

\* Integer division and remainder as C has them.
quotient(a, b) == IF a < 0 THEN -((-a) \div b) ELSE a \div b
remainder(a, b) == a - b * quotient(a, b)

\* Map::getPoint: the sector, and the distance of the point from its first one.
sector(x, y) == <<quotient(x, BlockSize), quotient(y, BlockSize)>>
offset(x, y) == BlockSize * remainder(y, BlockSize) + remainder(x, BlockSize)

-----------------------------------------------------------------------------
\* Open observations in the history, the last bit left out.
openSeen(h) == Cardinality({i \in 0..HistoryBits - 2 : h[i]})

\* The counter never drifts from the history, though it wraps between its two
\* changes: raised from its greatest value to 0, it is lowered again in the
\* same call (point.h:27 and 36).
CountFollowsHistory ==
  /\ NewPoint.opencount = openSeen(NewPoint.history)
  /\ \A h \in Histories, open \in BOOLEAN :
       LET p == shift([history |-> h, opencount |-> openSeen(h)], open)
       IN p.opencount = openSeen(p.history)

\* A place has a point of its own as long as it lies right of and before the
\* starting point (map.h:31-32).
OnePointPerPlace(Ahead) ==
  \A x1, y1, x2, y2 \in Ahead :
    sector(x1, y1) = sector(x2, y2) /\ offset(x1, y1) = offset(x2, y2)
      => x1 = x2 /\ y1 = y2

\* On the other sides the remainder is negative: sectors overlap at the origin,
\* and some places lie before the first point of their sector.
OverlapBehind ==
  /\ \E x1, x2, y1, y2 \in -BlockSize..BlockSize :
       /\ <<x1, y1>> # <<x2, y2>>
       /\ sector(x1, y1) = sector(x2, y2) /\ offset(x1, y1) = offset(x2, y2)
  /\ \E x, y \in -BlockSize..BlockSize : offset(x, y) < 0
=============================================================================
