----------------------------- MODULE HostProofs -----------------------------
(***************************************************************************)
(* The host beside the robot's messages: the three buffers of a frame and  *)
(* the threads that share them, for every number of frames and every set   *)
(* of frame sources; the room map, for every length of a history, every    *)
(* size of a sector and every point; the command and control server, for   *)
(* every set of clients and keys and every number of commands and messages *)
(* under way; and the command queue, for every set of commands and periods *)
(* that is a light load.                                                   *)
(***************************************************************************)
EXTENDS HostFrames, RoomMap, CncServer, CommandQueue, FiniteSetTheorems,
        FunctionTheorems, SequenceTheorems, TLAPS

-----------------------------------------------------------------------------
(* FrameBuffers and HostFrames.                                            *)

\* The frame the camera has completed or is completing, wherever it is.
Frames ==
  /\ camera # "events" => count < MaxFrames
  /\ camera = "callback" => content[lent] = count + 1
  /\ camera = "swapping" => content[tmp] = count + 1
  /\ lock = "reader" => held = None
  /\ lock = "free" => tmp = None

BInv == TypeOK /\ BuffersDistinct /\ ReaderAlone /\ NewestKept /\ Frames

LEMMA BuffersInit == Init => BInv
  BY FramesAssumption
  DEF Init, BInv, TypeOK, BuffersDistinct, ReaderAlone, NewestKept, Frames,
      Buffers, None

LEMMA FillStep == BInv /\ Fill => BInv'
<1> SUFFICES ASSUME BInv, Fill PROVE BInv'
  OBVIOUS
<1> USE DEF BInv, Fill, Buffers, None
<1>1. TypeOK'
  BY FramesAssumption DEF TypeOK
<1>2. BuffersDistinct'
  BY DEF BuffersDistinct, TypeOK
<1>3. ReaderAlone'
  BY DEF ReaderAlone
<1>4. NewestKept'
  BY DEF NewestKept, BuffersDistinct, TypeOK
<1>5. Frames'
  BY DEF Frames, TypeOK
<1> QED BY <1>1, <1>2, <1>3, <1>4, <1>5

LEMMA FrameCompleteStep == BInv /\ FrameComplete => BInv'
<1> SUFFICES ASSUME BInv, FrameComplete PROVE BInv'
  OBVIOUS
<1> USE DEF BInv, FrameComplete, Buffers, None
<1>1. TypeOK'
  BY FramesAssumption DEF TypeOK, Frames
<1>2. BuffersDistinct'
  BY DEF BuffersDistinct, TypeOK
<1>3. ReaderAlone'
  BY DEF ReaderAlone
<1>4. NewestKept'
  BY DEF NewestKept, BuffersDistinct, TypeOK
<1>5. Frames'
  BY DEF Frames, TypeOK
<1> QED BY <1>1, <1>2, <1>3, <1>4, <1>5

LEMMA LockBackStep == BInv /\ LockBack => BInv'
<1> SUFFICES ASSUME BInv, LockBack PROVE BInv'
  OBVIOUS
<1> USE DEF BInv, LockBack, Buffers, None
<1>1. TypeOK'
  BY DEF TypeOK
<1>2. BuffersDistinct'
  BY DEF BuffersDistinct, TypeOK
<1>3. ReaderAlone'
  BY DEF ReaderAlone, BuffersDistinct
<1>4. NewestKept'
  BY DEF NewestKept
<1>5. Frames'
  BY DEF Frames, TypeOK, BuffersDistinct
<1> QED BY <1>1, <1>2, <1>3, <1>4, <1>5

LEMMA UnlockBackStep == BInv /\ UnlockBack => BInv'
<1> SUFFICES ASSUME BInv, UnlockBack PROVE BInv'
  OBVIOUS
<1> USE DEF BInv, UnlockBack, Buffers, None
<1>1. TypeOK'
  BY FramesAssumption DEF TypeOK, Frames, BuffersDistinct
<1>2. BuffersDistinct'
  BY DEF BuffersDistinct, TypeOK
<1>3. ReaderAlone'
  BY DEF ReaderAlone
<1>4. NewestKept'
  BY DEF NewestKept, Frames, TypeOK
<1>5. Frames'
  BY DEF Frames, TypeOK
<1> QED BY <1>1, <1>2, <1>3, <1>4, <1>5

LEMMA LockFrontStep == BInv /\ LockFront => BInv'
<1> SUFFICES ASSUME BInv, LockFront PROVE BInv'
  OBVIOUS
<1> USE DEF BInv, LockFront, Buffers, None
<1>1. TypeOK'
  BY DEF TypeOK
<1>2. BuffersDistinct'
  BY DEF BuffersDistinct, TypeOK
<1>3. ReaderAlone'
  BY DEF ReaderAlone
<1>4. NewestKept'
  BY DEF NewestKept
<1>5. Frames'
  BY DEF Frames, TypeOK
<1> QED BY <1>1, <1>2, <1>3, <1>4, <1>5

LEMMA UnlockFrontStep == BInv /\ UnlockFront => BInv'
<1> SUFFICES ASSUME BInv, UnlockFront PROVE BInv'
  OBVIOUS
<1> USE DEF BInv, UnlockFront, Buffers, None
<1>1. TypeOK'
  BY DEF TypeOK, BuffersDistinct
<1>2. BuffersDistinct'
  BY DEF BuffersDistinct, TypeOK
<1>3. ReaderAlone'
  BY DEF ReaderAlone, BuffersDistinct
<1>4. NewestKept'
  BY DEF NewestKept, BuffersDistinct, TypeOK
<1>5. Frames'
  BY DEF Frames, TypeOK
<1> QED BY <1>1, <1>2, <1>3, <1>4, <1>5

LEMMA BuffersStutter == BInv /\ UNCHANGED bvars => BInv'
  BY DEF BInv, bvars, TypeOK, BuffersDistinct, ReaderAlone, NewestKept, Frames

\* No order of the two exchanges loses a buffer, gives the reader's buffer to
\* the driver, or loses the newest frame (kinect.cpp:110-154).
THEOREM BuffersCorrect ==
  Spec => [](TypeOK /\ BuffersDistinct /\ ReaderAlone /\ NewestKept)
<1>1. Init => BInv
  BY BuffersInit
<1>2. BInv /\ [Next]_bvars => BInv'
  BY FillStep, FrameCompleteStep, LockBackStep, UnlockBackStep, LockFrontStep,
     UnlockFrontStep, BuffersStutter DEF Next
<1>3. BInv => TypeOK /\ BuffersDistinct /\ ReaderAlone /\ NewestKept
  BY DEF BInv
<1> QED BY <1>1, <1>2, <1>3, PTL DEF Spec

\* The three buffers implement the exchange of two whole frames.
THEOREM BuffersImplementLatestFrame == Spec => ImplementsLatestFrame
<1>1. Init => Latest!Init
  BY DEF Init, Latest!Init, Buffers
<1>2. BInv /\ [Next]_bvars => [Latest!Next]_(Latest!vars)
  <2> SUFFICES ASSUME BInv, [Next]_bvars
               PROVE  [Latest!Next]_(Latest!vars)
    OBVIOUS
  <2> USE DEF BInv, Latest!vars, Buffers, None
  <2>1. CASE Fill
    BY <2>1 DEF Fill, TypeOK, BuffersDistinct
  <2>2. CASE FrameComplete
    BY <2>2 DEF FrameComplete, TypeOK, BuffersDistinct
  <2>3. CASE LockBack
    BY <2>3 DEF LockBack
  <2>4. CASE UnlockBack
    <3>1. Latest!Publish
      BY <2>4 DEF UnlockBack, Latest!Publish, Frames, TypeOK
    <3> QED BY <3>1 DEF Latest!Next
  <2>5. CASE LockFront
    BY <2>5 DEF LockFront
  <2>6. CASE UnlockFront
    <3>1. Latest!Take
      BY <2>6 DEF UnlockFront, Latest!Take, BuffersDistinct, TypeOK
    <3> QED BY <3>1 DEF Latest!Next
  <2>7. CASE UNCHANGED bvars
    BY <2>7 DEF bvars
  <2> QED BY <2>1, <2>2, <2>3, <2>4, <2>5, <2>6, <2>7 DEF Next
<1>3. Init => BInv
  BY BuffersInit
<1>4. BInv /\ [Next]_bvars => BInv'
  BY FillStep, FrameCompleteStep, LockBackStep, UnlockBackStep, LockFrontStep,
     UnlockFrontStep, BuffersStutter DEF Next
<1> QED BY <1>1, <1>2, <1>3, <1>4, PTL
        DEF Spec, ImplementsLatestFrame, Latest!Spec

-----------------------------------------------------------------------------
\* The host leaves the buffers to the driver and to the one reader.
LEMMA HostStepIsBufferStep == [HostNext]_vars => [Next]_bvars
<1> SUFFICES ASSUME [HostNext]_vars PROVE [Next]_bvars
  OBVIOUS
<1>1. CASE Driver
  BY <1>1 DEF Driver, Next
<1>2. CASE Sync
  BY <1>2 DEF Sync, SyncLock, SyncUnlock, SyncTest, SyncConvert, Next
<1>3. CASE Queue
  BY <1>3 DEF Queue, ProxyTest, ProxyCall, SaveTest, SaveFrame, CommandDone
<1>4. CASE Cnc
  BY <1>4 DEF Cnc, Register, SetVideoSource, ChooseSource
<1>5. CASE UNCHANGED vars
  BY <1>5 DEF vars
<1> QED BY <1>1, <1>2, <1>3, <1>4, <1>5 DEF HostNext

\* In the host too the buffers are never mixed up.
THEOREM HostBuffersCorrect ==
  HostSpec => [](TypeOK /\ BuffersDistinct /\ ReaderAlone /\ NewestKept)
<1>1. HostSpec => Spec
  <2>1. HostInit => Init
    BY DEF HostInit
  <2> QED BY <2>1, HostStepIsBufferStep, PTL DEF HostSpec, Spec
<1> QED BY <1>1, BuffersCorrect, PTL

\* Where a pointer that was tested, or the shared pointer it was read from,
\* can be null: nowhere before a client asks for the live picture, except
\* while the command thread is still registering the sources.
PointersHold ==
  /\ cnc[1] = "wait" => alt = source
  /\ cnc[1] = "set" => source = cnc[2]
  /\ queue[1] \in {"call", "saveFrame"} => queue[2] # None
  /\ sync[1] = "frame" => sync[2] # None
  /\ ~ live =>
       /\ ~ crashed
       /\ cnc[1] # "register" => source # None
       /\ queue[1] = "call" => source # None
       /\ cnc[1] = "wait" => alt # None
       /\ queue[1] = "saveFrame" => alt # None
       /\ sync[1] = "frame" => alt # None

LEMMA PointersInit == HostInit => PointersHold
  BY DEF HostInit, PointersHold

LEMMA PointersStep == PointersHold /\ [HostNext]_vars => PointersHold'
<1> SUFFICES ASSUME PointersHold, [HostNext]_vars PROVE PointersHold'
  OBVIOUS
<1> USE DEF PointersHold
<1>1. CASE Driver
  BY <1>1 DEF Driver, fvars
<1>2. CASE SyncLock
  BY <1>2 DEF SyncLock
<1>3. CASE SyncUnlock
  BY <1>3 DEF SyncUnlock
<1>4. CASE SyncTest
  BY <1>4 DEF SyncTest
<1>5. CASE SyncConvert
  BY <1>5 DEF SyncConvert, secondRead
<1>6. CASE ProxyTest
  BY <1>6 DEF ProxyTest
<1>7. CASE ProxyCall
  BY <1>7 DEF ProxyCall, secondRead
<1>8. CASE SaveTest
  BY <1>8 DEF SaveTest
<1>9. CASE SaveFrame
  BY <1>9 DEF SaveFrame, secondRead
<1>10. CASE CommandDone
  BY <1>10 DEF CommandDone
<1>11. CASE Register
  BY <1>11, SourcesAssumption DEF Register
<1>12. ASSUME NEW p \in Sources \union {None}, ChooseSource(p)
       PROVE PointersHold'
  BY <1>12, SourcesAssumption DEF ChooseSource
<1>13. CASE SetVideoSource
  BY <1>13 DEF SetVideoSource
<1>14. CASE UNCHANGED vars
  BY <1>14 DEF vars, fvars
<1> QED
  BY <1>1, <1>2, <1>3, <1>4, <1>5, <1>6, <1>7, <1>8, <1>9, <1>10, <1>11,
     <1>12, <1>13, <1>14 DEF HostNext, Sync, Queue, Cnc

\* Without a client that asks for the live picture no null pointer is used,
\* and between two changes the source redrawn is the one shown
\* (frameproxy.cpp:10 and 23-30, kinect.cpp:179 and 189).
THEOREM PointersCorrect == HostSpec => [](NullOnlyAfterLive /\ ShownIsRedrawn)
<1>1. PointersHold => NullOnlyAfterLive /\ ShownIsRedrawn
  BY DEF PointersHold, NullOnlyAfterLive, ShownIsRedrawn
<1> QED BY <1>1, PointersInit, PointersStep, PTL DEF HostSpec

\* The pointer of a saving stays the front buffer until the next exchange.
Saving == queue[1] = "save" => swapped \/ queue[2] = front

LEMMA SavingStep == Saving /\ [HostNext]_vars => Saving'
<1> SUFFICES ASSUME Saving, [HostNext]_vars PROVE Saving'
  OBVIOUS
<1> USE DEF Saving
<1>1. CASE Driver
  BY <1>1 DEF Driver, fvars, Fill, FrameComplete, LockBack, UnlockBack
<1>2. CASE SyncLock
  BY <1>2 DEF SyncLock
<1>3. CASE SyncUnlock
  BY <1>3 DEF SyncUnlock, UnlockFront
<1>4. CASE SyncTest \/ SyncConvert
  BY <1>4 DEF SyncTest, SyncConvert, bvars
<1>5. CASE Queue
  BY <1>5 DEF Queue, ProxyTest, ProxyCall, SaveTest, SaveFrame, CommandDone,
              bvars
<1>6. CASE Cnc
  BY <1>6 DEF Cnc, Register, SetVideoSource, ChooseSource, bvars
<1>7. CASE UNCHANGED vars
  BY <1>7 DEF vars, fvars, bvars
<1> QED BY <1>1, <1>2, <1>3, <1>4, <1>5, <1>6, <1>7 DEF HostNext, Sync

\* A picture is saved whole unless the front buffer was exchanged during the
\* saving (kinect.cpp:177, dumpvideo.cpp:25).
THEOREM SavedWhole == HostSpec => []SavedWholeUnlessSwapped
<1>1. HostInit => Saving
  BY DEF HostInit, Saving
<1>2. Saving /\ TypeOK /\ BuffersDistinct => SavedWholeUnlessSwapped
  BY DEF Saving, TypeOK, BuffersDistinct, SavedWholeUnlessSwapped
<1> QED BY <1>1, <1>2, SavingStep, HostBuffersCorrect, PTL DEF HostSpec

LEMMA HostTypeStep == HostTypeOK /\ TypeOK' /\ [HostNext]_vars => HostTypeOK'
<1> SUFFICES ASSUME HostTypeOK, TypeOK', [HostNext]_vars PROVE HostTypeOK'
  OBVIOUS
<1> USE DEF HostTypeOK
<1>1. CASE Driver
  BY <1>1 DEF Driver, fvars, Fill, FrameComplete, LockBack, UnlockBack, TypeOK
<1>2. CASE SyncLock
  BY <1>2 DEF SyncLock, LockFront
<1>3. CASE SyncUnlock
  BY <1>3 DEF SyncUnlock, UnlockFront
<1>4. CASE SyncTest
  BY <1>4 DEF SyncTest, bvars
<1>5. CASE SyncConvert
  BY <1>5 DEF SyncConvert, secondRead, bvars
<1>6. CASE ProxyTest
  BY <1>6 DEF ProxyTest, bvars
<1>7. CASE ProxyCall
  <2>1. PICK p \in {queue[2], source} :
          IF p = None THEN crashed' = TRUE /\ UNCHANGED queue
          ELSE queue' = <<"draw", None>> /\ UNCHANGED crashed
    BY <1>7 DEF ProxyCall, secondRead
  <2>2. CASE p = None
    BY <1>7, <2>1, <2>2 DEF ProxyCall, bvars
  <2>3. CASE p # None
    BY <1>7, <2>1, <2>3 DEF ProxyCall, bvars
  <2> QED BY <2>2, <2>3
<1>8. CASE SaveTest
  BY <1>8 DEF SaveTest, bvars, TypeOK
<1>9. CASE SaveFrame
  <2>1. PICK p \in {queue[2], alt} :
          IF p = None THEN crashed' = TRUE /\ UNCHANGED queue
          ELSE queue' = <<"draw", None>> /\ UNCHANGED crashed
    BY <1>9 DEF SaveFrame, secondRead
  <2>2. CASE p = None
    BY <1>9, <2>1, <2>2 DEF SaveFrame, bvars
  <2>3. CASE p # None
    BY <1>9, <2>1, <2>3 DEF SaveFrame, bvars
  <2> QED BY <2>2, <2>3
<1>10. CASE CommandDone
  BY <1>10 DEF CommandDone, bvars
<1>11. CASE Register
  BY <1>11, SourcesAssumption DEF Register, bvars
<1>12. ASSUME NEW p \in Sources \union {None}, ChooseSource(p)
       PROVE HostTypeOK'
  BY <1>12 DEF ChooseSource, bvars
<1>13. CASE SetVideoSource
  BY <1>13 DEF SetVideoSource, bvars
<1>14. CASE UNCHANGED vars
  BY <1>14 DEF vars, fvars, bvars
<1> QED
  BY <1>1, <1>2, <1>3, <1>4, <1>5, <1>6, <1>7, <1>8, <1>9, <1>10, <1>11,
     <1>12, <1>13, <1>14 DEF HostNext, Sync, Queue, Cnc

\* Every thread and pointer stays in its type, and the lock is the picture
\* thread's exactly during its exchange (kinect.cpp:122-131).
THEOREM HostTypeCorrect == HostSpec => []HostTypeOK
<1>1. HostInit /\ TypeOK => HostTypeOK
  <2> SUFFICES ASSUME HostInit, TypeOK PROVE HostTypeOK
    OBVIOUS
  <2>1. /\ {source, alt, shown} \subseteq Sources \union {None}
        /\ lock = "reader" <=> sync[1] = "swapping"
    BY DEF HostInit, Init
  <2>2. {crashed, live, swapped} \subseteq BOOLEAN
    BY DEF HostInit
  <2>3. /\ sync \in {"swap", "swapping", "test", "camera", "frame"}
                    \X (Sources \union {None})
        /\ queue \in {"idle", "call", "draw", "saveFrame", "save"}
                     \X (Sources \union Buffers \union {None})
        /\ cnc \in {"register", "default", "wait", "set"}
                   \X (Sources \union {None})
    BY DEF HostInit
  <2> QED BY <2>1, <2>2, <2>3 DEF HostTypeOK
<1> QED BY <1>1, HostTypeStep, HostBuffersCorrect, PTL DEF HostSpec

-----------------------------------------------------------------------------
(* RoomMap.                                                                *)

\* A set and the set of its successors.
LEMMA MovedByOne ==
  ASSUME NEW A \in SUBSET Int, IsFiniteSet(A), NEW B \in SUBSET Int,
         \A i \in A : i + 1 \in B, \A i \in B : i - 1 \in A
  PROVE  IsFiniteSet(B) /\ Cardinality(B) = Cardinality(A)
<1> DEFINE f == [i \in A |-> i + 1]
<1>1. f \in [A -> B]
  OBVIOUS
<1>2. \A a, b \in A : f[a] = f[b] => a = b
  OBVIOUS
<1>3. \A b \in B : \E a \in A : f[a] = b
  <2> TAKE b \in B
  <2>1. b - 1 \in A /\ f[b - 1] = b
    OBVIOUS
  <2> QED BY <2>1
<1>4. f \in Bijection(A, B)
  BY <1>1, <1>2, <1>3 DEF Bijection, Injection, Surjection, IsInjective
<1>5. ExistsBijection(A, B)
  BY <1>4 DEF ExistsBijection
<1> QED BY <1>5, FS_Bijection

\* The observations that count, before and after one more.
LEMMA OneMoreSeen ==
  ASSUME NEW h \in Histories, NEW m \in Histories, NEW open \in BOOLEAN,
         m[0] = open, \A i \in 1 .. HistoryBits - 1 : m[i] = h[i - 1]
  PROVE  /\ openSeen(h) \in 0 .. HistoryBits - 1 /\ openSeen(m) \in 0 .. HistoryBits - 1
         /\ openSeen(m) = openSeen(h) + (IF open THEN 1 ELSE 0)
                          - (IF m[HistoryBits - 1] THEN 1 ELSE 0)
<1> DEFINE A == {i \in 0 .. HistoryBits - 2 : h[i]}
           B == {i \in 0 .. HistoryBits - 2 : m[i]}
           a == A \ {HistoryBits - 2}
           b == B \ {0}
<1>0. HistoryBits \in Nat /\ HistoryBits >= 2
  BY MapAssumption
<1>1. /\ IsFiniteSet(0 .. HistoryBits - 2)
      /\ Cardinality(0 .. HistoryBits - 2) = HistoryBits - 1
  BY <1>0, FS_Interval
<1>2. /\ IsFiniteSet(A) /\ Cardinality(A) \in 0 .. HistoryBits - 1
      /\ IsFiniteSet(B) /\ Cardinality(B) \in 0 .. HistoryBits - 1
  <2>1. A \subseteq 0 .. HistoryBits - 2 /\ B \subseteq 0 .. HistoryBits - 2
    OBVIOUS
  <2> HIDE DEF A, B
  <2>2. /\ IsFiniteSet(A) /\ Cardinality(A) <= HistoryBits - 1
        /\ IsFiniteSet(B) /\ Cardinality(B) <= HistoryBits - 1
    <3>1. \A S \in SUBSET (0 .. HistoryBits - 2) :
            IsFiniteSet(S) /\ Cardinality(S) <= Cardinality(0 .. HistoryBits - 2)
      BY <1>1, FS_Subset
    <3> QED BY <1>1, <2>1, <3>1
  <2>3. Cardinality(A) \in Nat /\ Cardinality(B) \in Nat
    BY <2>2, FS_CardinalityType
  <2> QED BY <1>0, <2>2, <2>3
<1>3. IsFiniteSet(a) /\ Cardinality(a) = Cardinality(A) - (IF h[HistoryBits - 2] THEN 1 ELSE 0)
  <2>1. HistoryBits - 2 \in A <=> h[HistoryBits - 2]
    BY <1>0
  <2> HIDE DEF A
  <2> QED BY <1>2, <2>1, FS_RemoveElement
<1>4. IsFiniteSet(b) /\ Cardinality(b) = Cardinality(B) - (IF open THEN 1 ELSE 0)
  <2>1. 0 \in B <=> open
    BY <1>0
  <2> HIDE DEF B
  <2> QED BY <1>2, <2>1, FS_RemoveElement
<1>5. Cardinality(b) = Cardinality(a)
  <2>1. a \in SUBSET Int /\ b \in SUBSET Int
    OBVIOUS
  <2>2. ASSUME NEW i \in a PROVE i + 1 \in b
    <3>1. i \in 0 .. HistoryBits - 3 /\ h[i]
      BY <1>0
    <3>2. i + 1 \in 1 .. HistoryBits - 2 /\ (i + 1) - 1 = i
      BY <1>0, <3>1
    <3>3. m[i + 1] = h[(i + 1) - 1]
      <4>1. i + 1 \in 1 .. HistoryBits - 1
        BY <1>0, <3>2
      <4> QED BY <4>1
    <3> QED BY <3>1, <3>2, <3>3
  <2>3. ASSUME NEW i \in b PROVE i - 1 \in a
    <3>0. i \in 0 .. HistoryBits - 2 /\ i # 0 /\ m[i]
      OBVIOUS
    <3>1. i \in 1 .. HistoryBits - 2
      <4>1. i \in 0 .. HistoryBits - 2 /\ i # 0
        BY <3>0
      <4> QED BY <1>0, <4>1
    <3>2. h[i - 1] = m[i]
      BY <1>0, <3>1
    <3> QED BY <1>0, <3>0, <3>1, <3>2
  <2> HIDE DEF a, b
  <2> QED BY <1>3, <2>1, <2>2, <2>3, MovedByOne
<1>6. m[HistoryBits - 1] = h[HistoryBits - 2]
  <2>1. HistoryBits - 1 \in 1 .. HistoryBits - 1 /\ (HistoryBits - 1) - 1 = HistoryBits - 2
    BY <1>0
  <2> QED BY <2>1
<1>7. openSeen(h) = Cardinality(A) /\ openSeen(m) = Cardinality(B)
  BY DEF openSeen
<1> HIDE DEF A, B, a, b
<1> QED BY <1>2, <1>3, <1>4, <1>5, <1>6, <1>7

LEMMA Remainder ==
  ASSUME NEW n \in Nat \ {0}, NEW x \in -1 .. 2 * n - 1
  PROVE  x % n = IF x < 0 THEN n - 1 ELSE IF x < n THEN x ELSE x - n
<1>1. CASE x < 0
  <2>1. x = n * (-1) + (n - 1) /\ n - 1 \in 0 .. n - 1
    BY <1>1
  <2> QED BY <1>1, <2>1
<1>2. CASE x >= 0 /\ x < n
  BY <1>2
<1>3. CASE x >= n
  <2>1. x - n \in 0 .. n - 1 /\ x = n * 1 + (x - n)
    BY <1>3
  <2> QED BY <1>3, <2>1
<1> QED BY <1>1, <1>2, <1>3

\* The counter of a point is the number of open observations in its history, the
\* last bit left out, from the first observation on and for every history.
THEOREM CounterFollows == CountFollowsHistory
<1>0. HistoryBits \in Nat /\ HistoryBits >= 2
  BY MapAssumption
<1>1. NewPoint.opencount = openSeen(NewPoint.history)
  <2>1. PICK k \in Nat : HistoryBits = 2 * k /\ k >= 1 /\ HistoryBits \div 2 = k
    <3>1. HistoryBits \div 2 \in Nat /\ HistoryBits = 2 * (HistoryBits \div 2)
      BY <1>0, MapAssumption
    <3> QED BY <1>0, <3>1
  <2> DEFINE D == 1 .. k - 1
             S == {i \in 0 .. HistoryBits - 2 : i % 2 = 1}
             f == [j \in D |-> 2 * j - 1]
  <2>2. IsFiniteSet(D) /\ Cardinality(D) = k - 1
    BY <2>1, FS_Interval
  <2>3. f \in [D -> S]
    <3> SUFFICES ASSUME NEW j \in D PROVE 2 * j - 1 \in S
      OBVIOUS
    <3>1. 2 * j - 1 \in 0 .. HistoryBits - 2 /\ (2 * j - 1) % 2 = 1
      BY <2>1
    <3> QED BY <3>1
  <2>4. \A i, j \in D : f[i] = f[j] => i = j
    BY <2>1
  <2>5. \A i \in S : \E j \in D : f[j] = i
    <3> TAKE i \in S
    <3>1. i \in 0 .. HistoryBits - 2 /\ i % 2 = 1
      OBVIOUS
    <3> DEFINE j == (i + 1) \div 2
    <3>2. j \in Int /\ i = 2 * j - 1
      BY <3>1
    <3> HIDE DEF j
    <3>3. j \in D
      BY <2>1, <3>1, <3>2
    <3> QED BY <3>2, <3>3
  <2>6. ExistsBijection(D, S)
    BY <2>3, <2>4, <2>5
    DEF ExistsBijection, Bijection, Injection, Surjection, IsInjective
  <2> HIDE DEF D, f, S
  <2>7. Cardinality(S) = k - 1
    BY <2>2, <2>6, FS_Bijection
  <2>8. {i \in 0 .. HistoryBits - 2 : NewPoint.history[i]} = S
    <3>1. ASSUME NEW i \in 0 .. HistoryBits - 2 PROVE NewPoint.history[i] <=> i % 2 = 1
      <4>1. i \in 0 .. HistoryBits - 1
        BY <1>0
      <4> QED BY <4>1 DEF NewPoint
    <3> QED BY <3>1 DEF S
  <2>9. openSeen(NewPoint.history) = Cardinality({i \in 0 .. HistoryBits - 2 : NewPoint.history[i]})
    BY DEF openSeen
  <2> QED BY <2>1, <2>7, <2>8, <2>9 DEF NewPoint
<1>2. ASSUME NEW h \in Histories, NEW open \in BOOLEAN
      PROVE  LET p == shift([history |-> h, opencount |-> openSeen(h)], open)
             IN  p.opencount = openSeen(p.history)
  <2> DEFINE p == [history |-> h, opencount |-> openSeen(h)]
             m == [i \in 0 .. HistoryBits - 1 |-> IF i = 0 THEN open ELSE h[i - 1]]
             n == openSeen(h)
             u == IF open THEN increased(n) ELSE n
  <2>1. m \in Histories /\ m[0] = open /\ \A i \in 1 .. HistoryBits - 1 : m[i] = h[i - 1]
    BY <1>0 DEF Histories
  <2>2. /\ shift(p, open).history = m
        /\ shift(p, open).opencount = IF m[HistoryBits - 1] THEN decreased(u) ELSE u
    BY DEF shift
  <2> HIDE DEF m
  <2>3. /\ n \in 0 .. HistoryBits - 1 /\ openSeen(m) \in 0 .. HistoryBits - 1
        /\ openSeen(m) = n + (IF open THEN 1 ELSE 0) - (IF m[HistoryBits - 1] THEN 1 ELSE 0)
    BY <2>1, OneMoreSeen
  <2> HIDE DEF n
  <2>4. (IF m[HistoryBits - 1] THEN decreased(u) ELSE u) = openSeen(m)
    <3>1. increased(n) = IF n + 1 < HistoryBits THEN n + 1 ELSE 0
      <4>1. PICK y \in -1 .. 2 * HistoryBits - 1 : y = n + 1 /\ y <= HistoryBits
        <5>1. n + 1 \in -1 .. 2 * HistoryBits - 1 /\ n + 1 <= HistoryBits
          BY <1>0, <2>3
        <5> QED BY <5>1
      <4>2. HistoryBits \in Nat \ {0}
        BY <1>0
      <4>3. y % HistoryBits = IF y < 0 THEN HistoryBits - 1
                              ELSE IF y < HistoryBits THEN y ELSE y - HistoryBits
        BY <4>2, Remainder
      <4>4. increased(n) = y % HistoryBits
        BY <4>1 DEF increased
      <4> QED BY <1>0, <2>3, <4>1, <4>3, <4>4
    <3>2. u \in 0 .. HistoryBits - 1
      BY <1>0, <2>3, <3>1
    <3> HIDE DEF u
    <3>3. decreased(u) = IF u = 0 THEN HistoryBits - 1 ELSE u - 1
      <4>1. PICK y \in -1 .. 2 * HistoryBits - 1 : y = u - 1 /\ y <= HistoryBits
        <5>1. u - 1 \in -1 .. 2 * HistoryBits - 1 /\ u - 1 <= HistoryBits
          BY <1>0, <3>2
        <5> QED BY <5>1
      <4>2. HistoryBits \in Nat \ {0}
        BY <1>0
      <4>3. y % HistoryBits = IF y < 0 THEN HistoryBits - 1
                              ELSE IF y < HistoryBits THEN y ELSE y - HistoryBits
        BY <4>2, Remainder
      <4>4. decreased(u) = y % HistoryBits
        BY <4>1 DEF decreased
      <4> QED BY <1>0, <3>2, <4>1, <4>3, <4>4
    <3>4. u = IF open THEN IF n + 1 < HistoryBits THEN n + 1 ELSE 0 ELSE n
      BY <3>1 DEF u
    <3> QED BY <1>0, <2>3, <3>2, <3>3, <3>4
  <2> QED BY <2>2, <2>4
<1> QED BY <1>1, <1>2 DEF CountFollowsHistory

\* A quotient and a remainder determine each other.
LEMMA Division ==
  ASSUME NEW n \in Nat \ {0}, NEW x \in Nat
  PROVE  /\ quotient(x, n) \in Nat /\ remainder(x, n) \in 0 .. n - 1
         /\ x = n * quotient(x, n) + remainder(x, n)
<1>1. PICK w \in Int : w = x \div n
  OBVIOUS
<1>2. n * w <= x /\ x < n * w + n
  BY <1>1
<1>3. w >= 0
  <2>1. ASSUME w < 0 PROVE FALSE
    <3>1. PICK k \in Nat : w = -1 - k
      <4>1. -1 - w \in Nat /\ w = -1 - (-1 - w)
        BY <2>1
      <4> QED BY <4>1
    <3>2. n * w = -n - n * k /\ n * k >= 0
      BY <3>1
    <3> QED BY <1>2, <3>2
  <2> QED BY <2>1
<1>4. quotient(x, n) = w /\ remainder(x, n) = x - n * w
  BY <1>1 DEF quotient, remainder
<1>5. x - n * w \in 0 .. n - 1 /\ x = n * w + (x - n * w)
  BY <1>2
<1> QED BY <1>3, <1>4, <1>5

\* Two digits in base n are two numbers.
number(n, a, b) == n * a + b

LEMMA Digits ==
  ASSUME NEW n \in Nat \ {0}, NEW a \in 0 .. n - 1, NEW b \in 0 .. n - 1,
         NEW c \in 0 .. n - 1, NEW d \in 0 .. n - 1, number(n, a, b) = number(n, c, d)
  PROVE  a = c /\ b = d
<1>1. ASSUME NEW i \in 0 .. n - 1, NEW j \in 0 .. n - 1, i < j,
             NEW v \in 0 .. n - 1, NEW w \in 0 .. n - 1
      PROVE  n * i + v # n * j + w
  <2>1. PICK k \in Nat : j = i + 1 + k
    <3>1. j - i - 1 \in Nat /\ j = i + 1 + (j - i - 1)
      BY <1>1
    <3> QED BY <3>1
  <2>2. n * j = n * i + n + n * k /\ n * k >= 0 /\ n * i \in Int /\ n * k \in Int
    BY <2>1
  <2> QED BY <2>2
<1>2. a = c
  BY <1>1 DEF number
<1> QED BY <1>2 DEF number

\* A place that lies right of and before the starting point has a point of its own.
THEOREM PointsAhead == OnePointPerPlace(Nat)
<1> SUFFICES ASSUME NEW x1 \in Nat, NEW y1 \in Nat, NEW x2 \in Nat, NEW y2 \in Nat,
                    sector(x1, y1) = sector(x2, y2), offset(x1, y1) = offset(x2, y2)
             PROVE  x1 = x2 /\ y1 = y2
  BY DEF OnePointPerPlace
<1>0. BlockSize \in Nat \ {0}
  BY MapAssumption
<1>1. /\ quotient(x1, BlockSize) = quotient(x2, BlockSize)
      /\ quotient(y1, BlockSize) = quotient(y2, BlockSize)
  BY DEF sector
<1>2. /\ remainder(x1, BlockSize) \in 0 .. BlockSize - 1
      /\ remainder(x2, BlockSize) \in 0 .. BlockSize - 1
      /\ remainder(y1, BlockSize) \in 0 .. BlockSize - 1
      /\ remainder(y2, BlockSize) \in 0 .. BlockSize - 1
  BY <1>0, Division
<1>3. /\ remainder(y1, BlockSize) = remainder(y2, BlockSize)
      /\ remainder(x1, BlockSize) = remainder(x2, BlockSize)
  <2>1. number(BlockSize, remainder(y1, BlockSize), remainder(x1, BlockSize))
        = number(BlockSize, remainder(y2, BlockSize), remainder(x2, BlockSize))
    BY DEF offset, number
  <2> QED BY <1>0, <1>2, <2>1, Digits
<1>4. /\ x1 = BlockSize * quotient(x1, BlockSize) + remainder(x1, BlockSize)
      /\ x2 = BlockSize * quotient(x2, BlockSize) + remainder(x2, BlockSize)
      /\ y1 = BlockSize * quotient(y1, BlockSize) + remainder(y1, BlockSize)
      /\ y2 = BlockSize * quotient(y2, BlockSize) + remainder(y2, BlockSize)
  BY <1>0, Division
<1> QED BY <1>1, <1>3, <1>4

\* Left of the starting point a place may share its point with another one, and
\* may lie before the first point of its sector.
THEOREM PointsBehind == OverlapBehind
<1>0. BlockSize \in Nat /\ BlockSize >= 2
  BY MapAssumption
<1>1. ASSUME NEW x \in 0 .. BlockSize - 1
      PROVE  quotient(x, BlockSize) = 0 /\ remainder(x, BlockSize) = x
  <2>1. x \div BlockSize = 0
    BY <1>0
  <2> QED BY <1>0, <2>1 DEF quotient, remainder
<1>2. quotient(-1, BlockSize) = 0 /\ remainder(-1, BlockSize) = -1
  <2>0. -(-1) = 1 /\ -1 < 0
    <3>1. \A x \in Int : -(-x) = x
      OBVIOUS
    <3>2. 1 \in Int /\ -1 < 0
      OBVIOUS
    <3> QED BY <3>1, <3>2, Zenon
  <2>a. 1 \in 0 .. BlockSize - 1
    BY <1>0
  <2>1. 1 \div BlockSize = 0
    BY <1>1, <2>a DEF quotient
  <2> QED BY <1>0, <2>0, <2>1 DEF quotient, remainder
<1>3. sector(-1, 1) = sector(BlockSize - 1, 0) /\ offset(-1, 1) = offset(BlockSize - 1, 0)
  <2>1. /\ BlockSize - 1 \in 0 .. BlockSize - 1 /\ 0 \in 0 .. BlockSize - 1
        /\ 1 \in 0 .. BlockSize - 1
    BY <1>0
  <2>2. /\ sector(-1, 1) = <<0, 0>> /\ sector(BlockSize - 1, 0) = <<0, 0>>
    BY <1>1, <1>2, <2>1 DEF sector
  <2>3. /\ offset(-1, 1) = BlockSize * 1 + (-1)
        /\ offset(BlockSize - 1, 0) = BlockSize * 0 + (BlockSize - 1)
    BY <1>1, <1>2, <2>1 DEF offset
  <2> QED BY <1>0, <2>2, <2>3
<1>4. offset(-1, 0) < 0
  <2>1. 0 \in 0 .. BlockSize - 1
    BY <1>0
  <2>2. offset(-1, 0) = BlockSize * 0 + (-1)
    BY <1>1, <1>2, <2>1 DEF offset
  <2> QED BY <1>0, <2>2
<1>5. /\ -1 \in -BlockSize .. BlockSize /\ 1 \in -BlockSize .. BlockSize
      /\ 0 \in -BlockSize .. BlockSize /\ BlockSize - 1 \in -BlockSize .. BlockSize
      /\ <<-1, 1>> # <<BlockSize - 1, 0>>
  BY <1>0
<1> QED BY <1>3, <1>4, <1>5 DEF OverlapBehind

-----------------------------------------------------------------------------
(* CncServer.                                                              *)

(* Commands and messages under way, as sequences.                          *)

HasState(d) == \E i \in DOMAIN d : d[i].op = "state"
HasReply(u) == \E i \in DOMAIN u : u[i] = "reply"

\* What the robot does once it has followed every command of d, having
\* followed m: it drives by keys of H.
Follows(d, m, H) ==
  /\ (\A i \in DOMAIN d : d[i].op # "motors") => m \in H
  /\ \A i \in DOMAIN d :
       d[i].op = "motors" /\ (\A j \in DOMAIN d : d[j].op = "motors" => j <= i)
         => d[i].keys \in H

\* One command more.
LEMMA OneMore ==
  ASSUME NEW S, NEW s \in Seq(S), NEW x \in S
  PROVE  /\ s \o <<x>> \in Seq(S) /\ Len(s \o <<x>>) = Len(s) + 1
         /\ DOMAIN (s \o <<x>>) = 1 .. Len(s) + 1 /\ DOMAIN s = 1 .. Len(s)
         /\ \A i \in 1 .. Len(s) : (s \o <<x>>)[i] = s[i]
         /\ (s \o <<x>>)[Len(s) + 1] = x
<1>1. <<x>> \in Seq(S) /\ Len(<<x>>) = 1 /\ <<x>>[1] = x
  OBVIOUS
<1>2. Len(s) \in Nat /\ DOMAIN s = 1 .. Len(s)
  OBVIOUS
<1> DEFINE one == <<x>>
<1>3. one \in Seq(S) /\ Len(one) = 1 /\ one[1] = x
  BY <1>1
<1> HIDE DEF one
<1>4. /\ s \o one \in Seq(S) /\ Len(s \o one) = Len(s) + Len(one)
      /\ \A i \in 1 .. Len(s) + Len(one) :
           (s \o one)[i] = IF i <= Len(s) THEN s[i] ELSE one[i - Len(s)]
  BY <1>3, ConcatProperties
<1>5. Len(s \o one) = Len(s) + 1 /\ s \o one \in Seq(S)
  BY <1>3, <1>4
<1>6. DOMAIN (s \o one) = 1 .. Len(s) + 1
  <2> DEFINE t == s \o one
  <2>1. t \in Seq(S) /\ Len(t) = Len(s) + 1
    BY <1>5
  <2> HIDE DEF t
  <2>2. DOMAIN t = 1 .. Len(t)
    BY <2>1
  <2> QED BY <2>1, <2>2 DEF t
<1>7. \A i \in 1 .. Len(s) : (s \o one)[i] = s[i]
  BY <1>2, <1>3, <1>4
<1>8. (s \o one)[Len(s) + 1] = x
  <2>1. Len(s) + 1 \in 1 .. Len(s) + Len(one) /\ ~ Len(s) + 1 <= Len(s)
        /\ Len(s) + 1 - Len(s) = 1
    BY <1>2, <1>3
  <2> QED BY <1>3, <1>4, <2>1
<1> QED BY <1>2, <1>5, <1>6, <1>7, <1>8 DEF one

\* One command less.
LEMMA OneLess ==
  ASSUME NEW S, NEW s \in Seq(S), s # <<>>
  PROVE  /\ Tail(s) \in Seq(S) /\ Len(Tail(s)) = Len(s) - 1 /\ Len(s) \in Nat \ {0}
         /\ DOMAIN Tail(s) = 1 .. Len(s) - 1 /\ DOMAIN s = 1 .. Len(s)
         /\ \A i \in 1 .. Len(s) - 1 : Tail(s)[i] = s[i + 1]
         /\ Head(s) \in S /\ Head(s) = s[1]
<1>1. /\ Head(s) \in S /\ Tail(s) \in Seq(S) /\ Len(Tail(s)) = Len(s) - 1
      /\ \A i \in 1 .. Len(Tail(s)) : Tail(s)[i] = s[i + 1]
  BY HeadTailProperties
<1>2. Len(s) \in Nat \ {0} /\ DOMAIN s = 1 .. Len(s) /\ Head(s) = s[1]
  BY EmptySeq
<1>3. DOMAIN Tail(s) = 1 .. Len(Tail(s))
  <2> DEFINE t == Tail(s)
  <2>1. t \in Seq(S)
    BY <1>1
  <2> HIDE DEF t
  <2>2. DOMAIN t = 1 .. Len(t)
    BY <2>1
  <2> QED BY <2>2 DEF t
<1> QED BY <1>1, <1>2, <1>3

Command == [op : {"motors", "camera", "state"}, keys : SUBSET Keys]
Message == {"login", "reply", "other"}

LEMMA StateMore ==
  ASSUME NEW d \in Seq(Command), NEW x \in Command
  PROVE  HasState(d \o <<x>>) <=> HasState(d) \/ x.op = "state"
<1> DEFINE t == d \o <<x>>
<1>1. /\ DOMAIN t = 1 .. Len(d) + 1 /\ DOMAIN d = 1 .. Len(d) /\ Len(d) \in Nat
      /\ \A i \in 1 .. Len(d) : t[i] = d[i]
      /\ t[Len(d) + 1] = x
  BY OneMore
<1> HIDE DEF t
<1>2. \A i \in DOMAIN t : i \in DOMAIN d \/ i = Len(d) + 1
  BY <1>1
<1>3. Len(d) + 1 \in DOMAIN t /\ DOMAIN d \subseteq DOMAIN t
  BY <1>1
<1>4. HasState(t) <=> HasState(d) \/ x.op = "state"
  BY <1>1, <1>2, <1>3 DEF HasState
<1> QED BY <1>4 DEF t

LEMMA StateLess ==
  ASSUME NEW d \in Seq(Command), d # <<>>
  PROVE  HasState(d) <=> Head(d).op = "state" \/ HasState(Tail(d))
<1> DEFINE t == Tail(d)
<1>1. /\ DOMAIN t = 1 .. Len(d) - 1 /\ DOMAIN d = 1 .. Len(d) /\ Len(d) \in Nat \ {0}
      /\ \A i \in 1 .. Len(d) - 1 : t[i] = d[i + 1]
      /\ Head(d) = d[1]
  BY OneLess
<1> HIDE DEF t
<1>2. \A i \in DOMAIN d : i = 1 \/ (i - 1 \in DOMAIN t /\ t[i - 1] = d[i])
  BY <1>1
<1>3. \A i \in DOMAIN t : i + 1 \in DOMAIN d /\ t[i] = d[i + 1]
  BY <1>1
<1>4. 1 \in DOMAIN d
  BY <1>1
<1>5. HasState(d) => Head(d).op = "state" \/ HasState(t)
  BY <1>1, <1>2 DEF HasState
<1>6. Head(d).op = "state" \/ HasState(t) => HasState(d)
  BY <1>1, <1>3, <1>4 DEF HasState
<1> QED BY <1>5, <1>6 DEF t

LEMMA ReplyMore ==
  ASSUME NEW u \in Seq(Message), NEW x \in Message
  PROVE  HasReply(u \o <<x>>) <=> HasReply(u) \/ x = "reply"
<1> DEFINE t == u \o <<x>>
<1>1. /\ DOMAIN t = 1 .. Len(u) + 1 /\ DOMAIN u = 1 .. Len(u) /\ Len(u) \in Nat
      /\ \A i \in 1 .. Len(u) : t[i] = u[i]
      /\ t[Len(u) + 1] = x
  BY OneMore
<1> HIDE DEF t
<1>2. \A i \in DOMAIN t : i \in DOMAIN u \/ i = Len(u) + 1
  BY <1>1
<1>3. Len(u) + 1 \in DOMAIN t /\ DOMAIN u \subseteq DOMAIN t
  BY <1>1
<1>4. HasReply(t) <=> HasReply(u) \/ x = "reply"
  BY <1>1, <1>2, <1>3 DEF HasReply
<1> QED BY <1>4 DEF t

LEMMA ReplyLess ==
  ASSUME NEW u \in Seq(Message), u # <<>>
  PROVE  HasReply(u) <=> Head(u) = "reply" \/ HasReply(Tail(u))
<1> DEFINE t == Tail(u)
<1>1. /\ DOMAIN t = 1 .. Len(u) - 1 /\ DOMAIN u = 1 .. Len(u) /\ Len(u) \in Nat \ {0}
      /\ \A i \in 1 .. Len(u) - 1 : t[i] = u[i + 1]
      /\ Head(u) = u[1]
  BY OneLess
<1> HIDE DEF t
<1>2. \A i \in DOMAIN u : i = 1 \/ (i - 1 \in DOMAIN t /\ t[i - 1] = u[i])
  BY <1>1
<1>3. \A i \in DOMAIN t : i + 1 \in DOMAIN u /\ t[i] = u[i + 1]
  BY <1>1
<1>4. 1 \in DOMAIN u
  BY <1>1
<1>5. HasReply(u) => Head(u) = "reply" \/ HasReply(t)
  BY <1>1, <1>2 DEF HasReply
<1>6. Head(u) = "reply" \/ HasReply(t) => HasReply(u)
  BY <1>1, <1>3, <1>4 DEF HasReply
<1> QED BY <1>5, <1>6 DEF t

\* The messages of a chunk that are left.
LEMMA ReplyRest ==
  ASSUME NEW u \in Seq(Message), NEW n \in 1 .. Len(u), NEW rest \in {<<>>, <<"other">>}
  PROVE  /\ rest \o SubSeq(u, n + 1, Len(u)) \in Seq(Message)
         /\ Len(rest \o SubSeq(u, n + 1, Len(u))) = Len(rest) + Len(u) - n
         /\ HasReply(u) <=> \/ \E i \in 1 .. n : u[i] = "reply"
                           \/ HasReply(rest \o SubSeq(u, n + 1, Len(u)))
<1>0. Len(u) \in Nat /\ DOMAIN u = 1 .. Len(u) /\ \A i \in 1 .. Len(u) : u[i] \in Message
  BY ElementOfSeq
<1> DEFINE v == SubSeq(u, n + 1, Len(u))
<1>1. /\ v \in Seq(Message) /\ Len(v) = Len(u) - n
      /\ \A i \in 1 .. Len(u) - n : v[i] = u[n + i]
  <2>1. n + 1 \in 1 .. Len(u) + 1 /\ Len(u) \in n .. Len(u)
        /\ \A i \in n + 1 .. Len(u) : u[i] \in Message
    BY <1>0
  <2>2. /\ v \in Seq(Message)
        /\ Len(v) = IF n + 1 <= Len(u) THEN Len(u) - (n + 1) + 1 ELSE 0
        /\ \A i \in 1 .. Len(u) - (n + 1) + 1 : v[i] = u[n + 1 + i - 1]
    BY <2>1, SubSeqProperties
  <2> HIDE DEF v
  <2>3. Len(v) = Len(u) - n /\ Len(u) - (n + 1) + 1 = Len(u) - n
    <3>1. n \in 1 .. Len(u) /\ Len(u) - (n + 1) + 1 = Len(u) - n
      BY <1>0
    <3>2. CASE n + 1 <= Len(u)
      BY <2>2, <3>1, <3>2
    <3>3. CASE ~ n + 1 <= Len(u)
      <4>1. Len(v) = 0 /\ Len(u) - n = 0
        <5>1. Len(v) = 0
          BY <2>2, <3>1, <3>3
        <5>2. Len(u) - n = 0
          <6>1. n \in Int /\ Len(u) \in Int /\ n <= Len(u)
            BY <1>0, <3>1
          <6>2. ~ n + 1 <= Len(u)
            BY <3>3
          <6> QED BY <6>1, <6>2
        <5> QED BY <5>1, <5>2
      <4> QED BY <3>1, <4>1
    <3> QED BY <3>2, <3>3
  <2>4. ASSUME NEW i \in 1 .. Len(u) - n PROVE v[i] = u[n + i]
    <3>1. n + 1 + i - 1 = n + i
      BY <1>0
    <3> QED BY <2>2, <2>3, <3>1
  <2> QED BY <2>2, <2>3, <2>4
<1>2. /\ rest \in Seq(Message) /\ Len(rest) \in {0, 1}
      /\ \A i \in 1 .. Len(rest) : rest[i] # "reply"
  <2>1. CASE rest = <<>>
    BY <2>1
  <2>2. CASE rest = <<"other">>
    <3>1. "other" \in Message /\ "other" # "reply"
      BY DEF Message
    <3>2. rest \in Seq(Message) /\ Len(rest) = 1 /\ rest[1] = "other"
      BY <2>2, <3>1
    <3> QED BY <3>1, <3>2
  <2> QED BY <2>1, <2>2
<1> HIDE DEF v
<1> DEFINE w == rest \o v
<1>3. /\ w \in Seq(Message) /\ Len(w) = Len(rest) + Len(v)
      /\ \A i \in 1 .. Len(rest) + Len(v) :
           w[i] = IF i <= Len(rest) THEN rest[i] ELSE v[i - Len(rest)]
  <2>1. rest \in Seq(Message) /\ v \in Seq(Message)
    BY <1>1, <1>2
  <2> HIDE DEF Message
  <2> QED BY <2>1, ConcatProperties
<1> HIDE DEF w
<1>4. DOMAIN w = 1 .. Len(w) /\ Len(w) = Len(rest) + Len(u) - n
  BY <1>0, <1>1, <1>2, <1>3
<1>5. ASSUME NEW i \in DOMAIN w, w[i] = "reply" PROVE HasReply(u)
  <2>1. i > Len(rest) /\ i <= Len(rest) + Len(u) - n /\ i \in Nat
    <3>1. i \in 1 .. Len(rest) + Len(v) /\ Len(v) = Len(u) - n
      BY <1>0, <1>1, <1>2, <1>3, <1>4
    <3>2. ~ i <= Len(rest)
      <4>1. i <= Len(rest) => w[i] = rest[i] /\ i \in 1 .. Len(rest)
        BY <1>2, <1>3, <3>1
      <4> QED BY <1>2, <1>5, <4>1
    <3> QED BY <1>0, <1>2, <3>1, <3>2
  <2>2. i - Len(rest) \in 1 .. Len(u) - n /\ w[i] = v[i - Len(rest)]
    <3>1. w[i] = IF i <= Len(rest) THEN rest[i] ELSE v[i - Len(rest)]
      BY <1>3, <1>4
    <3>2. ~ i <= Len(rest) /\ i - Len(rest) \in 1 .. Len(u) - n
      BY <1>0, <1>2, <2>1
    <3> QED BY <3>1, <3>2
  <2>3. n + (i - Len(rest)) \in DOMAIN u
    BY <1>0, <2>2
  <2> QED BY <1>1, <1>5, <2>2, <2>3 DEF HasReply
<1>6. ASSUME NEW i \in DOMAIN u, i > n, u[i] = "reply" PROVE HasReply(w)
  <2>1. i - n \in 1 .. Len(u) - n /\ n + (i - n) = i
    BY <1>0, <1>6
  <2>2. v[i - n] = u[i]
    BY <1>1, <2>1
  <2> DEFINE j == Len(rest) + (i - n)
  <2>3. j \in DOMAIN w /\ ~ j <= Len(rest) /\ j - Len(rest) = i - n
    BY <1>0, <1>2, <1>4, <2>1
  <2>4. w[j] = v[i - n]
    BY <1>3, <1>4, <2>3
  <2> QED BY <1>6, <2>2, <2>3, <2>4 DEF HasReply
<1>7. HasReply(u) <=> (\E i \in 1 .. n : u[i] = "reply") \/ HasReply(w)
  <2>1. ASSUME HasReply(u) PROVE (\E i \in 1 .. n : u[i] = "reply") \/ HasReply(w)
    <3>1. PICK i \in DOMAIN u : u[i] = "reply"
      BY <2>1 DEF HasReply
    <3>2. i > n \/ i \in 1 .. n
      BY <1>0
    <3> QED BY <1>6, <3>1, <3>2
  <2>2. ASSUME NEW i \in 1 .. n, u[i] = "reply" PROVE HasReply(u)
    BY <1>0, <2>2 DEF HasReply
  <2>3. ASSUME HasReply(w) PROVE HasReply(u)
    BY <1>5, <2>3 DEF HasReply
  <2> QED BY <2>1, <2>2, <2>3
<1> QED BY <1>3, <1>4, <1>7 DEF v, w

\* No command: the robot goes on as it did.
LEMMA FollowsNone ==
  ASSUME NEW m, NEW H, m \in H PROVE Follows(<<>>, m, H)
BY DEF Follows

\* A motor command more is the one that counts, and no other command does.
LEMMA FollowsMore ==
  ASSUME NEW d \in Seq(Command), NEW x \in Command, NEW m, NEW H,
         IF x.op = "motors" THEN x.keys \in H ELSE Follows(d, m, H)
  PROVE  Follows(d \o <<x>>, m, H)
<1> DEFINE t == d \o <<x>>
<1>1. /\ DOMAIN t = 1 .. Len(d) + 1 /\ DOMAIN d = 1 .. Len(d) /\ Len(d) \in Nat
      /\ \A i \in 1 .. Len(d) : t[i] = d[i]
      /\ t[Len(d) + 1] = x
  BY OneMore
<1> HIDE DEF t
<1>2. Len(d) + 1 \in DOMAIN t /\ \A i \in DOMAIN d : i \in DOMAIN t /\ t[i] = d[i]
  BY <1>1
<1>3. \A i \in DOMAIN t : i \in DOMAIN d \/ i = Len(d) + 1
  BY <1>1
<1>4. CASE x.op = "motors"
  <2>1. ~ (\A i \in DOMAIN t : t[i].op # "motors")
    BY <1>1, <1>2, <1>4
  <2>2. ASSUME NEW i \in DOMAIN t,
               \A j \in DOMAIN t : t[j].op = "motors" => j <= i
        PROVE  t[i] = x
    <3>1. Len(d) + 1 <= i
      BY <1>1, <1>2, <1>4, <2>2
    <3>2. i = Len(d) + 1
      BY <1>1, <3>1
    <3> QED BY <1>1, <3>2
  <2>3. Follows(t, m, H)
    BY <1>4, <2>1, <2>2 DEF Follows
  <2> QED BY <2>3 DEF t
<1>5. CASE x.op # "motors"
  <2>1. (\A i \in DOMAIN t : t[i].op # "motors") => m \in H
    <3>1. ASSUME \A i \in DOMAIN t : t[i].op # "motors"
          PROVE  \A i \in DOMAIN d : d[i].op # "motors"
      BY <1>2, <3>1
    <3> QED BY <1>5, <3>1 DEF Follows
  <2>2. ASSUME NEW i \in DOMAIN t, t[i].op = "motors",
               \A j \in DOMAIN t : t[j].op = "motors" => j <= i
        PROVE  t[i].keys \in H
    <3>1. i \in DOMAIN d /\ t[i] = d[i]
      BY <1>1, <1>2, <1>3, <1>5, <2>2
    <3>2. \A j \in DOMAIN d : d[j].op = "motors" => j <= i
      BY <1>2, <2>2
    <3> QED BY <1>5, <2>2, <3>1, <3>2 DEF Follows
  <2>3. Follows(t, m, H)
    BY <2>1, <2>2 DEF Follows
  <2> QED BY <2>3 DEF t
<1> QED BY <1>4, <1>5

\* The oldest command is followed.
LEMMA FollowsLess ==
  ASSUME NEW d \in Seq(Command), d # <<>>, NEW m, NEW H, Follows(d, m, H)
  PROVE  Follows(Tail(d), IF Head(d).op = "motors" THEN Head(d).keys ELSE m, H)
<1> DEFINE t == Tail(d)
           m2 == IF Head(d).op = "motors" THEN Head(d).keys ELSE m
<1>1. /\ DOMAIN t = 1 .. Len(d) - 1 /\ DOMAIN d = 1 .. Len(d) /\ Len(d) \in Nat \ {0}
      /\ \A i \in 1 .. Len(d) - 1 : t[i] = d[i + 1]
      /\ Head(d) = d[1]
  BY OneLess
<1> HIDE DEF t
<1>2. \A i \in DOMAIN d : i = 1 \/ (i - 1 \in DOMAIN t /\ t[i - 1] = d[i])
  BY <1>1
<1>3. \A i \in DOMAIN t : i + 1 \in DOMAIN d /\ t[i] = d[i + 1] /\ i \in Nat
  BY <1>1
<1>4. 1 \in DOMAIN d
  BY <1>1
<1>5. ASSUME \A i \in DOMAIN t : t[i].op # "motors" PROVE m2 \in H
  <2>1. CASE Head(d).op = "motors"
    <3>1. d[1].op = "motors" /\ \A j \in DOMAIN d : d[j].op = "motors" => j <= 1
      BY <1>1, <1>2, <1>5, <2>1
    <3>2. d[1].keys \in H
      BY <1>4, <3>1 DEF Follows
    <3> QED BY <1>1, <2>1, <3>2
  <2>2. CASE Head(d).op # "motors"
    <3>1. \A i \in DOMAIN d : d[i].op # "motors"
      BY <1>1, <1>2, <1>5, <2>2
    <3> QED BY <2>2, <3>1 DEF Follows
  <2> QED BY <2>1, <2>2
<1>6. ASSUME NEW i \in DOMAIN t, t[i].op = "motors",
             \A j \in DOMAIN t : t[j].op = "motors" => j <= i
      PROVE  t[i].keys \in H
  <2>1. i + 1 \in DOMAIN d /\ t[i] = d[i + 1] /\ i \in Nat
    BY <1>3
  <2>2. ASSUME NEW j \in DOMAIN d, d[j].op = "motors" PROVE j <= i + 1
    <3>1. CASE j = 1
      BY <2>1, <3>1
    <3>2. CASE j - 1 \in DOMAIN t /\ t[j - 1] = d[j]
      <4>1. j - 1 <= i /\ j \in Nat
        BY <1>1, <1>6, <2>2, <3>2
      <4> QED BY <2>1, <4>1
    <3> QED BY <1>2, <3>1, <3>2
  <2> QED BY <1>6, <2>1, <2>2 DEF Follows
<1>7. Follows(t, m2, H)
  BY <1>5, <1>6 DEF Follows
<1> QED BY <1>7 DEF t

-----------------------------------------------------------------------------
(* The server's invariant.                                                 *)

\* Movement keys as the driver holds them now, or none.
heldKeys ==
  {{}} \union (IF driver \in Clients THEN {last[driver] \intersect Moves} ELSE {})

\* The keys the robot drives by, once this process has stopped it.
moving == IF halted THEN motors ELSE {}

\* Commands are only sent over a connection that is in the table, and a
\* host without it has set nothing going.
Connection ==
  /\ down # <<>> => table = "host"
  /\ login = "no" => alive
  /\ alive /\ table # "host" => moving = {}
  /\ driver \in Clients \union {NoDriver, Gone}
  /\ discarded \in BOOLEAN /\ alive \in BOOLEAN /\ (~ alive => ~ halted)
  /\ IsFiniteSet(waiting)
  /\ \A i \in DOMAIN down : down[i].op = "motors" => down[i].keys \in Drives \union {{}}

\* The newest motor command under way, or with none under way what moves,
\* are what the driver holds.
Orders == alive /\ driver # Gone => Follows(down, moving, heldKeys)

\* A request or its reply is under way for whoever waits.
Asked == connected /\ waiting # {} => HasState(down) \/ HasReply(up) \/ discarded

IInv == ServerTypeOK /\ Connection /\ Orders /\ Asked

LEMMA IInvGivesRequests == Asked <=> RequestUnderWay
BY DEF Asked, RequestUnderWay, underWay, HasState, HasReply

LEMMA ServerTypes ==
  ASSUME ServerTypeOK PROVE down \in Seq(Command) /\ up \in Seq(Message)
BY DEF ServerTypeOK, Command, Message

LEMMA Motions ==
  /\ NoKeys \intersect Moves = {}
  /\ \A K : motion(K) \in Drives \union {{}} /\ motion(K) \in {{}, K}
            /\ motion(K) \in {{}, K \intersect Moves}
BY DEF NoKeys, Moves, motion, Drives

LEMMA InvInit == ServerInit => IInv
<1> SUFFICES ASSUME ServerInit PROVE IInv
  OBVIOUS
<1> USE DEF ServerInit
<1>1. ServerTypeOK
  <2>1. /\ up = <<"login">> /\ Len(up) <= MaxUp
        /\ down = <<>> /\ Len(down) <= MaxDown
    BY CncAssumption
  <2>2. up \in Seq({"login", "reply", "other"})
    BY <2>1
  <2>3. down \in Seq([op : {"motors", "camera", "state"}, keys : SUBSET Keys])
    BY <2>1, EmptySeq
  <2>4. last \in [Clients -> (SUBSET Keys) \union {NoKeys}]
    OBVIOUS
  <2> QED BY <2>1, <2>2, <2>3, <2>4 DEF ServerTypeOK
<1>2. Connection
  <2>1. down = <<>> /\ DOMAIN down = {} /\ waiting = {} /\ alive = TRUE
    OBVIOUS
  <2>2. IsFiniteSet(waiting)
    BY <2>1, FS_EmptySet
  <2>3. driver \in Clients \union {NoDriver, Gone} /\ discarded \in BOOLEAN
    OBVIOUS
  <2>4. \A i \in DOMAIN down : down[i].op = "motors" => down[i].keys \in Drives \union {{}}
    BY <2>1
  <2> QED BY <2>1, <2>2, <2>3, <2>4 DEF Connection, moving
<1>3. Orders
  BY FollowsNone DEF Orders, moving, heldKeys
<1>4. Asked
  BY DEF Asked
<1> QED BY <1>1, <1>2, <1>3, <1>4 DEF IInv

\* What a page's keys send: nothing, a camera command, or a motor command that
\* makes the page the driver.
KeyCommand(c, K, x) ==
  \/ x.op = "camera" /\ motorCommand(c, K) = <<>> /\ driver' = driver
  \/ x.op = "motors" /\ x.keys = motion(K) /\ driver' = c
     /\ K \intersect Moves # last[c] \intersect Moves
LEMMA KeysSend ==
  ASSUME ServerTypeOK, NEW c \in Clients, NEW K \in SUBSET Keys, KeysReceived(c, K)
  PROVE  \/ down' = down /\ motorCommand(c, K) = <<>> /\ driver' = driver
         \/ \E x \in Command :
              /\ KeyCommand(c, K, x)
              /\ IF table = "host" /\ alive THEN down' = down \o <<x>> ELSE down' = down
<1>1. /\ down' = sent(motorCommand(c, K) \o cameraCommand(c, K))
      /\ IF motorCommand(c, K) = <<>> THEN driver' = driver ELSE driver' = c
  BY DEF KeysReceived
<1> DEFINE motorsX == [op |-> "motors", keys |-> motion(K)]
           cameraX == [op |-> "camera", keys |-> K]
<1>2. motorsX \in Command /\ cameraX \in Command
  BY Motions DEF Command
<1>3. down \in Seq(Command)
  BY ServerTypes
<1>4. CASE motorCommand(c, K) = <<>> /\ cameraCommand(c, K) = <<>>
  <2>1. <<>> \o <<>> = <<>> /\ down \o <<>> = down
    BY <1>3
  <2> QED BY <1>1, <1>4, <2>1 DEF sent
<1>5. CASE motorCommand(c, K) = <<>> /\ cameraCommand(c, K) # <<>>
  <2>1. cameraCommand(c, K) = <<cameraX>>
    BY <1>5 DEF cameraCommand
  <2>2. motorCommand(c, K) \o cameraCommand(c, K) = <<cameraX>>
    BY <1>5, <2>1
  <2> QED BY <1>1, <1>2, <1>5, <2>2 DEF sent, KeyCommand
<1>6. CASE motorCommand(c, K) # <<>>
  <2>1. /\ motorCommand(c, K) = <<motorsX>>
        /\ K \intersect Moves # last[c] \intersect Moves
    BY <1>6 DEF motorCommand
  <2>2. cameraCommand(c, K) = <<>>
    BY <2>1 DEF cameraCommand
  <2>3. motorCommand(c, K) \o cameraCommand(c, K) = <<motorsX>>
    BY <2>1, <2>2
  <2> QED BY <1>1, <1>2, <1>6, <2>1, <2>3 DEF sent, KeyCommand
<1> QED BY <1>4, <1>5, <1>6

LEMMA KeysStep ==
  ASSUME IInv, NEW c \in Clients, NEW K \in SUBSET Keys, KeysReceived(c, K)
  PROVE  IInv'
<1>1. ServerTypeOK /\ Connection /\ Orders /\ Asked
  BY DEF IInv
<1>2. /\ Len(down) < MaxDown
      /\ last' = [last EXCEPT ![c] = K]
      /\ UNCHANGED <<table, login, waiting, discarded, up, alive, halted, motors>>
  BY DEF KeysReceived
<1>3. down \in Seq(Command) /\ Len(down) \in Nat /\ MaxDown \in Nat
  BY <1>1, ServerTypes, CncAssumption
<1>4. last' \in [Clients -> (SUBSET Keys) \union {NoKeys}]
  BY <1>1, <1>2 DEF ServerTypeOK
<1>5. last'[c] = K /\ \A a \in Clients \ {c} : last'[a] = last[a]
  BY <1>1, <1>2 DEF ServerTypeOK
<1>6. CASE down' = down /\ motorCommand(c, K) = <<>> /\ driver' = driver
  <2>1. ServerTypeOK'
    BY <1>1, <1>2, <1>4, <1>6 DEF ServerTypeOK
  <2>2. Connection'
    BY <1>1, <1>2, <1>6 DEF Connection, moving
  <2>3. Asked'
    BY <1>1, <1>2, <1>6 DEF Asked, connected
  <2>4. Orders'
    <3>1. CASE driver = c /\ last[c] = NoKeys
      <4>1. heldKeys = {{}} /\ {} \in heldKeys'
        BY <3>1, Motions DEF heldKeys
      <4>2. ASSUME Follows(down, moving, {{}}) PROVE Follows(down, moving, heldKeys')
        BY <4>1, <4>2 DEF Follows
      <4> QED BY <1>1, <1>2, <1>6, <4>1, <4>2 DEF Orders, moving
    <3>2. CASE ~ (driver = c /\ last[c] = NoKeys)
      <4>1. driver = c => K \intersect Moves = last[c] \intersect Moves
        BY <1>6, <3>2 DEF motorCommand
      <4>2. heldKeys' = heldKeys
        BY <1>5, <1>6, <4>1 DEF heldKeys
      <4> QED BY <1>1, <1>2, <1>6, <4>2 DEF Orders, moving
    <3> QED BY <3>1, <3>2
  <2> QED BY <2>1, <2>2, <2>3, <2>4 DEF IInv
<1>7. ASSUME NEW x \in Command, KeyCommand(c, K, x),
             ~ (table = "host" /\ alive), down' = down
      PROVE  IInv'
  <2>1. ServerTypeOK'
    BY <1>1, <1>2, <1>4, <1>7 DEF ServerTypeOK
  <2>2. driver' \in {c, driver}
    BY <1>7 DEF KeyCommand
  <2>3. Connection'
    BY <1>1, <1>2, <1>7, <2>2 DEF Connection, moving
  <2>4. Asked'
    BY <1>1, <1>2, <1>7 DEF Asked, connected
  <2>5. alive => moving = {} /\ down = <<>>
    BY <1>1, <1>7 DEF Connection, moving
  <2>6. {} \in heldKeys'
    BY DEF heldKeys
  <2>7. Orders'
    BY <1>2, <1>7, <2>5, <2>6, FollowsNone DEF Orders, moving
  <2> QED BY <2>1, <2>3, <2>4, <2>7 DEF IInv
<1>8. ASSUME NEW x \in Command, KeyCommand(c, K, x),
             table = "host", alive, down' = down \o <<x>>
      PROVE  IInv'
  <2>1. down' \in Seq(Command) /\ Len(down') = Len(down) + 1
    BY <1>3, <1>8, OneMore
  <2>2. Len(down') <= MaxDown
    BY <1>2, <1>3, <2>1
  <2>3. ServerTypeOK'
    BY <1>1, <1>2, <1>4, <2>1, <2>2 DEF ServerTypeOK, Command
  <2>4. x.op = "motors" => x.keys \in Drives \union {{}}
    BY <1>8, Motions DEF KeyCommand
  <2>5. Connection'
    <3>1. driver' \in Clients \union {NoDriver, Gone}
      BY <1>1, <1>8 DEF Connection, moving, KeyCommand
    <3>2. ASSUME NEW i \in DOMAIN down', down'[i].op = "motors"
          PROVE  down'[i].keys \in Drives \union {{}}
      <4>1. /\ DOMAIN down' = 1 .. Len(down) + 1 /\ DOMAIN down = 1 .. Len(down)
            /\ \A j \in 1 .. Len(down) : down'[j] = down[j]
            /\ down'[Len(down) + 1] = x
        BY <1>3, <1>8, OneMore
      <4>2. i \in 1 .. Len(down) \/ i = Len(down) + 1
        BY <1>3, <4>1
      <4> QED BY <1>1, <2>4, <3>2, <4>1, <4>2 DEF Connection, moving
    <3> QED BY <1>1, <1>2, <1>8, <3>1, <3>2 DEF Connection, moving
  <2>6. Asked'
    <3>1. HasState(down) => HasState(down')
      BY <1>3, <1>8, StateMore
    <3> QED BY <1>1, <1>2, <3>1 DEF Asked, connected
  <2>7. Orders'
    <3>1. CASE x.op = "motors" /\ x.keys = motion(K) /\ driver' = c
      <4>1. x.keys \in heldKeys'
        BY <1>5, <3>1, Motions DEF heldKeys
      <4>2. Follows(down \o <<x>>, moving, heldKeys')
        BY <1>3, <3>1, <4>1, FollowsMore
      <4> QED BY <1>2, <1>8, <4>2 DEF Orders, moving
    <3>2. CASE x.op = "camera" /\ motorCommand(c, K) = <<>> /\ driver' = driver
      <4>0. SUFFICES ASSUME driver # Gone PROVE Follows(down \o <<x>>, moving, heldKeys')
        BY <1>2, <1>8, <3>2 DEF Orders, moving
      <4>1. Follows(down, moving, heldKeys)
        BY <1>1, <1>8, <4>0 DEF Orders, moving
      <4>2. \/ driver = c /\ last[c] = NoKeys
            \/ driver = c => K \intersect Moves = last[c] \intersect Moves
        BY <3>2 DEF motorCommand
      <4>3. heldKeys \subseteq heldKeys'
        <5>1. CASE driver = c /\ last[c] = NoKeys
          BY <5>1, Motions DEF heldKeys
        <5>2. CASE driver = c => K \intersect Moves = last[c] \intersect Moves
          BY <1>5, <3>2, <5>2 DEF heldKeys
        <5> QED BY <4>2, <5>1, <5>2
      <4>4. Follows(down, moving, heldKeys')
        BY <4>1, <4>3 DEF Follows
      <4> QED BY <1>3, <3>2, <4>4, FollowsMore
    <3> QED BY <1>8, <3>1, <3>2 DEF KeyCommand
  <2> QED BY <2>3, <2>5, <2>6, <2>7 DEF IInv
<1> QED BY <1>1, <1>6, <1>7, <1>8, KeysSend

LEMMA RequestStep ==
  ASSUME IInv, NEW c \in Clients, RequestMetrics(c)
  PROVE  IInv'
<1> DEFINE x == [op |-> "state", keys |-> {}]
<1>1. ServerTypeOK /\ Connection /\ Orders /\ Asked
  BY DEF IInv
<1>2. /\ Len(down) < MaxDown
      /\ waiting' = waiting \union {c}
      /\ UNCHANGED <<last, table, login, driver, discarded, up, alive, halted, motors>>
      /\ down' = IF Cardinality(waiting \union {c}) = 1 THEN sent(<<x>>) ELSE down
  BY DEF RequestMetrics
<1>3. /\ down \in Seq(Command) /\ Len(down) \in Nat /\ MaxDown \in Nat
      /\ up \in Seq(Message) /\ x \in Command
  BY <1>1, ServerTypes, CncAssumption DEF Command
<1>4. waiting' \subseteq Clients \union {Gone} /\ IsFiniteSet(waiting')
  BY <1>1, <1>2, FS_AddElement DEF ServerTypeOK, Connection, moving
<1>5. CASE down' = down /\ ~ (connected /\ Cardinality(waiting \union {c}) = 1)
  <2>1. ServerTypeOK'
    BY <1>1, <1>2, <1>4, <1>5 DEF ServerTypeOK
  <2>2. Connection'
    BY <1>1, <1>2, <1>4, <1>5 DEF Connection, moving
  <2>3. Asked'
    <3>1. connected => waiting # {}
      <4>1. Cardinality({} \union {c}) = 1
        BY FS_Singleton
      <4> QED BY <1>5, <4>1
    <3> QED BY <1>1, <1>2, <1>5, <3>1 DEF Asked, connected
  <2>4. Orders'
    BY <1>1, <1>2, <1>5 DEF Orders, moving, heldKeys
  <2> QED BY <2>1, <2>2, <2>3, <2>4 DEF IInv
<1>6. CASE down' = down \o <<x>> /\ connected
  <2>1. /\ down' \in Seq(Command) /\ Len(down') = Len(down) + 1
        /\ DOMAIN down' = 1 .. Len(down) + 1 /\ DOMAIN down = 1 .. Len(down)
        /\ \A j \in 1 .. Len(down) : down'[j] = down[j]
        /\ down'[Len(down) + 1] = x
    BY <1>3, <1>6, OneMore
  <2>2. Len(down') <= MaxDown
    BY <1>2, <1>3, <2>1
  <2>3. ServerTypeOK'
    BY <1>1, <1>2, <1>4, <2>1, <2>2 DEF ServerTypeOK, Command
  <2>4. Connection'
    <3>1. ASSUME NEW i \in DOMAIN down', down'[i].op = "motors"
          PROVE  down'[i].keys \in Drives \union {{}}
      <4>1. i \in 1 .. Len(down) \/ i = Len(down) + 1
        BY <1>3, <2>1
      <4> QED BY <1>1, <2>1, <3>1, <4>1 DEF Connection, moving
    <3> QED BY <1>1, <1>2, <1>4, <1>6, <3>1 DEF Connection, moving, connected
  <2>5. Asked'
    <3>1. HasState(down')
      BY <1>3, <1>6, StateMore
    <3> QED BY <3>1 DEF Asked
  <2>6. Orders'
    <3>0. SUFFICES ASSUME driver # Gone PROVE Follows(down', moving, heldKeys)
      BY <1>2 DEF Orders, moving, heldKeys
    <3>1. Follows(down, moving, heldKeys)
      BY <1>1, <1>6, <3>0 DEF Orders, moving, connected
    <3>2. x.op # "motors"
      OBVIOUS
    <3> QED BY <1>3, <1>6, <3>1, <3>2, FollowsMore
  <2> QED BY <2>3, <2>4, <2>5, <2>6 DEF IInv
<1> QED BY <1>2, <1>5, <1>6 DEF sent, connected

LEMMA LeaveStep ==
  ASSUME IInv, NEW c \in Clients, Leave(c)
  PROVE  IInv'
<1>1. ServerTypeOK /\ Connection /\ Orders /\ Asked
  BY DEF IInv
<1>2. /\ last' = [last EXCEPT ![c] = NoKeys]
      /\ driver' = IF driver = c /\ last[c] \intersect Moves # {} THEN Gone
                   ELSE driver
      /\ waiting' = IF c \in waiting THEN (waiting \ {c}) \union {Gone} ELSE waiting
      /\ UNCHANGED <<table, login, discarded, down, up, alive, halted, motors>>
  BY DEF Leave
<1>3. last' \in [Clients -> (SUBSET Keys) \union {NoKeys}]
  BY <1>1, <1>2 DEF ServerTypeOK
<1>4. last'[c] = NoKeys /\ \A a \in Clients \ {c} : last'[a] = last[a]
  BY <1>1, <1>2 DEF ServerTypeOK
<1>5. /\ waiting' \subseteq Clients \union {Gone} /\ IsFiniteSet(waiting')
      /\ waiting' # {} => waiting # {}
  <2>1. IsFiniteSet(waiting) /\ waiting \subseteq Clients \union {Gone}
    BY <1>1 DEF ServerTypeOK, Connection, moving
  <2>2. IsFiniteSet(waiting \ {c})
    BY <2>1, FS_RemoveElement
  <2>3. IsFiniteSet((waiting \ {c}) \union {Gone})
    BY <2>2, FS_AddElement
  <2> QED BY <1>2, <2>1, <2>3
<1>6. ServerTypeOK'
  BY <1>1, <1>2, <1>3, <1>5 DEF ServerTypeOK
<1>7. Connection'
  BY <1>1, <1>2, <1>5 DEF Connection, moving
<1>8. Asked'
  BY <1>1, <1>2, <1>5 DEF Asked, connected
<1>9. Orders'
  <2>0. SUFFICES ASSUME alive, driver' # Gone PROVE Follows(down, moving, heldKeys')
    BY <1>2 DEF Orders, moving
  <2>1. driver' = driver /\ driver # Gone
    BY <1>2, <2>0
  <2>2. driver = c => last[c] \intersect Moves = {}
    BY <1>2, <2>0
  <2>3. heldKeys' = heldKeys
    BY <1>4, <2>1, <2>2, Motions DEF heldKeys
  <2> QED BY <1>1, <2>0, <2>1, <2>3 DEF Orders, moving
<1> QED BY <1>6, <1>7, <1>8, <1>9 DEF IInv

LEMMA ReceiveStep ==
  ASSUME IInv, Receive
  PROVE  IInv'
<1>1. ServerTypeOK /\ Connection /\ Orders /\ Asked
  BY DEF IInv
<1>2. /\ up # <<>> /\ up' = Tail(up)
      /\ UNCHANGED <<last, driver, down, alive, halted, motors>>
  BY DEF Receive
<1>3. \/ /\ login = "no" /\ login' = "yes" /\ table' = "host"
         /\ waiting' = {} /\ discarded' = FALSE
      \/ /\ login = "no" /\ login' = "wrong" /\ UNCHANGED <<table, waiting, discarded>>
      \/ /\ login = "yes" /\ Head(up) = "reply" /\ UNCHANGED <<table, login>>
         /\ waiting' = {} /\ discarded' = FALSE
      \/ /\ ~ (login = "yes" /\ Head(up) = "reply")
         /\ UNCHANGED <<table, login, waiting, discarded>>
  BY DEF Receive, answered
<1>4. /\ up \in Seq(Message) /\ Len(up) \in Nat
      /\ up' \in Seq(Message) /\ Len(up') = Len(up) - 1
      /\ MaxUp \in Nat /\ Len(up) <= MaxUp
  BY <1>1, <1>2, ServerTypes, OneLess, CncAssumption DEF ServerTypeOK
<1>5. Len(up') <= MaxUp
  BY <1>4
<1>6. ServerTypeOK'
  <2>1. login' \in {"no", "yes", "wrong"} /\ table' \in {"nobody", "host", "lost"}
        /\ waiting' \subseteq Clients \union {Gone}
    BY <1>1, <1>3 DEF ServerTypeOK
  <2>2. table' = "host" => login' = "yes" /\ alive
    BY <1>1, <1>3 DEF ServerTypeOK, Connection, moving
  <2> QED BY <1>1, <1>2, <1>4, <1>5, <2>1, <2>2 DEF ServerTypeOK, Message
<1>7. Connection'
  <2>1. IsFiniteSet(waiting') /\ discarded' \in BOOLEAN
    BY <1>1, <1>3, FS_EmptySet DEF Connection, moving
  <2>2. login' = "no" => login = "no"
    BY <1>3
  <2>3. table' # "host" => table # "host"
    BY <1>3
  <2> QED BY <1>1, <1>2, <2>1, <2>2, <2>3 DEF Connection, moving
<1>8. Asked'
  <2>1. HasReply(up) <=> Head(up) = "reply" \/ HasReply(up')
    BY <1>2, <1>4, ReplyLess
  <2>2. SUFFICES ASSUME connected', waiting' # {}
                 PROVE  HasState(down) \/ HasReply(up') \/ discarded'
    BY <1>2 DEF Asked
  <2>3. UNCHANGED <<table, waiting, discarded>> /\ connected
    BY <1>2, <1>3, <2>2 DEF connected
  <2>4. login = "yes" /\ Head(up) # "reply"
    BY <1>1, <1>3, <2>2, <2>3 DEF ServerTypeOK, connected
  <2> QED BY <1>1, <2>1, <2>2, <2>3, <2>4 DEF Asked
<1>9. Orders'
  BY <1>1, <1>2 DEF Orders, moving, heldKeys
<1> QED BY <1>6, <1>7, <1>8, <1>9 DEF IInv

LEMMA ReceiveOtherStep ==
  ASSUME IInv, NEW n \in 1 .. Len(up), NEW rest \in {<<>>, <<"other">>},
         ReceiveOther(n, rest)
  PROVE  IInv'
<1>1. ServerTypeOK /\ Connection /\ Orders /\ Asked
  BY DEF IInv
<1>2. /\ up' = rest \o SubSeq(up, n + 1, Len(up))
      /\ login' = IF login = "no" THEN "wrong" ELSE login
      /\ discarded' = (discarded \/ \E i \in 1 .. n : up[i] = "reply")
      /\ UNCHANGED <<last, table, waiting, driver, down, alive, halted, motors>>
  BY DEF ReceiveOther
<1>3. /\ up \in Seq(Message) /\ Len(up) \in Nat /\ Len(up) <= MaxUp /\ MaxUp \in Nat
      /\ Len(rest) \in {0, 1}
  BY <1>1, ServerTypes, CncAssumption DEF ServerTypeOK
<1>4. /\ up' \in Seq(Message) /\ Len(up') = Len(rest) + Len(up) - n
      /\ HasReply(up) <=> (\E i \in 1 .. n : up[i] = "reply") \/ HasReply(up')
  BY <1>2, <1>3, ReplyRest
<1>5. Len(up') <= MaxUp
  <2>1. PICK a \in {0, 1}, b \in Nat : a = Len(rest) /\ b = Len(up)
    BY <1>3
  <2>2. n \in Int /\ n >= 1 /\ b <= MaxUp /\ Len(up') = a + b - n
    BY <1>3, <1>4, <2>1
  <2>3. a + b - n <= b
    BY <2>2
  <2> QED BY <1>3, <2>1, <2>2, <2>3
<1>6. ServerTypeOK'
  <2>1. login' \in {"no", "yes", "wrong"} /\ (table = "host" => login' = "yes")
    BY <1>1, <1>2 DEF ServerTypeOK
  <2> QED BY <1>1, <1>2, <1>4, <1>5, <2>1 DEF ServerTypeOK, Message
<1>7. Connection'
  <2>1. login' # "no"
    BY <1>2
  <2>2. discarded' \in BOOLEAN
    BY <1>2
  <2> QED BY <1>1, <1>2, <2>1, <2>2 DEF Connection, moving
<1>8. Asked'
  <2>1. HasReply(up) => discarded' \/ HasReply(up')
    BY <1>2, <1>4
  <2>2. discarded => discarded'
    BY <1>2
  <2> QED BY <1>1, <1>2, <2>1, <2>2 DEF Asked, connected
<1>9. Orders'
  BY <1>1, <1>2 DEF Orders, moving, heldKeys
<1> QED BY <1>6, <1>7, <1>8, <1>9 DEF IInv

LEMMA HostCommandStep ==
  ASSUME IInv, HostCommand
  PROVE  IInv'
<1>1. ServerTypeOK /\ Connection /\ Orders /\ Asked
  BY DEF IInv
<1>2. /\ alive /\ down # <<>> /\ Len(up) < MaxUp
      /\ down' = Tail(down)
      /\ motors' = IF Head(down).op = "motors" THEN Head(down).keys ELSE motors
      /\ up' = IF Head(down).op = "state" THEN Append(up, "reply") ELSE up
      /\ UNCHANGED <<last, table, login, waiting, driver, discarded, alive, halted>>
  BY DEF HostCommand, server
<1>3. /\ up \in Seq(Message) /\ Len(up) \in Nat /\ MaxUp \in Nat
      /\ down \in Seq(Command) /\ MaxDown \in Nat /\ Len(down) <= MaxDown
  BY <1>1, ServerTypes, CncAssumption DEF ServerTypeOK
<1>4. /\ Tail(down) \in Seq(Command) /\ Len(Tail(down)) = Len(down) - 1
      /\ Len(down) \in Nat \ {0}
      /\ DOMAIN Tail(down) = 1 .. Len(down) - 1 /\ DOMAIN down = 1 .. Len(down)
      /\ \A i \in 1 .. Len(down) - 1 : Tail(down)[i] = down[i + 1]
      /\ Head(down) \in Command /\ Head(down) = down[1]
  BY <1>2, <1>3, OneLess
<1>5. Len(down') <= MaxDown /\ down' \in Seq(Command)
  BY <1>2, <1>3, <1>4
<1>6. /\ up' \in Seq(Message) /\ Len(up') <= MaxUp
      /\ Head(down).op = "state" => HasReply(up')
      /\ HasReply(up) => HasReply(up')
  <2>1. CASE Head(down).op = "state"
    <3>1. up' = up \o <<"reply">> /\ "reply" \in Message
      BY <1>2, <1>3, <2>1, AppendIsConcat DEF Message
    <3>2. up' \in Seq(Message) /\ Len(up') = Len(up) + 1
      BY <1>3, <3>1, OneMore
    <3>3. HasReply(up')
      BY <1>3, <3>1, ReplyMore
    <3> QED BY <1>2, <1>3, <3>2, <3>3
  <2>2. CASE Head(down).op # "state"
    BY <1>2, <1>3, <2>2
  <2> QED BY <2>1, <2>2
<1>7. motors' \in Drives \union {{}}
  <2>1. CASE Head(down).op = "motors"
    <3>1. 1 \in DOMAIN down
      BY <1>4
    <3>2. down[1].keys \in Drives \union {{}}
      BY <1>1, <1>4, <2>1, <3>1 DEF Connection, moving
    <3> QED BY <1>2, <1>4, <2>1, <3>2
  <2>2. CASE Head(down).op # "motors"
    BY <1>1, <1>2, <2>2 DEF ServerTypeOK
  <2> QED BY <2>1, <2>2
<1>8. ServerTypeOK'
  BY <1>1, <1>2, <1>5, <1>6, <1>7 DEF ServerTypeOK, Command, Message
<1>9. Connection'
  <2>1. table = "host"
    BY <1>1, <1>2 DEF Connection, moving
  <2>2. ASSUME NEW i \in DOMAIN down', down'[i].op = "motors"
        PROVE  down'[i].keys \in Drives \union {{}}
    <3>1. i \in 1 .. Len(down) - 1 /\ down'[i] = down[i + 1]
      BY <1>2, <1>4, <2>2
    <3>2. i + 1 \in DOMAIN down
      BY <1>4, <3>1
    <3> QED BY <1>1, <2>2, <3>1, <3>2 DEF Connection, moving
  <2> QED BY <1>1, <1>2, <2>1, <2>2 DEF Connection, moving
<1>10. Asked'
  <2>1. HasState(down) <=> Head(down).op = "state" \/ HasState(down')
    BY <1>2, <1>3, StateLess
  <2> QED BY <1>1, <1>2, <1>6, <2>1 DEF Asked, connected
<1>11. Orders'
  <2>0. SUFFICES ASSUME driver # Gone PROVE Follows(Tail(down), moving', heldKeys)
    BY <1>2 DEF Orders, moving, heldKeys
  <2>1. Follows(down, moving, heldKeys)
    BY <1>1, <1>2, <2>0 DEF Orders
  <2>2. Follows(Tail(down), IF Head(down).op = "motors" THEN Head(down).keys ELSE moving,
                heldKeys)
    BY <1>2, <1>3, <2>1, FollowsLess
  <2>3. CASE halted
    <3>1. moving' = IF Head(down).op = "motors" THEN Head(down).keys ELSE moving
      BY <1>2, <2>3 DEF moving
    <3> QED BY <2>2, <3>1
  <2>4. CASE ~ halted
    <3>1. moving' = {} /\ {} \in heldKeys
      BY <1>2, <2>4 DEF moving, heldKeys
    <3>2. Follows(Tail(down), {}, heldKeys)
      BY <2>2, <3>1 DEF Follows
    <3> QED BY <3>1, <3>2
  <2> QED BY <2>3, <2>4
<1> QED BY <1>8, <1>9, <1>10, <1>11 DEF IInv

LEMMA HostShortReadStep ==
  ASSUME IInv, HostShortRead
  PROVE  IInv'
<1>1. ServerTypeOK /\ Connection /\ Orders /\ Asked
  BY DEF IInv
<1>2. /\ alive' = FALSE /\ halted' = FALSE /\ down' = <<>> /\ down # <<>>
      /\ table' = IF table = "host" THEN "lost" ELSE table
      /\ UNCHANGED <<last, login, waiting, driver, discarded, up, motors>>
  BY DEF HostShortRead
<1>3. table = "host" /\ table' = "lost" /\ login # "no"
  BY <1>1, <1>2 DEF Connection, moving, ServerTypeOK
<1>4. down' \in Seq(Command) /\ Len(down') <= MaxDown /\ DOMAIN down' = {}
  <2>1. <<>> \in Seq(Command) /\ Len(<<>>) = 0 /\ DOMAIN <<>> = {}
    BY EmptySeq
  <2> QED BY <1>2, <2>1, CncAssumption
<1>5. ServerTypeOK'
  BY <1>1, <1>2, <1>3, <1>4 DEF ServerTypeOK, Command
<1>6. Connection'
  BY <1>1, <1>2, <1>3, <1>4 DEF Connection, moving
<1>7. Asked' /\ Orders'
  BY <1>2 DEF Asked, Orders, moving, connected
<1> QED BY <1>5, <1>6, <1>7 DEF IInv

LEMMA KeepaliveStep ==
  ASSUME IInv, Keepalive
  PROVE  IInv'
<1>1. ServerTypeOK /\ Connection /\ Orders /\ Asked
  BY DEF IInv
<1>2. /\ Len(up) < MaxUp /\ up' = Append(up, "other")
      /\ UNCHANGED <<last, table, login, waiting, driver, discarded, down, alive, halted, motors>>
  BY DEF Keepalive, server
<1>3. up \in Seq(Message) /\ Len(up) \in Nat /\ MaxUp \in Nat /\ "other" \in Message
  BY <1>1, ServerTypes, CncAssumption DEF Message
<1>4. up' = up \o <<"other">>
  BY <1>2, <1>3, AppendIsConcat
<1>5. /\ up' \in Seq(Message) /\ Len(up') = Len(up) + 1
      /\ HasReply(up') <=> HasReply(up)
  BY <1>3, <1>4, OneMore, ReplyMore
<1>6. Len(up') <= MaxUp
  BY <1>2, <1>3, <1>5
<1>7. ServerTypeOK'
  BY <1>1, <1>2, <1>5, <1>6 DEF ServerTypeOK, Message
<1>8. Connection'
  BY <1>1, <1>2 DEF Connection, moving
<1>9. Asked'
  BY <1>1, <1>2, <1>5 DEF Asked, connected
<1>10. Orders'
  BY <1>1, <1>2 DEF Orders, moving, heldKeys
<1> QED BY <1>7, <1>8, <1>9, <1>10 DEF IInv

LEMMA RestartStep ==
  ASSUME IInv, Restart
  PROVE  IInv'
<1>1. ServerTypeOK /\ Connection /\ Orders /\ Asked
  BY DEF IInv
<1>2. /\ ~ alive /\ alive' = TRUE /\ up' = <<"login">> /\ login' = "no"
      /\ UNCHANGED <<last, table, waiting, driver, discarded, down, halted, motors>>
  BY DEF Restart
<1>3. table # "host" /\ down = <<>>
  BY <1>1, <1>2 DEF ServerTypeOK, Connection, moving
<1>4. up' \in Seq(Message) /\ Len(up') <= MaxUp
  <2>1. "login" \in Message
    BY DEF Message
  <2>2. <<"login">> \in Seq(Message) /\ Len(<<"login">>) = 1
    BY <2>1
  <2> QED BY <1>2, <2>2, CncAssumption
<1>5. ServerTypeOK'
  BY <1>1, <1>2, <1>3, <1>4 DEF ServerTypeOK, Message
<1>6. Connection'
  BY <1>1, <1>2, <1>3 DEF Connection, moving
<1>7. Asked'
  BY <1>2, <1>3 DEF Asked, connected
<1>8. Orders'
  <2>1. {} \in heldKeys'
    BY DEF heldKeys
  <2>2. moving' = {}
    BY <1>1, <1>2 DEF Connection, moving
  <2> QED BY <1>2, <1>3, <2>1, <2>2, FollowsNone DEF Orders
<1> QED BY <1>5, <1>6, <1>7, <1>8 DEF IInv

LEMMA StopStep ==
  ASSUME IInv, Stop
  PROVE  IInv'
<1>1. ServerTypeOK /\ Connection /\ Orders /\ Asked
  BY DEF IInv
<1>2. /\ alive /\ ~ halted /\ motors' = {} /\ halted' = TRUE
      /\ UNCHANGED <<last, table, login, waiting, driver, discarded, down, up, alive>>
  BY DEF Stop, server
<1>3. moving = {} /\ moving' = {}
  BY <1>2 DEF moving
<1>4. ServerTypeOK'
  BY <1>1, <1>2 DEF ServerTypeOK
<1>5. Connection'
  BY <1>1, <1>2, <1>3 DEF Connection
<1>6. Asked'
  BY <1>1, <1>2 DEF Asked, connected
<1>7. Orders'
  BY <1>1, <1>2, <1>3 DEF Orders, heldKeys
<1> QED BY <1>4, <1>5, <1>6, <1>7 DEF IInv

LEMMA InvNext == IInv /\ [ServerNext]_serverVars => IInv'
<1> SUFFICES ASSUME IInv, [ServerNext]_serverVars PROVE IInv'
  OBVIOUS
<1>1. CASE UNCHANGED serverVars
  BY <1>1 DEF serverVars, server, IInv, ServerTypeOK, Connection, Orders, moving, Asked,
              heldKeys, connected
<1>2. ASSUME NEW c \in Clients, NEW K \in Chords[c], KeysReceived(c, K) PROVE IInv'
  BY <1>2, KeysStep, CncAssumption
<1>3. ASSUME NEW c \in Clients, RequestMetrics(c) PROVE IInv'
  BY <1>3, RequestStep
<1>4. ASSUME NEW c \in Clients, Leave(c) PROVE IInv'
  BY <1>4, LeaveStep
<1>5. ASSUME NEW n \in 1 .. Len(up), NEW rest \in {<<>>, <<"other">>},
             ReceiveOther(n, rest)
      PROVE  IInv'
  BY <1>5, ReceiveOtherStep
<1> QED BY <1>1, <1>2, <1>3, <1>4, <1>5, ReceiveStep, HostCommandStep,
           HostShortReadStep, KeepaliveStep, RestartStep, StopStep
        DEF ServerNext

LEMMA InvAlways == ServerSpec => []IInv
BY InvInit, InvNext, PTL DEF ServerSpec

\* ServerInv: every variable stays in its type, no more is under way than the
\* bounds, and whoever waits has a request or a reply under way, unless a reply
\* was not understood.
THEOREM SomebodyAsked == ServerSpec => []ServerInv
<1>1. IInv => ServerInv
  BY IInvGivesRequests DEF IInv, ServerInv
<1> QED BY <1>1, InvAlways, PTL

\* MovesAsHeld: once a host has sent its first stop and as long as it lives, the
\* robot moves as the client whose movement keys changed last holds them now.
THEOREM DrivenByHeldKeys == ServerSpec => []MovesAsHeld
<1>1. IInv => MovesAsHeld
  <2> SUFFICES ASSUME Orders, alive, halted, Motor = {}, driver # Gone, motors # {}
               PROVE  /\ driver # NoDriver /\ last[driver] # NoKeys
                      /\ motors = last[driver] \intersect Moves
    BY DEF IInv, MovesAsHeld
  <2>1. motors \in heldKeys
    BY DEF Orders, moving, Follows, Motor
  <2>2. driver \in Clients /\ motors = last[driver] \intersect Moves
    BY <2>1 DEF heldKeys
  <2> QED BY <2>2, Motions, CncAssumption
<1> QED BY <1>1, InvAlways, PTL

-----------------------------------------------------------------------------
(* Once nobody asks, nobody will.                                          *)

LEMMA StuckMeans ==
  stuck <=> /\ table = "host" /\ alive /\ discarded /\ ~ HasState(down) /\ ~ HasReply(up)
            /\ Cardinality(waiting) >= 2 \/ Gone \in waiting
BY DEF stuck, connected, underWay, HasState, HasReply

\* Whoever asks next is not the only one who waits.
LEMMA NotTheFirst ==
  ASSUME IInv, NEW c \in Clients, Cardinality(waiting) >= 2 \/ Gone \in waiting
  PROVE  /\ Cardinality(waiting \union {c}) # 1
         /\ Cardinality(waiting \union {c}) >= 2 \/ Gone \in waiting \union {c}
<1>1. IsFiniteSet(waiting) /\ c # Gone
  BY CncAssumption DEF IInv, Connection, moving
<1>2. CASE Gone \in waiting
  <2>1. IsFiniteSet(waiting \union {c})
    BY <1>1, FS_AddElement
  <2>2. \A x : waiting \union {c} # {x}
    BY <1>1, <1>2
  <2>3. Cardinality(waiting \union {c}) # 1
    BY <2>1, <2>2, FS_Singleton
  <2> QED BY <1>2, <2>3
<1>3. CASE Cardinality(waiting) >= 2
  <2>1. /\ Cardinality(waiting) \in Nat
        /\ Cardinality(waiting \union {c}) = IF c \in waiting THEN Cardinality(waiting)
                                              ELSE Cardinality(waiting) + 1
    BY <1>1, FS_AddElement, FS_CardinalityType
  <2> QED BY <1>3, <2>1
<1> QED BY <1>2, <1>3

LEMMA StuckNext ==
  ASSUME IInv, [ServerNext]_serverVars, stuck, alive' PROVE stuck'
<1>0. /\ table = "host" /\ alive /\ discarded /\ ~ HasState(down) /\ ~ HasReply(up)
      /\ Cardinality(waiting) >= 2 \/ Gone \in waiting
  BY StuckMeans
<1>1. ServerTypeOK /\ Connection
  BY DEF IInv
<1>2. /\ down \in Seq(Command) /\ up \in Seq(Message) /\ login = "yes" /\ Len(up) \in Nat
      /\ "reply" \in Message /\ "other" \in Message
  BY <1>0, <1>1, ServerTypes DEF ServerTypeOK, Message
<1> SUFFICES /\ table' = "host" /\ discarded' /\ ~ HasState(down') /\ ~ HasReply(up')
             /\ Cardinality(waiting') >= 2 \/ Gone \in waiting'
  BY StuckMeans DEF stuck, connected, underWay, HasState, HasReply
<1>3. CASE UNCHANGED serverVars
  BY <1>0, <1>3 DEF serverVars, server
<1>4. ASSUME NEW c \in Clients, NEW K \in Chords[c], KeysReceived(c, K)
      PROVE  /\ table' = "host" /\ discarded' /\ ~ HasState(down') /\ ~ HasReply(up')
             /\ Cardinality(waiting') >= 2 \/ Gone \in waiting'
  <2>1. UNCHANGED <<table, discarded, up, waiting>>
    BY <1>4 DEF KeysReceived
  <2>2. ASSUME NEW x \in Command, KeyCommand(c, K, x), down' = down \o <<x>>
        PROVE  ~ HasState(down')
    <3>1. x.op # "state"
      BY <2>2 DEF KeyCommand
    <3> QED BY <1>0, <1>2, <2>2, <3>1, StateMore
  <2>3. ~ HasState(down')
    BY <1>0, <1>1, <1>4, <2>2, KeysSend, CncAssumption
  <2> QED BY <1>0, <2>1, <2>3
<1>5. ASSUME NEW c \in Clients, RequestMetrics(c)
      PROVE  /\ table' = "host" /\ discarded' /\ ~ HasState(down') /\ ~ HasReply(up')
             /\ Cardinality(waiting') >= 2 \/ Gone \in waiting'
  <2>1. /\ waiting' = waiting \union {c} /\ UNCHANGED <<table, discarded, up>>
        /\ Cardinality(waiting \union {c}) # 1 => down' = down
    BY <1>5 DEF RequestMetrics
  <2> QED BY <1>0, <2>1, NotTheFirst
<1>6. ASSUME NEW c \in Clients, Leave(c)
      PROVE  /\ table' = "host" /\ discarded' /\ ~ HasState(down') /\ ~ HasReply(up')
             /\ Cardinality(waiting') >= 2 \/ Gone \in waiting'
  <2>1. /\ UNCHANGED <<table, discarded, up, down>>
        /\ waiting' = IF c \in waiting THEN (waiting \ {c}) \union {Gone} ELSE waiting
    BY <1>6 DEF Leave
  <2> QED BY <1>0, <2>1, CncAssumption
<1>7. CASE Receive
  <2>1. HasReply(up) <=> Head(up) = "reply" \/ HasReply(Tail(up))
    BY <1>2, <1>7, ReplyLess DEF Receive
  <2>2. up' = Tail(up) /\ UNCHANGED <<table, discarded, down, waiting>>
    BY <1>0, <1>2, <1>7, <2>1 DEF Receive
  <2> QED BY <1>0, <2>1, <2>2
<1>8. ASSUME NEW n \in 1 .. Len(up), NEW rest \in {<<>>, <<"other">>}, ReceiveOther(n, rest)
      PROVE  /\ table' = "host" /\ discarded' /\ ~ HasState(down') /\ ~ HasReply(up')
             /\ Cardinality(waiting') >= 2 \/ Gone \in waiting'
  <2>1. /\ up' = rest \o SubSeq(up, n + 1, Len(up))
        /\ discarded' = (discarded \/ \E i \in 1 .. n : up[i] = "reply")
        /\ UNCHANGED <<table, down, waiting>>
    BY <1>8 DEF ReceiveOther
  <2>2. HasReply(up) <=> (\E i \in 1 .. n : up[i] = "reply") \/ HasReply(up')
    BY <1>2, <2>1, ReplyRest
  <2> QED BY <1>0, <2>1, <2>2
<1>9. CASE HostCommand
  <2>1. HasState(down) <=> Head(down).op = "state" \/ HasState(Tail(down))
    BY <1>2, <1>9, StateLess DEF HostCommand
  <2>2. up' = up /\ down' = Tail(down) /\ UNCHANGED <<table, discarded, waiting>>
    BY <1>0, <1>9, <2>1 DEF HostCommand, server
  <2> QED BY <1>0, <2>1, <2>2
<1>10. CASE Keepalive
  <2>1. up' = up \o <<"other">> /\ UNCHANGED <<table, discarded, waiting, down>>
    BY <1>2, <1>10, AppendIsConcat DEF Keepalive, server
  <2>2. HasReply(up') <=> HasReply(up)
    BY <1>2, <2>1, ReplyMore
  <2> QED BY <1>0, <2>1, <2>2
<1>11. CASE Stop
  BY <1>0, <1>11 DEF Stop, server
<1>12. ~ HostShortRead /\ ~ Restart
  BY <1>0 DEF HostShortRead, Restart
<1> QED BY <1>3, <1>4, <1>5, <1>6, <1>7, <1>8, <1>9, <1>10, <1>11, <1>12
        DEF ServerNext

\* StuckForGood: once two wait for a reply that was not understood, no step but
\* the end of the host makes the server ask again.
THEOREM StuckUntilRestart == ServerSpec => StuckForGood
<1>1. IInv /\ [ServerNext]_serverVars => [stuck => stuck' \/ ~ alive']_serverVars
  BY StuckNext
<1> QED BY <1>1, InvAlways, PTL DEF ServerSpec, StuckForGood

-----------------------------------------------------------------------------
(* CommandQueue.                                                           *)

\* The elements of a finite set of numbers, counted from the smallest.
rank(D, i) == Cardinality({j \in D : j <= i})
LEMMA Ranks ==
  ASSUME NEW n \in Nat, NEW D \in SUBSET (1 .. n)
  PROVE  /\ IsFiniteSet(D) /\ Cardinality(D) \in Nat
         /\ \A i \in D : rank(D, i) \in 1 .. Cardinality(D)
         /\ \A i, j \in D : rank(D, i) = rank(D, j) => i = j
         /\ \A k \in 1 .. Cardinality(D) : \E i \in D : rank(D, i) = k
<1> DEFINE r == [i \in D |-> rank(D, i)]
<1>1. IsFiniteSet(D) /\ Cardinality(D) \in Nat
  <2>1. IsFiniteSet(1 .. n)
    BY FS_Interval
  <2>2. IsFiniteSet(D)
    BY <2>1, FS_Subset
  <2> QED BY <2>2, FS_CardinalityType
<1>2. ASSUME NEW i \in D
      PROVE  /\ {j \in D : j <= i} \in SUBSET D /\ IsFiniteSet({j \in D : j <= i})
             /\ r[i] \in 1 .. Cardinality(D)
  <2> DEFINE below == {j \in D : j <= i}
  <2>1. below \in SUBSET D /\ i \in below
    OBVIOUS
  <2>2. r[i] = Cardinality(below)
    BY DEF rank
  <2> HIDE DEF below
  <2>3. IsFiniteSet(below) /\ Cardinality(below) <= Cardinality(D)
    BY <1>1, <2>1, FS_Subset
  <2>4. Cardinality(below) \in Nat /\ Cardinality(below) # 0
    BY <2>1, <2>3, FS_CardinalityType, FS_EmptySet
  <2>5. r[i] \in 1 .. Cardinality(D)
    BY <1>1, <2>2, <2>3, <2>4
  <2> QED BY <2>1, <2>3, <2>5 DEF below
<1>3. ASSUME NEW i \in D, NEW j \in D, i < j PROVE r[i] # r[j]
  <2> DEFINE I == {k \in D : k <= i}
             J == {k \in D : k <= j}
  <2>1. I \in SUBSET J /\ I # J
    <3>1. j \in J /\ j \notin I
      BY <1>3
    <3>2. \A k \in I : k \in J
      BY <1>3
    <3> QED BY <3>1, <3>2
  <2>2. IsFiniteSet(J) /\ r[i] = Cardinality(I) /\ r[j] = Cardinality(J)
    BY <1>2 DEF rank
  <2> HIDE DEF I, J
  <2> QED BY <2>1, <2>2, FS_Subset
<1>4. \A i, j \in D : r[i] = r[j] => i = j
  <2> TAKE i, j \in D
  <2>1. i < j \/ j < i \/ i = j
    OBVIOUS
  <2> QED BY <1>3, <2>1
<1>5. r \in [D -> 1 .. Cardinality(D)]
  BY <1>2
<1>6. r \in Injection(D, 1 .. Cardinality(D))
  BY <1>4, <1>5 DEF Injection, IsInjective
<1>7. r \in Surjection(D, 1 .. Cardinality(D))
  <2>1. IsFiniteSet(1 .. Cardinality(D)) /\ Cardinality(1 .. Cardinality(D)) = Cardinality(D)
    BY <1>1, FS_Interval
  <2> QED BY <1>6, <2>1, FS_Injection
<1>8. \A k \in 1 .. Cardinality(D) : \E i \in D : r[i] = k
  <2> HIDE DEF r
  <2> QED BY <1>7 DEF Surjection
<1>9. \A i \in D : r[i] = rank(D, i)
  OBVIOUS
<1> HIDE DEF r
<1> QED BY <1>1, <1>4, <1>5, <1>8, <1>9

-----------------------------------------------------------------------------
Distinct(s) == \A i, j \in DOMAIN s : s[i] = s[j] => i = j

\* The commands the queue thread adds.
LEMMA OwnCommands ==
  /\ Len(Own) \in Nat /\ Len(Own) > 0
  /\ \A i \in 1 .. Len(Own) : Own[i] \in Periodic /\ Own[i] # Late
  /\ \A i, j \in 1 .. Len(Own) : Own[i] = Own[j] => i = j
<1>1. /\ Own \in Seq(Elements(Own)) /\ \A i, j \in DOMAIN Own : Own[i] = Own[j] => i = j
      /\ Late \notin Elements(Own) /\ Own # <<>>
  BY QueueAssumption
<1>2. Len(Own) \in Nat /\ DOMAIN Own = 1 .. Len(Own) /\ Len(Own) # 0
  BY <1>1, LenProperties, EmptySeq
<1>3. \A i \in 1 .. Len(Own) : Own[i] \in Elements(Own)
  BY <1>2 DEF Elements
<1> QED BY <1>1, <1>2, <1>3 DEF Periodic

LEMMA VectorOfCommands ==
  ASSUME per_cmds \in Seq(Periodic)
  PROVE  /\ Len(per_cmds) \in Nat /\ DOMAIN per_cmds = 1 .. Len(per_cmds)
         /\ Elements(per_cmds) \subseteq Periodic
<1> HIDE DEF Periodic
<1>1. Len(per_cmds) \in Nat /\ DOMAIN per_cmds = 1 .. Len(per_cmds)
  BY LenProperties
<1>2. \A i \in 1 .. Len(per_cmds) : per_cmds[i] \in Periodic
  BY ElementOfSeq
<1> QED BY <1>1, <1>2 DEF Elements

\* A command added to the vector.
LEMMA Added ==
  ASSUME per_cmds \in Seq(Periodic), NEW c \in Periodic, per_cmds' = Append(per_cmds, c)
  PROVE  /\ per_cmds' \in Seq(Periodic) /\ Len(per_cmds') = Len(per_cmds) + 1
         /\ Elements(per_cmds') = Elements(per_cmds) \union {c}
         /\ Distinct(per_cmds) /\ c \notin Elements(per_cmds) => Distinct(per_cmds')
<1> DEFINE a == Append(per_cmds, c)
<1> HIDE DEF Periodic
<1>1. PICK n \in Nat : n = Len(per_cmds) /\ DOMAIN per_cmds = 1 .. n
  BY VectorOfCommands
<1>2. /\ a \in Seq(Periodic) /\ Len(a) = n + 1
      /\ \A i \in 1 .. n : a[i] = per_cmds[i]
      /\ a[n + 1] = c
  BY <1>1, AppendProperties
<1>3. per_cmds' = a
  OBVIOUS
<1> HIDE DEF a
<1>4. DOMAIN a = 1 .. n + 1
  BY <1>2, LenProperties
<1>5. \A i : i \in 1 .. n + 1 <=> i \in 1 .. n \/ i = n + 1
  BY <1>1
<1>6. Elements(a) = Elements(per_cmds) \union {c}
  BY <1>1, <1>2, <1>4, <1>5 DEF Elements
<1>7. Distinct(per_cmds) /\ c \notin Elements(per_cmds) => Distinct(a)
  BY <1>1, <1>2, <1>4, <1>5 DEF Elements, Distinct
<1> QED BY <1>1, <1>2, <1>3, <1>6, <1>7

\* Every command that is due is pushed, and pushed once.
LEMMA DueNow ==
  ASSUME per_cmds \in Seq(Periodic)
  PROVE  /\ dueNow \in Seq(Periodic)
         /\ DOMAIN dueNow = 1 .. Len(dueNow) /\ Len(dueNow) \in Nat
         /\ \A k \in DOMAIN dueNow : dueNow[k] \in Elements(per_cmds) /\ due(dueNow[k])
         /\ Distinct(per_cmds) => Distinct(dueNow)
         /\ \A c \in Elements(per_cmds) : due(c) => \E k \in DOMAIN dueNow : dueNow[k] = c
<1> DEFINE n == Cardinality(dueSlots)
           slot(k) == CHOOSE i \in dueSlots : place(i) = k
<1>1. /\ per_cmds \in Seq(Periodic) /\ DOMAIN per_cmds = 1 .. Len(per_cmds)
      /\ Len(per_cmds) \in Nat
      /\ Elements(per_cmds) \subseteq Periodic
  BY VectorOfCommands
<1>2. /\ n \in Nat /\ \A i \in dueSlots : place(i) \in 1 .. n
      /\ \A i, j \in dueSlots : place(i) = place(j) => i = j
      /\ \A k \in 1 .. n : \E i \in dueSlots : place(i) = k
  <2>1. dueSlots \in SUBSET (1 .. Len(per_cmds))
    BY <1>1 DEF dueSlots
  <2>2. \A i : place(i) = rank(dueSlots, i)
    BY DEF place, rank
  <2>3. PICK L \in Nat : L = Len(per_cmds)
    BY <1>1
  <2>4. dueSlots \in SUBSET (1 .. L)
    BY <2>1, <2>3
  <2> DEFINE D == dueSlots
  <2>5. /\ IsFiniteSet(D) /\ Cardinality(D) \in Nat
        /\ \A i \in D : rank(D, i) \in 1 .. Cardinality(D)
        /\ \A i, j \in D : rank(D, i) = rank(D, j) => i = j
        /\ \A k \in 1 .. Cardinality(D) : \E i \in D : rank(D, i) = k
    <3>1. D \in SUBSET (1 .. L)
      BY <2>4
    <3> HIDE DEF D
    <3> QED BY <3>1, Ranks
  <2>6. \A i : place(i) = rank(D, i)
    BY <2>2
  <2>7. n = Cardinality(D)
    OBVIOUS
  <2> HIDE DEF n
  <2> QED BY <2>5, <2>6, <2>7
<1>3. ASSUME NEW k \in 1 .. n PROVE slot(k) \in dueSlots /\ place(slot(k)) = k
  <2>1. \E i \in dueSlots : place(i) = k
    BY <1>2
  <2>2. slot(k) \in dueSlots /\ place(slot(k)) = k
    BY <2>1
  <2> QED BY <2>2
<1>4. dueNow = [k \in 1 .. n |-> per_cmds[slot(k)]]
  BY DEF dueNow
<1>5. \A i \in dueSlots : /\ i \in DOMAIN per_cmds /\ due(per_cmds[i])
                          /\ per_cmds[i] \in Elements(per_cmds)
  BY DEF dueSlots, Elements
<1>6. \A i \in dueSlots : place(i) \in 1 .. n /\ slot(place(i)) = i
  <2> TAKE i \in dueSlots
  <2>1. place(i) \in 1 .. n
    BY <1>2
  <2> HIDE DEF slot
  <2>2. slot(place(i)) \in dueSlots /\ place(slot(place(i))) = place(i)
    BY <1>3, <2>1
  <2> QED BY <1>2, <2>1, <2>2
<1> HIDE DEF n, slot
<1>7. \A k \in 1 .. n : dueNow[k] = per_cmds[slot(k)] /\ slot(k) \in dueSlots /\ place(slot(k)) = k
  BY <1>3, <1>4
<1>8. dueNow \in [1 .. n -> Periodic]
  BY <1>1, <1>4, <1>5, <1>7
<1>9. dueNow \in Seq(Periodic) /\ DOMAIN dueNow = 1 .. n /\ Len(dueNow) = n
  BY <1>2, <1>8, IsASeq
<1>10. ASSUME Distinct(per_cmds), NEW i \in 1 .. n, NEW j \in 1 .. n, dueNow[i] = dueNow[j]
       PROVE  i = j
  <2>1. slot(i) \in DOMAIN per_cmds /\ slot(j) \in DOMAIN per_cmds
        /\ per_cmds[slot(i)] = per_cmds[slot(j)]
    BY <1>5, <1>7, <1>10
  <2>2. slot(i) = slot(j)
    BY <1>10, <2>1 DEF Distinct
  <2> QED BY <1>7, <2>2
<1>11. ASSUME NEW c \in Elements(per_cmds), due(c) PROVE \E k \in 1 .. n : dueNow[k] = c
  <2>1. PICK i \in dueSlots : per_cmds[i] = c
    BY <1>11 DEF dueSlots, Elements
  <2> QED BY <1>6, <1>7, <2>1
<1>12. Distinct(per_cmds) => Distinct(dueNow)
  BY <1>9, <1>10 DEF Distinct
<1> QED BY <1>2, <1>5, <1>7, <1>9, <1>11, <1>12

-----------------------------------------------------------------------------
(* Types.                                                                  *)

LEMMA CommandTypes ==
  /\ Periodic \subseteq Commands /\ Picture \in Commands /\ Late \in Periodic
  /\ Picture \notin Periodic /\ Nothing \notin Commands
  /\ Period \in [Periodic -> Nat \ {0}] /\ MaxCost \in Nat /\ Limit \in Nat
  /\ MaxPictures \in Nat
BY QueueAssumption DEF Periodic, Commands

\* What becomes of the times.
LEMMA TimeTypes ==
  ASSUME left \in [Periodic -> Int]
  PROVE  /\ \A t \in Int : /\ later(t) \in [Periodic -> Int]
                           /\ \A c \in Periodic :
                                later(t)[c] = IF c \in unset THEN left[c] ELSE left[c] - t
         /\ \A S \in SUBSET Periodic :
              /\ advanced(S) \in [Periodic -> Int]
              /\ \A c \in Periodic :
                   advanced(S)[c] = IF c \in S THEN left[c] + Period[c] ELSE left[c]
<1>1. DOMAIN left = Periodic /\ \A c \in Periodic : left[c] \in Int /\ Period[c] \in Int
  BY CommandTypes
<1>2. ASSUME NEW t \in Int
      PROVE  /\ later(t) \in [Periodic -> Int]
             /\ \A c \in Periodic :
                  later(t)[c] = IF c \in unset THEN left[c] ELSE left[c] - t
  <2> HIDE DEF Periodic
  <2> QED BY <1>1 DEF later
<1>3. ASSUME NEW S \in SUBSET Periodic
      PROVE  /\ advanced(S) \in [Periodic -> Int]
             /\ \A c \in Periodic :
                  advanced(S)[c] = IF c \in S THEN left[c] + Period[c] ELSE left[c]
  <2> HIDE DEF Periodic
  <2> QED BY <1>1 DEF advanced
<1> QED BY <1>2, <1>3

\* The commands pushed.
LEMMA PushedTypes ==
  ASSUME per_cmds \in Seq(Periodic)
  PROVE  /\ dueNow \in Seq(Commands)
         /\ Elements(dueNow) \subseteq Elements(per_cmds)
         /\ Elements(dueNow) \in SUBSET Periodic
<1>1. /\ dueNow \in Seq(Periodic) /\ \A k \in DOMAIN dueNow : dueNow[k] \in Elements(per_cmds)
      /\ Elements(per_cmds) \subseteq Periodic
  BY DueNow, VectorOfCommands
<1>2. dueNow \in Seq(Commands)
  <2> HIDE DEF Commands, Periodic
  <2> QED BY <1>1, CommandTypes, SeqMonotonic
<1>3. Elements(dueNow) \subseteq Elements(per_cmds)
  <2>1. \A c \in Elements(dueNow) : \E k \in DOMAIN dueNow : c = dueNow[k]
    BY DEF Elements
  <2> QED BY <1>1, <2>1
<1> QED BY <1>1, <1>2, <1>3

LEMMA Overwritten ==
  ASSUME NEW S, NEW n \in Nat, NEW f \in [1 .. n -> S], NEW x, NEW y \in S
  PROVE  [f EXCEPT ![x] = y] \in [1 .. n -> S]
OBVIOUS

LEMMA TypesStep ==
  ASSUME QueueTypeOK, [QueueNext]_queueVars PROVE QueueTypeOK'
<1> DEFINE Place == /\ own' \in 0 .. Len(Own) /\ (turn' = "start" => own' < Len(Own))
                    /\ turn' \in {"start", "take", "generate"}
                    /\ cncTurn' \in {"add", "idle", "push"}
                    /\ ended' \in BOOLEAN /\ raced' \in BOOLEAN
           End == /\ tail' \in Int /\ -2 <= tail' /\ tail' <= Len(q')
                  /\ cncTurn' # "push" => tail' = 0
           Data == /\ q' \in Seq(Commands) /\ per_cmds' \in Seq(Periodic)
                   /\ left' \in [Periodic -> Int] /\ unset' \subseteq Periodic
                   /\ ran' \in Commands \union {Nothing}
           Goal == Place /\ End /\ Data
<1>0. /\ q \in Seq(Commands) /\ per_cmds \in Seq(Periodic)
      /\ left \in [Periodic -> Int] /\ unset \subseteq Periodic
      /\ turn \in {"start", "take", "generate"} /\ ran \in Commands \union {Nothing}
      /\ own \in 0 .. Len(Own) /\ (turn = "start" => own < Len(Own))
      /\ cncTurn \in {"add", "idle", "push"}
      /\ ended \in BOOLEAN /\ raced \in BOOLEAN
  BY DEF QueueTypeOK
<1>1. /\ Len(q) \in Nat /\ tail \in Int /\ -2 <= tail /\ tail <= Len(q)
      /\ cncTurn # "push" => tail = 0
  <2>1. Len(q) \in Nat
    <3> HIDE DEF Commands
    <3> QED BY <1>0, LenProperties
  <2>2. tail \in (IF cncTurn = "push" THEN -2 .. Len(q) ELSE {0})
    BY DEF QueueTypeOK
  <2> QED BY <2>1, <2>2
<1> SUFFICES Goal
  <2>1. ASSUME Goal PROVE QueueTypeOK'
    <3>1. Len(q') \in Nat
      <4> HIDE DEF Commands, Place, End
      <4> QED BY <2>1, LenProperties
    <3>2. tail' \in (IF cncTurn' = "push" THEN -2 .. Len(q') ELSE {0})
      BY <2>1, <3>1
    <3> HIDE DEF End
    <3> QED BY <2>1, <3>2 DEF QueueTypeOK
  <2> QED BY <2>1
<1>2. /\ Picture \in Commands /\ MaxCost \in Nat /\ Late \in Periodic
      /\ dueNow \in Seq(Commands) /\ Elements(dueNow) \in SUBSET Periodic
      /\ \A t \in 0 .. MaxCost : later(t) \in [Periodic -> Int]
      /\ \A S \in SUBSET Periodic : advanced(S) \in [Periodic -> Int]
  <2>1. \A t \in 0 .. MaxCost : t \in Int
    OBVIOUS
  <2> HIDE DEF Commands, Periodic
  <2> QED BY <1>0, <2>1, CommandTypes, PushedTypes, TimeTypes
<1>3. Append(per_cmds, Late) \in Seq(Periodic)
  <2> HIDE DEF Periodic
  <2> QED BY <1>0, <1>2, AppendProperties
<1>4. turn = "start" =>
        /\ Own[own + 1] \in Periodic
        /\ Append(per_cmds, Own[own + 1]) \in Seq(Periodic)
        /\ own + 1 \in 0 .. Len(Own)
        /\ (own + 1 # Len(Own) => own + 1 < Len(Own))
  <2> HAVE turn = "start"
  <2>1. PICK n \in Nat : n = Len(Own)
    BY OwnCommands
  <2>2. own + 1 \in 1 .. n /\ own + 1 \in 0 .. n /\ (own + 1 # n => own + 1 < n)
    BY <1>0, <2>1
  <2>3. Own[own + 1] \in Periodic
    BY <2>1, <2>2, OwnCommands
  <2> HIDE DEF Periodic
  <2>4. Append(per_cmds, Own[own + 1]) \in Seq(Periodic)
    BY <1>0, <2>3, AppendProperties
  <2> QED BY <2>1, <2>2, <2>3, <2>4
<1>5. q # <<>> => /\ Tail(q) \in Seq(Commands) /\ Head(q) \in Commands
                  /\ Len(Tail(q)) = Len(q) - 1
  <2> HIDE DEF Commands
  <2> QED BY <1>0, HeadTailProperties
<1>6. q \o dueNow \in Seq(Commands) /\ Len(q \o dueNow) \in Nat /\ Len(q) <= Len(q \o dueNow)
  <2> HIDE DEF Commands
  <2>1. q \o dueNow \in Seq(Commands) /\ Len(q \o dueNow) = Len(q) + Len(dueNow)
    BY <1>0, <1>2, ConcatProperties
  <2>2. Len(dueNow) \in Nat
    BY <1>2, LenProperties
  <2> QED BY <1>1, <2>1, <2>2
<1> HIDE DEF Commands, Periodic
<1>7. CASE UNCHANGED queueVars
  BY <1>0, <1>1, <1>7 DEF queueVars
<1>8. CASE Overflow
  BY <1>0, <1>1, <1>8 DEF Overflow
<1>9. ASSUME NEW t \in 0 .. MaxCost, Run(t) PROVE Goal
  <2>1. Place
    BY <1>0, <1>9 DEF Run
  <2>2. End
    <3>1. PICK n \in Int : n = Len(q) /\ Len(q') = n - 1 /\ tail <= n /\ n >= 1
      <4>1. Len(q) # 0
        BY <1>0, <1>9, EmptySeq DEF Run
      <4> QED BY <1>1, <1>5, <1>9, <4>1 DEF Run
    <3>2. tail' = tail \/ (tail > -2 /\ tail' = tail - 1)
      BY <1>9 DEF Run
    <3>3. tail' = tail => tail <= n - 1
      <4>1. CASE cncTurn = "push"
        BY <1>1, <1>9, <3>1, <4>1 DEF Run
      <4>2. CASE cncTurn # "push"
        BY <1>1, <3>1, <4>2
      <4> QED BY <4>1, <4>2
    <3>4. cncTurn' # "push" => tail' = 0
      BY <1>1, <1>9 DEF Run
    <3> QED BY <1>1, <3>1, <3>2, <3>3, <3>4
  <2>3. Data
    BY <1>0, <1>2, <1>5, <1>9 DEF Run
  <2> QED BY <2>1, <2>2, <2>3
<1>10. ASSUME NEW t \in 0 .. MaxCost, Sleep(t) PROVE Goal
  BY <1>0, <1>1, <1>2, <1>10 DEF Sleep
<1>11. CASE Generate
  <2>1. Place
    BY <1>0, <1>11 DEF Generate
  <2>2. End
    BY <1>1, <1>6, <1>11 DEF Generate
  <2>3. Data
    BY <1>0, <1>2, <1>6, <1>11 DEF Generate
  <2> QED BY <2>1, <2>2, <2>3
<1>12. CASE AddOwn
  BY <1>0, <1>1, <1>4, <1>12 DEF AddOwn
<1>13. CASE AddPeriodic
  BY <1>0, <1>1, <1>3, <1>13 DEF AddPeriodic
<1>14. CASE PushRead
  BY <1>0, <1>1, <1>14 DEF PushRead
<1>15. CASE PushWrite
  <2>1. tail + 1 >= 0 => pushed \in Seq(Commands) /\ Len(pushed) = tail + 1
    <3> HAVE tail + 1 >= 0
    <3>1. tail + 1 \in Nat
      BY <1>1
    <3>2. \A i \in 1 .. tail + 1 : i <= tail => q[i] \in Commands
      <4>1. \A i \in 1 .. tail + 1 : i <= tail => i \in 1 .. Len(q)
        BY <1>1
      <4> QED BY <1>0, <4>1, ElementOfSeq
    <3>3. pushed \in [1 .. tail + 1 -> Commands]
      BY <1>2, <3>2 DEF pushed
    <3> QED BY <3>1, <3>3, IsASeq
  <2>2. q' \in Seq(Commands)
    BY <1>0, <2>1, <1>15 DEF PushWrite
  <2>3. Len(q') \in Nat
    BY <2>2, LenProperties
  <2> QED BY <1>0, <1>15, <2>2, <2>3 DEF PushWrite
<1>16. CASE AddWhileAdding
  <2>1. per_cmds' \in Seq(Periodic)
    BY <1>3, <1>4, <1>16 DEF AddWhileAdding
  <2> QED BY <1>0, <1>1, <1>4, <1>16, <2>1 DEF AddWhileAdding
<1>17. CASE GenerateWhileAdding
  <2>1. PICK S \in SUBSET Elements(dueNow) : left' = advanced(S) /\ unset' = unset \ S
    BY <1>17 DEF GenerateWhileAdding
  <2>2. S \in SUBSET Periodic
    BY <1>2
  <2>3. Data
    BY <1>0, <1>2, <1>3, <1>6, <1>17, <2>1, <2>2 DEF GenerateWhileAdding
  <2>4. Place
    BY <1>0, <1>17 DEF GenerateWhileAdding
  <2>5. End
    BY <1>1, <1>6, <1>17 DEF GenerateWhileAdding
  <2> QED BY <2>3, <2>4, <2>5
<1>18. CASE GenerateWhilePushing
  <2> DEFINE both == q \o dueNow
  <2>1. q' \in Seq(Commands)
    <3>1. q' = both \/ q' = [both EXCEPT ![tail + 1] = Picture]
      BY <1>18 DEF GenerateWhilePushing
    <3>2. [both EXCEPT ![tail + 1] = Picture] \in Seq(Commands)
      <4>1. both \in Seq(Commands)
        BY <1>6
      <4> HIDE DEF both
      <4>2. PICK n \in Nat : n = Len(both) /\ both \in [1 .. n -> Commands]
        BY <4>1, LenProperties, ElementOfSeq
      <4>3. [both EXCEPT ![tail + 1] = Picture] \in [1 .. n -> Commands]
        <5>1. n \in Nat /\ both \in [1 .. n -> Commands] /\ Picture \in Commands
          BY <1>2, <4>2
        <5>2. PICK x : x = tail + 1
          OBVIOUS
        <5>3. [both EXCEPT ![x] = Picture] \in [1 .. n -> Commands]
          BY <5>1, Overwritten
        <5> QED BY <5>2, <5>3
      <4>4. PICK new : new = [both EXCEPT ![tail + 1] = Picture]
        OBVIOUS
      <4>5. new \in [1 .. n -> Commands]
        BY <4>3, <4>4
      <4>6. new \in Seq(Commands)
        BY <4>5, IsASeq
      <4> QED BY <4>4, <4>6
    <3> QED BY <1>6, <3>1, <3>2
  <2>2. Len(q') \in Nat
    BY <2>1, LenProperties
  <2>3. End
    BY <1>18, <2>2 DEF GenerateWhilePushing
  <2>4. Place
    BY <1>0, <1>18 DEF GenerateWhilePushing
  <2>5. Data
    BY <1>0, <1>2, <1>18, <2>1 DEF GenerateWhilePushing
  <2> QED BY <2>3, <2>4, <2>5
<1>19. CASE MeetInQueue
  BY <1>0, <1>1, <1>19 DEF MeetInQueue
<1> QED BY <1>7, <1>8, <1>9, <1>10, <1>11, <1>12, <1>13, <1>14, <1>15, <1>16, <1>17, <1>18, <1>19
        DEF QueueNext, QueueThread, CommandThread, Both

LEMMA TypesInit == QueueInit => QueueTypeOK
<1> SUFFICES ASSUME QueueInit PROVE QueueTypeOK
  OBVIOUS
<1>1. q \in Seq(Commands) /\ per_cmds \in Seq(Periodic) /\ Len(q) = 0
  BY EmptySeq DEF QueueInit
<1>2. own \in 0 .. Len(Own) /\ own < Len(Own)
  BY OwnCommands DEF QueueInit
<1>3. left \in [Periodic -> Int] /\ tail = 0
  BY <1>1 DEF QueueInit
<1> QED BY <1>1, <1>2, <1>3 DEF QueueInit, QueueTypeOK

-----------------------------------------------------------------------------
(* What waits.  Under a light load every command in the queue is run before *)
(* it is due again, so that none is pushed while it still waits.            *)

picturesIn(s) == {i \in DOMAIN s : s[i] = Picture}
\* The processor time that may pass before the command in place i is run.
wait(i) == (i - 1) * MaxCost
slack == IF turn = "generate" THEN 1 - MaxCost ELSE 1

KnownIn(s, P) == \A i \in DOMAIN s : s[i] \in P \union {Picture}
OnceIn(s) == \A i, j \in DOMAIN s : s[i] = s[j] /\ s[i] # Picture => i = j
InTime(s, l, u) == \A i \in DOMAIN s : s[i] # Picture => s[i] \notin u /\ l[s[i]] > wait(i)
NotLate(P, l, u, least) ==
  /\ \A c \in P \ u : l[c] >= least
  /\ \A c \in u : l[c] = 0

\* Nothing is in the vector but what the two threads have added.
Vector ==
  /\ Distinct(per_cmds)
  /\ Len(per_cmds) = own + (IF cncTurn = "add" THEN 0 ELSE 1)
  /\ \A c \in Elements(per_cmds) :
       (\E i \in 1 .. own : c = Own[i]) \/ (c = Late /\ cncTurn # "add")
\* A push that has begun has read the queue as it still is.
PushBegun ==
  cncTurn = "push" => tail = Len(q) /\ Cardinality(picturesIn(q)) < MaxPictures

Waiting ==
  ~ raced =>
    /\ Vector /\ PushBegun
    /\ KnownIn(q, Elements(per_cmds)) /\ OnceIn(q)
    /\ Cardinality(picturesIn(q)) <= MaxPictures
    /\ InTime(q, left, unset)
    /\ NotLate(Elements(per_cmds), left, unset, slack)
    /\ Periodic \ Elements(per_cmds) \subseteq unset
    /\ ~ ended

LEMMA VectorLength ==
  ASSUME QueueTypeOK, Vector
  PROVE  per_cmds \in Seq(Periodic) /\ Len(per_cmds) <= Len(Own) + 1
<1>1. PICK n \in Nat : n = Len(Own)
  BY OwnCommands
<1>2. own \in 0 .. n
  BY <1>1 DEF QueueTypeOK
<1>3. Len(per_cmds) = own \/ Len(per_cmds) = own + 1
  BY <1>2 DEF Vector
<1>4. Len(per_cmds) <= n + 1
  BY <1>2, <1>3
<1> QED BY <1>1, <1>4 DEF QueueTypeOK

\* The time before a place's turn grows by one turn a place.
LEMMA Waits ==
  /\ \A i \in Int : wait(i) \in Int /\ wait(i + 1) = wait(i) + MaxCost
  /\ \A i, j \in Nat : i <= j => wait(i) <= wait(j)
  /\ \A i \in Nat \ {0} : wait(i) >= 0
<1>0. MaxCost \in Nat
  BY CommandTypes
<1>1. \A i \in Int : wait(i) \in Int /\ wait(i + 1) = wait(i) + MaxCost
  BY <1>0 DEF wait
<1>2. \A d \in Nat : d * MaxCost \in Nat
  BY <1>0
<1>3. ASSUME NEW i \in Nat, NEW j \in Nat, i <= j PROVE wait(i) <= wait(j)
  <2>1. PICK d \in Nat : d = j - i
    BY <1>3
  <2>2. j - 1 = (i - 1) + d
    BY <2>1
  <2>3. \A x, y, z \in Int : (x + y) * z = x * z + y * z
    OBVIOUS
  <2>4. wait(j) = wait(i) + d * MaxCost
    BY <1>0, <2>2, <2>3 DEF wait
  <2>5. wait(i) \in Int /\ d * MaxCost \in Nat
    BY <1>1, <1>2
  <2> QED BY <2>4, <2>5
<1>4. wait(1) = 0
  BY <1>0 DEF wait
<1>5. \A i \in Nat \ {0} : wait(1) <= wait(i)
  <2> TAKE i \in Nat \ {0}
  <2>1. 1 \in Nat /\ i \in Nat /\ 1 <= i
    OBVIOUS
  <2> QED BY <1>3, <2>1
<1>6. \A i \in Nat \ {0} : wait(i) >= 0
  <2> TAKE i \in Nat \ {0}
  <2>1. wait(i) \in Int /\ 0 <= wait(i)
    BY <1>1, <1>4, <1>5
  <2> QED BY <2>1
<1> QED BY <1>1, <1>3, <1>6

\* No more commands wait than the vector has, besides the pictures.
LEMMA QueueLength ==
  ASSUME per_cmds \in Seq(Periodic), Len(per_cmds) <= Len(Own) + 1,
         NEW s \in Seq(Commands), KnownIn(s, Elements(per_cmds)), OnceIn(s)
  PROVE  /\ IsFiniteSet(picturesIn(s)) /\ Cardinality(picturesIn(s)) \in Nat
         /\ Len(s) <= Len(Own) + 1 + Cardinality(picturesIn(s))
<1> DEFINE C == (1 .. Len(s)) \ picturesIn(s)
           f == [i \in C |-> CHOOSE k \in DOMAIN per_cmds : per_cmds[k] = s[i]]
<1>1. Len(s) \in Nat /\ DOMAIN s = 1 .. Len(s)
  <2> HIDE DEF Commands
  <2> QED BY LenProperties
<1>2. /\ IsFiniteSet(1 .. Len(s)) /\ Cardinality(1 .. Len(s)) = Len(s)
      /\ picturesIn(s) \in SUBSET (1 .. Len(s))
  <2>1. picturesIn(s) \in SUBSET (1 .. Len(s))
    BY <1>1 DEF picturesIn
  <2>2. PICK n \in Nat : n = Len(s)
    BY <1>1
  <2>3. IsFiniteSet(1 .. n) /\ Cardinality(1 .. n) = n
    BY FS_Interval
  <2> QED BY <2>1, <2>2, <2>3
<1>3. /\ IsFiniteSet(C) /\ IsFiniteSet(picturesIn(s))
      /\ Cardinality(C) \in Nat /\ Cardinality(picturesIn(s)) \in Nat
      /\ Len(s) = Cardinality(C) + Cardinality(picturesIn(s))
  <2>1. IsFiniteSet(picturesIn(s)) /\ IsFiniteSet(C)
    BY <1>2, FS_Subset, FS_Difference
  <2>2. Cardinality(C) \in Nat /\ Cardinality(picturesIn(s)) \in Nat
    BY <2>1, FS_CardinalityType
  <2>3. (1 .. Len(s)) \cap picturesIn(s) = picturesIn(s)
    BY <1>2
  <2> DEFINE I == 1 .. Len(s)
             P == picturesIn(s)
  <2>4. Cardinality(C) = Cardinality(I) - Cardinality(P)
    <3>1. IsFiniteSet(I) /\ I \cap P = P /\ C = I \ P
      BY <1>2, <2>3
    <3> HIDE DEF I, P, C
    <3>2. Cardinality(I \ P) = Cardinality(I) - Cardinality(I \cap P)
      BY <3>1, FS_Difference
    <3> QED BY <3>1, <3>2
  <2> HIDE DEF C
  <2> QED BY <1>1, <1>2, <2>1, <2>2, <2>4
<1>4. ASSUME NEW i \in C
      PROVE f[i] \in DOMAIN per_cmds /\ per_cmds[f[i]] = s[i]
  <2>1. i \in DOMAIN s /\ s[i] # Picture
    BY <1>1 DEF picturesIn
  <2>2. s[i] \in Elements(per_cmds)
    BY <2>1 DEF KnownIn
  <2>3. \E k \in DOMAIN per_cmds : per_cmds[k] = s[i]
    BY <2>2 DEF Elements
  <2> HIDE DEF C
  <2> QED BY <2>3
<1>5. \A i, j \in C : f[i] = f[j] => i = j
  <2> TAKE i, j \in C
  <2> HAVE f[i] = f[j]
  <2>1. s[i] = s[j]
    BY <1>4
  <2>2. i \in DOMAIN s /\ j \in DOMAIN s /\ s[i] # Picture
    BY <1>1 DEF picturesIn
  <2> QED BY <2>1, <2>2 DEF OnceIn
<1>6. f \in Injection(C, DOMAIN per_cmds)
  <2> HIDE DEF C
  <2>1. f \in [C -> DOMAIN per_cmds]
    BY <1>4
  <2> QED BY <1>5, <2>1 DEF Injection, IsInjective
<1>7. PICK n \in Nat : n = Len(per_cmds) /\ n <= Len(Own) + 1 /\ DOMAIN per_cmds = 1 .. n
  BY VectorOfCommands
<1>8. IsFiniteSet(1 .. n) /\ Cardinality(1 .. n) = n
  <2>1. 1 \in Int /\ n \in Int /\ (IF 1 > n THEN 0 ELSE n - 1 + 1) = n
    BY <1>7
  <2>2. IsFiniteSet(1 .. n) /\ Cardinality(1 .. n) = IF 1 > n THEN 0 ELSE n - 1 + 1
    <3> HIDE <1>7
    <3> QED BY <2>1, FS_Interval
  <2> QED BY <2>1, <2>2
<1>9. Cardinality(C) <= n
  <2> HIDE DEF C, f
  <2> QED BY <1>6, <1>7, <1>8, FS_Injection
<1>10. Len(Own) \in Nat
  BY OwnCommands
<1> QED BY <1>1, <1>3, <1>7, <1>9, <1>10

\* The pictures of a queue after a push or a pop.
LEMMA PicturesAfter ==
  ASSUME NEW s \in Seq(Commands), IsFiniteSet(picturesIn(s))
  PROVE  /\ picturesIn(Append(s, Picture)) = picturesIn(s) \union {Len(s) + 1}
         /\ Len(s) + 1 \notin picturesIn(s)
         /\ \A t \in Seq(Commands) :
              (\A i \in DOMAIN t : t[i] # Picture) => picturesIn(s \o t) = picturesIn(s)
         /\ s # <<>> => /\ IsFiniteSet(picturesIn(Tail(s)))
                        /\ Cardinality(picturesIn(Tail(s))) <= Cardinality(picturesIn(s))
<1>1. Len(s) \in Nat /\ DOMAIN s = 1 .. Len(s) /\ Picture \in Commands
  <2> HIDE DEF Commands
  <2> QED BY LenProperties, CommandTypes
<1> HIDE DEF Commands
<1>2. picturesIn(Append(s, Picture)) = picturesIn(s) \union {Len(s) + 1}
  <2> DEFINE a == Append(s, Picture)
  <2>1. /\ a \in Seq(Commands) /\ Len(a) = Len(s) + 1
        /\ \A i \in 1 .. Len(s) : a[i] = s[i] /\ a[Len(s) + 1] = Picture
        /\ a[Len(s) + 1] = Picture
    BY <1>1, AppendProperties
  <2> HIDE DEF a
  <2>2. DOMAIN a = 1 .. Len(s) + 1
    BY <2>1, LenProperties
  <2>3. \A i : i \in 1 .. Len(s) + 1 <=> i \in 1 .. Len(s) \/ i = Len(s) + 1
    BY <1>1
  <2>4. \A i : i \in picturesIn(a) <=> i \in picturesIn(s) \union {Len(s) + 1}
    BY <1>1, <2>1, <2>2, <2>3 DEF picturesIn
  <2>5. picturesIn(a) = picturesIn(s) \union {Len(s) + 1}
    BY <2>4
  <2> QED BY <2>5 DEF a
<1>3. Len(s) + 1 \notin picturesIn(s)
  BY <1>1 DEF picturesIn
<1>4. ASSUME NEW t \in Seq(Commands), \A i \in DOMAIN t : t[i] # Picture
      PROVE picturesIn(s \o t) = picturesIn(s)
  <2> DEFINE a == s \o t
  <2>1. /\ a \in Seq(Commands) /\ Len(a) = Len(s) + Len(t)
        /\ \A i \in 1 .. Len(s) + Len(t) : a[i] = IF i <= Len(s) THEN s[i] ELSE t[i - Len(s)]
    BY ConcatProperties
  <2>2. Len(t) \in Nat /\ DOMAIN t = 1 .. Len(t)
    BY LenProperties
  <2> HIDE DEF a
  <2>3. DOMAIN a = 1 .. Len(s) + Len(t)
    BY <2>1, LenProperties
  <2>4. \A i \in 1 .. Len(s) + Len(t) : i > Len(s) => a[i] # Picture
    <3> TAKE i \in 1 .. Len(s) + Len(t)
    <3> HAVE i > Len(s)
    <3>1. i - Len(s) \in DOMAIN t /\ ~ i <= Len(s)
      BY <1>1, <2>2
    <3> QED BY <1>4, <2>1, <3>1
  <2>5. \A i \in 1 .. Len(s) : i \in 1 .. Len(s) + Len(t) /\ a[i] = s[i]
    BY <1>1, <2>1, <2>2
  <2>6. \A i \in 1 .. Len(s) + Len(t) : i > Len(s) \/ i \in 1 .. Len(s)
    BY <1>1, <2>2
  <2>7. \A i : i \in picturesIn(a) <=> i \in picturesIn(s)
    BY <1>1, <2>3, <2>4, <2>5, <2>6 DEF picturesIn
  <2>8. picturesIn(a) = picturesIn(s)
    BY <2>7 DEF picturesIn
  <2> QED BY <2>8 DEF a
<1>5. ASSUME s # <<>>
      PROVE  /\ IsFiniteSet(picturesIn(Tail(s)))
             /\ Cardinality(picturesIn(Tail(s))) <= Cardinality(picturesIn(s))
  <2>1. PICK n \in Nat \ {0} : /\ n = Len(s) /\ DOMAIN Tail(s) = 1 .. n - 1
                               /\ \A i \in 1 .. n - 1 : Tail(s)[i] = s[i + 1]
    BY <1>5, OneLess
  <2> DEFINE old == picturesIn(s) \ {1}
  <2>2. IsFiniteSet(old) /\ Cardinality(old) <= Cardinality(picturesIn(s))
    BY FS_Subset
  <2>3. picturesIn(s) \in SUBSET (1 .. n) /\ picturesIn(Tail(s)) \in SUBSET (1 .. n - 1)
    BY <1>1, <2>1 DEF picturesIn
  <2>4. \A i \in 1 .. n - 1 : i + 1 \in 1 .. n /\ i + 1 # 1
    BY <2>1
  <2>5. \A i \in 2 .. n : i - 1 \in 1 .. n - 1 /\ (i - 1) + 1 = i
    BY <2>1
  <2>6. \A i \in old : i - 1 \in picturesIn(Tail(s))
    <3> TAKE i \in old
    <3>1. i \in 2 .. n /\ s[i] = Picture
      BY <2>1, <2>3 DEF picturesIn
    <3> QED BY <2>1, <2>5, <3>1 DEF picturesIn
  <2>7. \A i \in picturesIn(Tail(s)) : i + 1 \in old
    BY <1>1, <2>1, <2>4 DEF picturesIn
  <2>8. old \in SUBSET Int /\ picturesIn(Tail(s)) \in SUBSET Int
    BY <2>3
  <2> DEFINE new == picturesIn(Tail(s))
  <2> HIDE DEF old, new
  <2>9. IsFiniteSet(new) /\ Cardinality(new) = Cardinality(old)
    <3>1. \A i \in new : i + 1 \in old
      BY <2>7 DEF new
    <3>2. \A i \in old : i - 1 \in new
      BY <2>6 DEF new
    <3>3. new \in SUBSET Int
      BY <2>8 DEF new
    <3> DEFINE g == [i \in old |-> i - 1]
    <3>4. g \in [old -> new] /\ \A a, b \in old : g[a] = g[b] => a = b
      BY <2>8, <3>2
    <3>5. \A b \in new : \E a \in old : g[a] = b
      <4> TAKE b \in new
      <4>1. b + 1 \in old /\ b \in Int
        BY <3>1, <3>3
      <4>2. g[b + 1] = b
        BY <4>1
      <4> QED BY <4>1, <4>2
    <3> HIDE DEF g
    <3>6. g \in Bijection(old, new)
      BY <3>4, <3>5 DEF Bijection, Injection, Surjection, IsInjective
    <3>7. ExistsBijection(old, new)
      BY <3>6 DEF ExistsBijection
    <3> QED BY <2>2, <3>7, FS_Bijection
  <2> QED BY <2>2, <2>9 DEF new
<1> QED BY <1>2, <1>3, <1>4, <1>5

\* A queue of such commands is within the limit, and each command's turn comes
\* before its next time.
LEMMA WithinLimit ==
  ASSUME LightLoad, per_cmds \in Seq(Periodic), Len(per_cmds) <= Len(Own) + 1,
         NEW s \in Seq(Commands), KnownIn(s, Elements(per_cmds)), OnceIn(s),
         Cardinality(picturesIn(s)) <= MaxPictures
  PROVE  /\ Len(s) \in Nat /\ Len(s) <= Limit
         /\ \A i \in 1 .. Len(s), c \in Periodic : wait(i) + MaxCost <= Period[c]
<1>1. PICK n, o, p \in Nat : /\ n = Len(s) /\ o = Len(Own) /\ p = Cardinality(picturesIn(s))
                             /\ n <= o + 1 + p
  <2>1. Len(s) \in Nat /\ Len(Own) \in Nat
    <3> HIDE DEF Commands
    <3> QED BY LenProperties, OwnCommands
  <2> QED BY <2>1, QueueLength
<1>2. /\ MaxCost \in Nat /\ MaxPictures \in Nat /\ Limit \in Nat
      /\ \A c \in Periodic : Period[c] \in Nat
  BY CommandTypes
<1>3. PICK m \in Nat : m = Most /\ n <= m /\ m <= Limit
  BY <1>1, <1>2 DEF Most, LightLoad
<1>4. \A c \in Periodic : m * MaxCost <= Period[c]
  BY <1>3 DEF LightLoad, Periodic
<1>5. wait(m) + MaxCost = m * MaxCost
  <2>1. wait(m + 1) = wait(m) + MaxCost
    BY <1>3, Waits
  <2>2. (m + 1) - 1 = m
    BY <1>3
  <2> QED BY <2>1, <2>2 DEF wait
<1>6. \A i \in 1 .. n : i \in Nat /\ wait(i) \in Int /\ wait(i) <= wait(m)
  <2> TAKE i \in 1 .. n
  <2>1. i \in Nat /\ i \in Int /\ i <= m
    BY <1>3
  <2> QED BY <2>1, <1>3, Waits
<1>7. wait(m) \in Int
  BY <1>3, Waits
<1>8. ASSUME NEW i \in 1 .. n, NEW c \in Periodic PROVE wait(i) + MaxCost <= Period[c]
  <2>1. /\ wait(i) \in Int /\ wait(i) <= wait(m) /\ m * MaxCost <= Period[c]
        /\ Period[c] \in Int /\ m * MaxCost \in Int
    BY <1>2, <1>4, <1>6
  <2> QED BY <1>2, <1>5, <1>7, <2>1
<1>9. n \in Nat /\ n <= Limit
  BY <1>1, <1>2, <1>3
<1>10. n = Len(s)
  BY <1>1
<1> QED BY <1>8, <1>9, <1>10

\* What the conjuncts of Waiting say of one place.
LEMMA OfPlaces ==
  ASSUME QueueTypeOK, KnownIn(q, Elements(per_cmds)), InTime(q, left, unset)
  PROVE  /\ Len(q) \in Nat /\ DOMAIN q = 1 .. Len(q)
         /\ Elements(per_cmds) \subseteq Periodic
         /\ \A i \in 1 .. Len(q) : q[i] # Picture =>
              /\ q[i] \in Elements(per_cmds) /\ q[i] \in Periodic /\ q[i] \notin unset
              /\ left[q[i]] \in Int /\ left[q[i]] > wait(i) /\ ~ due(q[i])
<1>1. /\ q \in Seq(Commands) /\ per_cmds \in Seq(Periodic)
      /\ left \in [Periodic -> Int]
  BY DEF QueueTypeOK, Periodic
<1>2. Len(q) \in Nat /\ DOMAIN q = 1 .. Len(q)
  <2> HIDE DEF Commands
  <2> QED BY <1>1, LenProperties
<1>3. Elements(per_cmds) \subseteq Periodic
  BY <1>1, VectorOfCommands
<1>4. ASSUME NEW i \in 1 .. Len(q), q[i] # Picture
      PROVE  /\ q[i] \in Elements(per_cmds) /\ q[i] \in Periodic /\ q[i] \notin unset
             /\ left[q[i]] \in Int /\ left[q[i]] > wait(i) /\ ~ due(q[i])
  <2>1. /\ q[i] \in Elements(per_cmds) /\ q[i] \notin unset /\ left[q[i]] > wait(i)
    BY <1>2, <1>4 DEF KnownIn, InTime
  <2> HIDE DEF Periodic
  <2>2. q[i] \in Periodic /\ left[q[i]] \in Int
    BY <1>1, <1>3, <2>1
  <2>3. i \in Nat \ {0} /\ i \in Int
    BY <1>2
  <2>4. wait(i) \in Int /\ wait(i) >= 0
    BY <2>3, Waits
  <2>5. ~ left[q[i]] <= 0
    BY <2>1, <2>2, <2>4
  <2> QED BY <2>1, <2>2, <2>5 DEF due
<1> QED BY <1>2, <1>3, <1>4

LEMMA GenerateInTime ==
  ASSUME LightLoad, QueueTypeOK, ~ raced, ~ raced', Waiting, Generate PROVE Waiting'
<1> DEFINE E == Elements(per_cmds)
           D == Elements(dueNow)
           s == q \o dueNow
<1>1. /\ q \in Seq(Commands) /\ per_cmds \in Seq(Periodic)
      /\ left \in [Periodic -> Int] /\ unset \subseteq Periodic
  BY DEF QueueTypeOK, Periodic
<1>2. /\ KnownIn(q, E) /\ OnceIn(q) /\ Cardinality(picturesIn(q)) <= MaxPictures
      /\ InTime(q, left, unset) /\ NotLate(E, left, unset, slack)
      /\ Periodic \ E \subseteq unset
      /\ Vector /\ PushBegun /\ Len(per_cmds) <= Len(Own) + 1
      /\ ~ ended
  BY VectorLength DEF Waiting
<1>3. /\ Len(q) \in Nat /\ E \subseteq Periodic
      /\ \A i \in 1 .. Len(q) : q[i] # Picture =>
              /\ q[i] \in E /\ q[i] \in Periodic /\ q[i] \notin unset
              /\ left[q[i]] \in Int /\ left[q[i]] > wait(i) /\ ~ due(q[i])
      /\ \A i \in 1 .. Len(q) : q[i] \in E \union {Picture}
  <2>1. DOMAIN q = 1 .. Len(q)
    BY <1>2, OfPlaces
  <2> QED BY <1>2, <2>1, OfPlaces DEF KnownIn
<1>4. /\ dueNow \in Seq(Commands) /\ D \subseteq E /\ D \in SUBSET Periodic
  BY <1>1, PushedTypes
<1>5. /\ DOMAIN dueNow = 1 .. Len(dueNow) /\ Len(dueNow) \in Nat
      /\ \A k \in 1 .. Len(dueNow) : dueNow[k] \in E /\ due(dueNow[k]) /\ dueNow[k] \in D
      /\ \A i, j \in 1 .. Len(dueNow) : dueNow[i] = dueNow[j] => i = j
      /\ \A c \in E : due(c) => c \in D
      /\ \A c \in D : due(c)
  <2>1. /\ DOMAIN dueNow = 1 .. Len(dueNow) /\ Len(dueNow) \in Nat
        /\ \A k \in DOMAIN dueNow : dueNow[k] \in E /\ due(dueNow[k])
        /\ Distinct(dueNow)
        /\ \A c \in E : due(c) => \E k \in DOMAIN dueNow : dueNow[k] = c
    BY <1>1, <1>2, DueNow DEF Vector
  <2>2. \A c : c \in D <=> \E k \in DOMAIN dueNow : dueNow[k] = c
    BY DEF Elements
  <2> HIDE DEF D, E
  <2> QED BY <2>1, <2>2 DEF Distinct
<1>6. Picture \notin Periodic /\ Late \in Periodic /\ MaxCost \in Nat /\ MaxPictures \in Nat
      /\ Period \in [Periodic -> Nat \ {0}]
  BY CommandTypes
<1>7. /\ s \in Seq(Commands) /\ Len(s) = Len(q) + Len(dueNow)
      /\ \A i \in 1 .. Len(q) + Len(dueNow) : s[i] = IF i <= Len(q) THEN q[i] ELSE dueNow[i - Len(q)]
  <2> HIDE DEF Commands
  <2> QED BY <1>1, <1>4, ConcatProperties
<1>8. DOMAIN s = 1 .. Len(s)
  <2> HIDE DEF Commands, s
  <2> QED BY <1>7, LenProperties
<1>9. /\ q' = s /\ left' = advanced(D) /\ unset' = unset \ D /\ turn' = "take"
      /\ per_cmds' = per_cmds /\ ended' = ended
      /\ own' = own /\ cncTurn' = cncTurn /\ tail' = tail
  BY DEF Generate
<1>10. \A c \in Periodic :
         /\ advanced(D)[c] = IF c \in D THEN left[c] + Period[c] ELSE left[c]
         /\ left[c] \in Int /\ Period[c] \in Nat /\ Period[c] >= 1
  <2>1. D \in SUBSET Periodic /\ left \in [Periodic -> Int] /\ Period \in [Periodic -> Nat \ {0}]
    BY <1>1, <1>4, <1>6
  <2>2. \A c \in Periodic :
          advanced(D)[c] = IF c \in D THEN left[c] + Period[c] ELSE left[c]
    BY <2>1, TimeTypes
  <2> HIDE DEF Periodic, D
  <2>3. \A c \in Periodic : left[c] \in Int /\ Period[c] \in Nat /\ Period[c] >= 1
    BY <2>1
  <2> QED BY <2>2, <2>3
\* Each place holds what was there or a command that was due.
<1>11. ASSUME NEW i \in 1 .. Len(s)
       PROVE  \/ i \in 1 .. Len(q) /\ s[i] = q[i]
              \/ /\ i > Len(q) /\ i - Len(q) \in 1 .. Len(dueNow)
                 /\ s[i] = dueNow[i - Len(q)]
  <2> HIDE DEF s
  <2>1. i \in 1 .. Len(q) + Len(dueNow)
    BY <1>7
  <2>2. s[i] = IF i <= Len(q) THEN q[i] ELSE dueNow[i - Len(q)]
    BY <1>7, <2>1
  <2>3. CASE i <= Len(q)
    BY <1>3, <2>1, <2>2, <2>3
  <2>4. CASE ~ i <= Len(q)
    BY <1>3, <1>5, <2>1, <2>2, <2>4
  <2> QED BY <2>3, <2>4
<1> HIDE DEF s, D, E, Periodic, Commands
<1>12. KnownIn(s, E)
  <2>1. ASSUME NEW i \in 1 .. Len(s) PROVE s[i] \in E \union {Picture}
    BY <1>3, <1>5, <1>11
  <2> QED BY <1>8, <2>1 DEF KnownIn
<1>13. OnceIn(s)
  <2>1. ASSUME NEW i \in 1 .. Len(s), NEW j \in 1 .. Len(s), s[i] = s[j], s[i] # Picture
        PROVE i = j
    <3>1. CASE i \in 1 .. Len(q) /\ j \in 1 .. Len(q) /\ s[i] = q[i] /\ s[j] = q[j]
      <4>1. DOMAIN q = 1 .. Len(q)
        BY <1>1, LenProperties
      <4> QED BY <1>2, <2>1, <3>1, <4>1 DEF OnceIn
    <3>2. CASE i \in 1 .. Len(q) /\ s[i] = q[i]
               /\ j - Len(q) \in 1 .. Len(dueNow) /\ s[j] = dueNow[j - Len(q)]
      BY <1>3, <1>5, <2>1, <3>2
    <3>3. CASE j \in 1 .. Len(q) /\ s[j] = q[j]
               /\ i - Len(q) \in 1 .. Len(dueNow) /\ s[i] = dueNow[i - Len(q)]
      BY <1>3, <1>5, <2>1, <3>3
    <3>4. CASE i - Len(q) \in 1 .. Len(dueNow) /\ s[i] = dueNow[i - Len(q)]
               /\ j - Len(q) \in 1 .. Len(dueNow) /\ s[j] = dueNow[j - Len(q)]
      <4>1. i - Len(q) = j - Len(q)
        BY <1>5, <2>1, <3>4
      <4>2. i \in Int /\ j \in Int /\ Len(q) \in Int
        BY <1>3
      <4> QED BY <4>1, <4>2
    <3> QED BY <1>11, <3>1, <3>2, <3>3, <3>4
  <2> QED BY <1>8, <2>1 DEF OnceIn
<1>14. IsFiniteSet(picturesIn(q)) /\ Cardinality(picturesIn(q)) \in Nat
  BY <1>1, <1>2, QueueLength DEF E
<1>15. picturesIn(s) = picturesIn(q)
  <2>1. \A i \in DOMAIN dueNow : dueNow[i] # Picture
    BY <1>3, <1>5, <1>6
  <2> QED BY <1>1, <1>4, <1>14, <2>1, PicturesAfter DEF s
<1>16. /\ Len(s) \in Nat
       /\ \A i \in 1 .. Len(s), c \in Periodic : wait(i) + MaxCost <= Period[c]
  <2>1. Cardinality(picturesIn(s)) <= MaxPictures
    BY <1>1, <1>2, <1>6, <1>14, <1>15
  <2> QED BY <1>1, <1>2, <1>7, <1>12, <1>13, <2>1, WithinLimit DEF E
<1>17. \A c \in E : left[c] >= 0 - MaxCost + 1 \/ (c \in unset /\ left[c] = 0)
  <2>1. slack \in Int /\ slack >= 0 - MaxCost + 1
    <3>1. slack = 1 \/ slack = 1 - MaxCost
      BY DEF slack
    <3> QED BY <1>6, <3>1
  <2>2. ASSUME NEW c \in E PROVE left[c] >= 0 - MaxCost + 1 \/ (c \in unset /\ left[c] = 0)
    <3>1. CASE c \in unset
      BY <1>2, <3>1 DEF NotLate
    <3>2. CASE c \notin unset
      <4>1. left[c] >= slack /\ left[c] \in Int
        BY <1>2, <1>3, <1>10, <3>2 DEF NotLate
      <4>2. left[c] >= 0 - MaxCost + 1
        BY <1>6, <2>1, <4>1
      <4> QED BY <4>2
    <3> QED BY <3>1, <3>2
  <2> QED BY <2>2
<1>18. ASSUME NEW i \in 1 .. Len(s), s[i] # Picture
       PROVE s[i] \notin unset \ D /\ advanced(D)[s[i]] > wait(i)
  <2>0. i \in Int /\ wait(i) \in Int /\ wait(i) >= 0
    <3>1. i \in Int /\ i \in Nat \ {0}
      OBVIOUS
    <3> QED BY <3>1, Waits
  <2>1. CASE i \in 1 .. Len(q) /\ s[i] = q[i]
    <3>1. /\ q[i] \in Periodic /\ q[i] \notin unset /\ left[q[i]] > wait(i) /\ ~ due(q[i])
      BY <1>3, <1>18, <2>1
    <3>2. q[i] \notin D
      BY <1>5, <3>1
    <3>3. advanced(D)[q[i]] = left[q[i]]
      BY <1>10, <3>1, <3>2
    <3> QED BY <2>1, <3>1, <3>3
  <2>2. CASE i - Len(q) \in 1 .. Len(dueNow) /\ s[i] = dueNow[i - Len(q)]
    <3>1. s[i] \in D /\ s[i] \in E /\ s[i] \in Periodic
      BY <1>3, <1>5, <2>2
    <3>2. /\ advanced(D)[s[i]] = left[s[i]] + Period[s[i]]
          /\ left[s[i]] \in Int /\ Period[s[i]] \in Nat /\ Period[s[i]] >= 1
          /\ wait(i) + MaxCost <= Period[s[i]]
      BY <1>10, <1>16, <3>1
    <3>3. left[s[i]] >= 0 - MaxCost + 1 \/ left[s[i]] = 0
      BY <1>17, <3>1
    <3>4. left[s[i]] + Period[s[i]] > wait(i)
      <4> DEFINE l == left[s[i]]
                 p == Period[s[i]]
                 w == wait(i)
      <4>1. l \in Int /\ p \in Nat /\ w \in Int /\ w + MaxCost <= p /\ MaxCost \in Nat
            /\ (l >= 0 - MaxCost + 1 \/ l = 0) /\ p >= 1
        BY <1>6, <2>0, <3>2, <3>3
      <4> HIDE DEF l, p, w
      <4>2. CASE l >= 0 - MaxCost + 1
        <5>1. l + p > w
          BY <4>1, <4>2
        <5> QED BY <5>1 DEF l, p, w
      <4>3. CASE l = 0 /\ MaxCost > 0
        <5>1. l + p > w
          BY <4>1, <4>3
        <5> QED BY <5>1 DEF l, p, w
      <4>4. CASE MaxCost = 0
        <5>1. w = 0
          <6>1. \A x \in Int : x * 0 = 0
            OBVIOUS
          <6>2. i - 1 \in Int
            BY <2>0
          <6> QED BY <4>4, <6>1, <6>2 DEF w, wait
        <5>2. l >= 0
          BY <4>1, <4>4
        <5>3. l + p > w
          BY <4>1, <5>1, <5>2
        <5> QED BY <5>3 DEF l, p, w
      <4>5. MaxCost = 0 \/ MaxCost > 0
        BY <1>6
      <4> QED BY <4>1, <4>2, <4>3, <4>4, <4>5
    <3> QED BY <3>1, <3>2, <3>4
  <2> QED BY <1>11, <2>1, <2>2
<1>19. InTime(s, advanced(D), unset \ D)
  BY <1>8, <1>18 DEF InTime
<1>20. ASSUME NEW c \in E, c \notin unset \ D PROVE advanced(D)[c] >= 1
  <2>1. /\ c \in Periodic /\ left[c] \in Int /\ Period[c] \in Nat /\ Period[c] >= 1
        /\ advanced(D)[c] = IF c \in D THEN left[c] + Period[c] ELSE left[c]
    BY <1>3, <1>10
  <2>2. CASE c \notin D
    <3>1. ~ due(c)
      BY <1>5, <2>2
    <3>2. ~ left[c] <= 0
      BY <3>1 DEF due
    <3> QED BY <2>1, <2>2, <3>2
  <2>3. CASE c \in D
    <3>1. MaxCost <= Period[c]
      <4>1. PICK k \in 1 .. Len(dueNow) : dueNow[k] = c
        BY <1>5, <2>3 DEF D, Elements
      <4>2. 1 \in 1 .. Len(s)
        BY <1>3, <1>5, <1>7, <4>1
      <4>3. wait(1) + MaxCost <= Period[c]
        BY <1>16, <2>1, <4>2
      <4>4. wait(1) = 0
        BY <1>6 DEF wait
      <4> QED BY <1>6, <4>3, <4>4
    <3>2. left[c] >= 0 - MaxCost + 1 \/ left[c] = 0
      BY <1>17
    <3>3. left[c] + Period[c] >= 1
      BY <1>6, <2>1, <3>1, <3>2
    <3> QED BY <2>1, <2>3, <3>3
  <2> QED BY <2>2, <2>3
<1>21. ASSUME NEW c \in unset \ D PROVE advanced(D)[c] = 0
  <2>1. c \in Periodic /\ left[c] = 0
    BY <1>1, <1>2 DEF NotLate
  <2> QED BY <1>10, <2>1
<1>22. NotLate(E, advanced(D), unset \ D, 1)
  BY <1>20, <1>21 DEF NotLate
<1>23. Periodic \ E \subseteq unset \ D
  BY <1>2, <1>4
<1>24. slack' = 1
  BY <1>9 DEF slack
<1>25. Elements(per_cmds)' = E /\ Vector'
  BY <1>2, <1>9 DEF E, Elements, Vector, Distinct
<1>26. PushBegun'
  <2> SUFFICES ASSUME cncTurn = "push" PROVE tail = Len(s) /\ Cardinality(picturesIn(s)) < MaxPictures
    BY <1>9 DEF PushBegun, picturesIn
  <2>1. dueNow = <<>>
    BY DEF Generate
  <2>2. s = q
    BY <1>1, <2>1, ConcatEmptySeq DEF s
  <2> QED BY <1>2, <2>2 DEF PushBegun
<1> QED BY <1>2, <1>9, <1>12, <1>13, <1>15, <1>19, <1>22, <1>23, <1>24, <1>25, <1>26 DEF Waiting

LEMMA RunInTime ==
  ASSUME QueueTypeOK, ~ raced, ~ raced', Waiting, NEW t \in 0 .. MaxCost, Run(t)
  PROVE  Waiting'
<1> DEFINE E == Elements(per_cmds)
<1>1. /\ q \in Seq(Commands) /\ per_cmds \in Seq(Periodic)
      /\ left \in [Periodic -> Int] /\ unset \subseteq Periodic
  BY DEF QueueTypeOK, Periodic
<1>2. /\ KnownIn(q, E) /\ OnceIn(q) /\ Cardinality(picturesIn(q)) <= MaxPictures
      /\ InTime(q, left, unset) /\ NotLate(E, left, unset, slack)
      /\ Periodic \ E \subseteq unset
      /\ Vector /\ PushBegun /\ Len(per_cmds) <= Len(Own) + 1
      /\ ~ ended
  BY VectorLength DEF Waiting
<1>3. /\ E \subseteq Periodic
      /\ \A i \in 1 .. Len(q) : q[i] # Picture =>
              /\ q[i] \in E /\ q[i] \in Periodic /\ q[i] \notin unset
              /\ left[q[i]] \in Int /\ left[q[i]] > wait(i)
  BY <1>2, OfPlaces
<1>4. /\ q # <<>> /\ q' = Tail(q) /\ left' = later(t) /\ turn = "take" /\ turn' = "generate"
      /\ per_cmds' = per_cmds /\ unset' = unset /\ ended' = ended
      /\ own' = own /\ cncTurn' = cncTurn /\ cncTurn # "push"
  BY DEF Run
<1>5. PICK n \in Nat \ {0} :
        /\ n = Len(q) /\ DOMAIN q = 1 .. n /\ DOMAIN Tail(q) = 1 .. n - 1
        /\ Tail(q) \in Seq(Commands)
        /\ \A i \in 1 .. n - 1 : Tail(q)[i] = q[i + 1]
  <2> HIDE DEF Commands
  <2> QED BY <1>1, <1>4, OneLess
<1>6. \A i \in 1 .. n - 1 : i + 1 \in 1 .. n /\ i \in Int /\ i + 1 # 1
  BY <1>5
<1>7. t \in Int /\ t <= MaxCost /\ 0 <= t /\ MaxCost \in Nat
  BY CommandTypes
<1>8. \A c \in Periodic :
        /\ left[c] \in Int
        /\ later(t)[c] = IF c \in unset THEN left[c] ELSE left[c] - t
  <2>1. \A c \in Periodic : later(t)[c] = IF c \in unset THEN left[c] ELSE left[c] - t
    BY <1>1, <1>7, TimeTypes
  <2> HIDE DEF Periodic
  <2> QED BY <1>1, <2>1
<1> HIDE DEF E, Periodic, Commands
<1>9. KnownIn(Tail(q), E)
  BY <1>2, <1>5, <1>6 DEF KnownIn
<1>10. OnceIn(Tail(q))
  <2>1. ASSUME NEW i \in 1 .. n - 1, NEW j \in 1 .. n - 1,
               Tail(q)[i] = Tail(q)[j], Tail(q)[i] # Picture
        PROVE i = j
    <3>1. q[i + 1] = q[j + 1] /\ q[i + 1] # Picture /\ i + 1 \in DOMAIN q /\ j + 1 \in DOMAIN q
      BY <1>5, <1>6, <2>1
    <3>2. i + 1 = j + 1
      BY <1>2, <3>1 DEF OnceIn
    <3> QED BY <1>6, <3>2
  <2> QED BY <1>5, <2>1 DEF OnceIn
<1>11. Cardinality(picturesIn(Tail(q))) <= MaxPictures
  <2>1. IsFiniteSet(picturesIn(q)) /\ Cardinality(picturesIn(q)) \in Nat
    BY <1>1, <1>2, QueueLength DEF E
  <2>2. IsFiniteSet(picturesIn(Tail(q)))
        /\ Cardinality(picturesIn(Tail(q))) <= Cardinality(picturesIn(q))
    BY <1>1, <1>4, <2>1, PicturesAfter
  <2>3. Cardinality(picturesIn(Tail(q))) \in Nat
    BY <2>2, FS_CardinalityType
  <2>4. MaxPictures \in Int
    BY CommandTypes
  <2> QED BY <1>2, <2>1, <2>2, <2>3, <2>4
<1>12. ASSUME NEW i \in 1 .. n - 1, Tail(q)[i] # Picture
       PROVE Tail(q)[i] \notin unset /\ later(t)[Tail(q)[i]] > wait(i)
  <2> DEFINE c == q[i + 1]
  <2>1. Tail(q)[i] = c /\ i + 1 \in 1 .. Len(q) /\ c # Picture
    BY <1>5, <1>6, <1>12
  <2>2. c \in Periodic /\ c \notin unset /\ left[c] \in Int /\ left[c] > wait(i + 1)
    BY <1>3, <2>1
  <2>3. wait(i) \in Int /\ wait(i + 1) = wait(i) + MaxCost
    BY <1>6, Waits
  <2>4. later(t)[c] = left[c] - t
    BY <1>8, <2>2
  <2> HIDE DEF c
  <2>5. later(t)[c] > wait(i)
    BY <1>7, <2>2, <2>3, <2>4
  <2> QED BY <2>1, <2>2, <2>5
<1>13. InTime(Tail(q), later(t), unset)
  BY <1>5, <1>12 DEF InTime
<1>14. NotLate(E, later(t), unset, 1 - MaxCost)
  <2>1. slack = 1
    BY <1>4 DEF slack
  <2>2. ASSUME NEW c \in E \ unset PROVE later(t)[c] >= 1 - MaxCost
    <3>1. c \in Periodic /\ left[c] >= 1 /\ later(t)[c] = left[c] - t /\ left[c] \in Int
      BY <1>2, <1>3, <1>8, <2>1, <2>2 DEF NotLate
    <3> QED BY <1>7, <3>1
  <2>3. \A c \in unset : later(t)[c] = 0
    BY <1>1, <1>2, <1>8 DEF NotLate
  <2> QED BY <2>2, <2>3 DEF NotLate
<1>15. slack' = 1 - MaxCost
  BY <1>4 DEF slack
<1>16. Elements(per_cmds)' = E /\ Vector' /\ PushBegun'
  BY <1>2, <1>4 DEF E, Elements, Vector, Distinct, PushBegun
<1> QED BY <1>2, <1>4, <1>9, <1>10, <1>11, <1>13, <1>14, <1>15, <1>16 DEF Waiting

LEMMA SleepInTime ==
  ASSUME QueueTypeOK, ~ raced, Waiting, NEW t \in 0 .. MaxCost, Sleep(t)
  PROVE  Waiting'
<1> DEFINE E == Elements(per_cmds)
<1>1. left \in [Periodic -> Int] /\ unset \subseteq Periodic
      /\ per_cmds \in Seq(Periodic)
  BY DEF QueueTypeOK, Periodic
<1>2. /\ KnownIn(q, E) /\ OnceIn(q) /\ Cardinality(picturesIn(q)) <= MaxPictures
      /\ NotLate(E, left, unset, slack)
      /\ Periodic \ E \subseteq unset
      /\ Vector /\ PushBegun /\ Len(per_cmds) <= Len(Own) + 1
      /\ ~ ended
  BY VectorLength DEF Waiting
<1>3. /\ q = <<>> /\ q' = q /\ left' = later(t) /\ turn = "take" /\ turn' = "generate"
      /\ per_cmds' = per_cmds /\ unset' = unset /\ ended' = ended
      /\ own' = own /\ cncTurn' = cncTurn /\ tail' = tail
  BY DEF Sleep
<1>4. InTime(q, later(t), unset)
  <2>1. DOMAIN q = {}
    BY <1>3
  <2> QED BY <2>1 DEF InTime
<1>5. t \in Int /\ t <= MaxCost /\ 0 <= t /\ MaxCost \in Nat
  BY CommandTypes
<1>6. \A c \in Periodic :
        /\ left[c] \in Int
        /\ later(t)[c] = IF c \in unset THEN left[c] ELSE left[c] - t
  <2>1. \A c \in Periodic : later(t)[c] = IF c \in unset THEN left[c] ELSE left[c] - t
    BY <1>1, <1>5, TimeTypes
  <2> HIDE DEF Periodic
  <2> QED BY <1>1, <2>1
<1>7. E \subseteq Periodic
  BY <1>1, VectorOfCommands
<1> HIDE DEF E, Periodic
<1>8. NotLate(E, later(t), unset, 1 - MaxCost)
  <2>1. slack = 1
    BY <1>3 DEF slack
  <2>2. ASSUME NEW c \in E \ unset PROVE later(t)[c] >= 1 - MaxCost
    <3>1. c \in Periodic /\ left[c] >= 1 /\ later(t)[c] = left[c] - t /\ left[c] \in Int
      BY <1>2, <1>6, <1>7, <2>1, <2>2 DEF NotLate
    <3> QED BY <1>5, <3>1
  <2>3. \A c \in unset : later(t)[c] = 0
    BY <1>1, <1>2, <1>6 DEF NotLate
  <2> QED BY <2>2, <2>3 DEF NotLate
<1>9. slack' = 1 - MaxCost
  BY <1>3 DEF slack
<1>10. Elements(per_cmds)' = E /\ Vector' /\ PushBegun'
  BY <1>2, <1>3 DEF E, Elements, Vector, Distinct, PushBegun, picturesIn
<1> QED BY <1>2, <1>3, <1>4, <1>8, <1>9, <1>10 DEF Waiting

\* A command that is added has not been due yet.
LEMMA AddInTime ==
  ASSUME QueueTypeOK, ~ raced, Waiting, NEW c \in Periodic, c \notin Elements(per_cmds),
         per_cmds' = Append(per_cmds, c), Vector', PushBegun',
         q' = q, left' = left, unset' = unset, slack' = slack, ended' = ended
  PROVE  Waiting'
<1> DEFINE E == Elements(per_cmds)
<1>1. /\ per_cmds \in Seq(Periodic)
      /\ KnownIn(q, E) /\ OnceIn(q) /\ Cardinality(picturesIn(q)) <= MaxPictures
      /\ InTime(q, left, unset) /\ NotLate(E, left, unset, slack)
      /\ Periodic \ E \subseteq unset
      /\ ~ ended
  BY DEF Waiting, QueueTypeOK
<1>2. Elements(per_cmds') = E \union {c}
  BY <1>1, Added
<1>3. c \in unset
  BY <1>1
<1> HIDE DEF E, Periodic
<1>4. KnownIn(q, E \union {c})
  BY <1>1 DEF KnownIn
<1>5. NotLate(E \union {c}, left, unset, slack)
  BY <1>1, <1>3 DEF NotLate
<1>6. Elements(per_cmds)' = E \union {c}
  BY <1>2 DEF Elements
<1>7. Periodic \ (E \union {c}) \subseteq unset
  BY <1>1
<1> QED BY <1>1, <1>4, <1>5, <1>6, <1>7 DEF Waiting

LEMMA AddPeriodicInTime ==
  ASSUME QueueTypeOK, ~ raced, Waiting, AddPeriodic PROVE Waiting'
<1>1. /\ per_cmds \in Seq(Periodic) /\ Vector /\ Late \in Periodic
      /\ own \in 0 .. Len(Own) /\ Len(Own) \in Nat
  BY CommandTypes, OwnCommands DEF Waiting, QueueTypeOK
<1>2. /\ cncTurn = "add" /\ per_cmds' = Append(per_cmds, Late)
      /\ q' = q /\ left' = left /\ unset' = unset /\ turn' = turn
      /\ ended' = ended /\ own' = own /\ cncTurn' = "idle"
  BY DEF AddPeriodic
<1>3. Late \notin Elements(per_cmds)
  <2>1. \A i \in 1 .. own : i \in 1 .. Len(Own)
    BY <1>1
  <2> QED BY <1>1, <1>2, <2>1, OwnCommands DEF Vector
<1>4. Vector'
  <2>1. /\ Len(per_cmds') = own + 1 /\ Elements(per_cmds') = Elements(per_cmds) \union {Late}
        /\ Distinct(per_cmds')
    BY <1>1, <1>2, <1>3, Added DEF Vector
  <2>2. Elements(per_cmds)' = Elements(per_cmds')
    BY DEF Elements
  <2>3. Distinct(per_cmds)'
    BY <2>1 DEF Distinct
  <2>4. \A c \in Elements(per_cmds') : (\E i \in 1 .. own : c = Own[i]) \/ c = Late
    BY <1>1, <2>1 DEF Vector
  <2> QED BY <1>2, <2>1, <2>2, <2>3, <2>4 DEF Vector
<1>5. PushBegun' /\ slack' = slack
  BY <1>2 DEF PushBegun, slack
<1> QED BY <1>1, <1>2, <1>3, <1>4, <1>5, AddInTime

LEMMA AddOwnInTime ==
  ASSUME QueueTypeOK, ~ raced, Waiting, AddOwn PROVE Waiting'
<1>1. /\ per_cmds \in Seq(Periodic) /\ Vector
      /\ own \in 0 .. Len(Own) /\ own < Len(Own) /\ Len(Own) \in Nat
  BY OwnCommands DEF Waiting, QueueTypeOK, AddOwn
<1>2. /\ turn = "start" /\ per_cmds' = Append(per_cmds, Own[own + 1])
      /\ turn' \in {"start", "take"}
      /\ q' = q /\ left' = left /\ unset' = unset
      /\ ended' = ended /\ own' = own + 1 /\ cncTurn' = cncTurn /\ tail' = tail
  BY DEF AddOwn
<1>3. PICK n \in Nat : n = own
  BY <1>1
<1>4. /\ n + 1 \in 1 .. Len(Own) /\ \A i \in 1 .. n : i \in 1 .. Len(Own) /\ i # n + 1
      /\ \A i : i \in 1 .. n + 1 <=> i \in 1 .. n \/ i = n + 1
  BY <1>1, <1>3
<1>5. PICK c \in Periodic : c = Own[n + 1] /\ c # Late
  BY <1>4, OwnCommands
<1>6. c \notin Elements(per_cmds)
  <2>1. \A i \in 1 .. n : Own[i] # c
    BY <1>4, <1>5, OwnCommands
  <2> QED BY <1>1, <1>3, <1>5, <2>1 DEF Vector
<1>7. per_cmds' = Append(per_cmds, c)
  BY <1>2, <1>3, <1>5
<1>8. Vector'
  <2>1. /\ Len(per_cmds') = Len(per_cmds) + 1 /\ Elements(per_cmds') = Elements(per_cmds) \union {c}
        /\ Distinct(per_cmds')
    BY <1>1, <1>6, <1>7, Added DEF Vector
  <2>2. Elements(per_cmds)' = Elements(per_cmds')
    BY DEF Elements
  <2>3. Distinct(per_cmds)'
    BY <2>1 DEF Distinct
  <2>4. \A d \in Elements(per_cmds') :
          (\E i \in 1 .. n + 1 : d = Own[i]) \/ (d = Late /\ cncTurn # "add")
    BY <1>1, <1>3, <1>4, <1>5, <2>1 DEF Vector
  <2>5. Len(per_cmds') = (n + 1) + (IF cncTurn = "add" THEN 0 ELSE 1)
    <3>1. Len(per_cmds) = n + (IF cncTurn = "add" THEN 0 ELSE 1)
      BY <1>1, <1>3 DEF Vector
    <3> QED BY <2>1, <3>1
  <2> QED BY <1>2, <1>3, <2>2, <2>3, <2>4, <2>5 DEF Vector
<1>9. PushBegun' /\ slack' = slack
  BY <1>2 DEF PushBegun, slack, Waiting, picturesIn
<1> QED BY <1>2, <1>5, <1>6, <1>7, <1>8, <1>9, AddInTime

LEMMA PushReadInTime ==
  ASSUME QueueTypeOK, ~ raced, Waiting, PushRead PROVE Waiting'
<1>1. /\ q' = q /\ per_cmds' = per_cmds /\ left' = left /\ unset' = unset
      /\ turn' = turn /\ own' = own /\ ended' = ended
      /\ cncTurn = "idle" /\ cncTurn' = "push" /\ tail' = Len(q)
  BY DEF PushRead
<1>2. Cardinality(picturesIn(q)) < MaxPictures
  BY DEF PushRead, occurrences, picturesIn
<1>3. Elements(per_cmds)' = Elements(per_cmds) /\ slack' = slack
  BY <1>1 DEF Elements, slack
<1>4. Vector'
  BY <1>1, <1>3 DEF Waiting, Vector, Distinct
<1>5. PushBegun'
  BY <1>1, <1>2 DEF PushBegun, picturesIn
<1> QED BY <1>1, <1>3, <1>4, <1>5 DEF Waiting

LEMMA PushWriteInTime ==
  ASSUME QueueTypeOK, ~ raced, Waiting, PushWrite PROVE Waiting'
<1> DEFINE E == Elements(per_cmds)
           s == Append(q, Picture)
<1>1. /\ q \in Seq(Commands) /\ per_cmds \in Seq(Periodic)
  BY DEF QueueTypeOK
<1>2. /\ KnownIn(q, E) /\ OnceIn(q) /\ Cardinality(picturesIn(q)) <= MaxPictures
      /\ InTime(q, left, unset) /\ NotLate(E, left, unset, slack)
      /\ Periodic \ E \subseteq unset
      /\ Vector /\ PushBegun /\ Len(per_cmds) <= Len(Own) + 1
      /\ ~ ended
  BY VectorLength DEF Waiting
<1>4. PICK n \in Nat : /\ n = Len(q) /\ DOMAIN q = 1 .. n
                       /\ s \in Seq(Commands) /\ Len(s) = n + 1
                       /\ \A i \in 1 .. n : s[i] = q[i]
                       /\ s[n + 1] = Picture
  <2>1. Picture \in Commands
    BY CommandTypes
  <2> HIDE DEF Commands
  <2> QED BY <1>1, <2>1, LenProperties, AppendProperties
<1>3. /\ q' = s /\ cncTurn = "push" /\ cncTurn' = "idle" /\ own' = own
      /\ per_cmds' = per_cmds /\ left' = left /\ unset' = unset /\ turn' = turn
      /\ ~ ended'
  <2>1. tail = n /\ tail + 1 >= 0 /\ ~ tail + 1 < 0
    BY <1>2, <1>4 DEF PushBegun, PushWrite
  <2>2. pushed = s
    <3>1. DOMAIN s = 1 .. n + 1
      <4> HIDE DEF s, Commands
      <4> QED BY <1>4, LenProperties
    <3>2. pushed = [i \in 1 .. n + 1 |-> IF i <= n THEN q[i] ELSE Picture]
      BY <2>1 DEF pushed
    <3>3. \A i \in 1 .. n + 1 : s[i] = IF i <= n THEN q[i] ELSE Picture
      BY <1>4
    <3>4. s = [i \in 1 .. n + 1 |-> s[i]]
      <4> HIDE DEF s, Commands
      <4> QED BY <1>4, <3>1
    <3> HIDE DEF s
    <3>5. pushed = [i \in 1 .. n + 1 |-> s[i]]
      BY <3>2, <3>3
    <3> QED BY <3>4, <3>5
  <2> HIDE DEF s
  <2>3. q' = s /\ ~ ended'
    <3>1. q' = pushed
      BY <2>1 DEF PushWrite
    <3>2. ended' = (tail + 1 < 0)
      BY DEF PushWrite
    <3>3. ~ ended'
      BY <2>1, <3>2, Zenon
    <3> QED BY <2>2, <3>1, <3>3
  <2> QED BY <2>3 DEF PushWrite
<1>5. IsFiniteSet(picturesIn(q)) /\ Cardinality(picturesIn(q)) \in Nat
  BY <1>1, <1>2, QueueLength
<1>6. Cardinality(picturesIn(s)) <= MaxPictures
  <2>1. picturesIn(s) = picturesIn(q) \union {n + 1} /\ n + 1 \notin picturesIn(q)
    BY <1>1, <1>4, <1>5, PicturesAfter
  <2>2. Cardinality(picturesIn(s)) = Cardinality(picturesIn(q)) + 1
    BY <1>5, <2>1, FS_AddElement
  <2>3. Cardinality(picturesIn(q)) < MaxPictures /\ MaxPictures \in Nat
    BY <1>2, <1>3, CommandTypes DEF PushBegun
  <2> QED BY <1>5, <2>2, <2>3
<1> HIDE DEF s, E, Commands
<1>7. DOMAIN s = 1 .. n + 1
  BY <1>4, LenProperties
<1>8. \A i \in 1 .. n + 1 : (i \in 1 .. n /\ s[i] = q[i]) \/ s[i] = Picture
  BY <1>4
<1>9. KnownIn(s, E)
  BY <1>2, <1>4, <1>7, <1>8 DEF KnownIn
<1>10. OnceIn(s)
  BY <1>2, <1>4, <1>7, <1>8 DEF OnceIn
<1>11. InTime(s, left, unset)
  BY <1>2, <1>4, <1>7, <1>8 DEF InTime
<1>12. slack' = slack
  BY <1>3 DEF slack
<1>13. Elements(per_cmds)' = E /\ Vector' /\ PushBegun'
  BY <1>2, <1>3 DEF E, Elements, Vector, Distinct, PushBegun
<1> QED BY <1>2, <1>3, <1>6, <1>9, <1>10, <1>11, <1>12, <1>13 DEF Waiting

LEMMA WaitingStep ==
  ASSUME LightLoad, QueueTypeOK, Waiting, [QueueNext]_queueVars PROVE Waiting'
<1>1. CASE raced'
  BY <1>1 DEF Waiting
<1>2. CASE ~ raced'
  <2>0. ~ raced
    BY <1>2 DEF QueueNext, QueueThread, CommandThread, Both, AddOwn, Overflow, Run, Sleep, Generate,
         AddPeriodic, PushRead, PushWrite, AddWhileAdding, GenerateWhileAdding,
         GenerateWhilePushing, MeetInQueue, queueVars
  <2>1. ~ Overflow
    <3>1. per_cmds \in Seq(Periodic) /\ q \in Seq(Commands) /\ Len(per_cmds) <= Len(Own) + 1
      BY <2>0, VectorLength DEF QueueTypeOK, Waiting
    <3>2. /\ KnownIn(q, Elements(per_cmds)) /\ OnceIn(q)
          /\ Cardinality(picturesIn(q)) <= MaxPictures
      BY <2>0 DEF Waiting
    <3>3. Len(q) \in Nat /\ Len(q) <= Limit
      BY <3>1, <3>2, WithinLimit
    <3> QED BY <3>3, CommandTypes DEF Overflow
  <2>2. ASSUME NEW t \in 0 .. MaxCost, Run(t) PROVE Waiting'
    BY <1>2, <2>0, <2>2, RunInTime
  <2>3. ASSUME NEW t \in 0 .. MaxCost, Sleep(t) PROVE Waiting'
    BY <2>0, <2>3, SleepInTime
  <2>4. CASE Generate
    BY <1>2, <2>0, <2>4, GenerateInTime
  <2>5. CASE AddOwn \/ AddPeriodic
    BY <2>0, <2>5, AddOwnInTime, AddPeriodicInTime
  <2>6. CASE PushRead \/ PushWrite
    BY <2>0, <2>6, PushReadInTime, PushWriteInTime
  <2>7. ~ Both
    BY <1>2 DEF Both, AddWhileAdding, GenerateWhileAdding, GenerateWhilePushing, MeetInQueue
  <2>8. CASE UNCHANGED queueVars
    BY <2>8 DEF queueVars, Waiting, Vector, PushBegun, Distinct, KnownIn, OnceIn, InTime,
                NotLate, Elements, picturesIn, slack
  <2> QED BY <2>1, <2>2, <2>3, <2>4, <2>5, <2>6, <2>7, <2>8
          DEF QueueNext, QueueThread, CommandThread
<1> QED BY <1>1, <1>2

LEMMA WaitingInit == QueueInit => Waiting
<1> SUFFICES ASSUME QueueInit PROVE Waiting
  OBVIOUS
<1>1. /\ q = <<>> /\ per_cmds = <<>> /\ ~ ended /\ own = 0 /\ cncTurn = "add"
      /\ unset = Periodic /\ left = [c \in Periodic |-> 0]
  BY DEF QueueInit
<1>2. DOMAIN q = {} /\ picturesIn(q) = {} /\ DOMAIN per_cmds = {} /\ Elements(per_cmds) = {}
      /\ Len(per_cmds) = 0
  BY <1>1 DEF picturesIn, Elements
<1>3. KnownIn(q, Elements(per_cmds)) /\ OnceIn(q) /\ InTime(q, left, unset)
  BY <1>2 DEF KnownIn, OnceIn, InTime
<1>4. Cardinality(picturesIn(q)) <= MaxPictures
  BY <1>2, FS_EmptySet, CommandTypes
<1> HIDE DEF Periodic
<1>5. NotLate(Elements(per_cmds), left, unset, slack)
  BY <1>1, <1>2 DEF NotLate
<1>6. Vector /\ PushBegun
  BY <1>1, <1>2 DEF Vector, Distinct, PushBegun
<1> QED BY <1>1, <1>3, <1>4, <1>5, <1>6 DEF Waiting

-----------------------------------------------------------------------------
\* Under any load, and however the two threads meet in the queue, the queue and
\* what the threads keep stay in their types (CommandQueue.cpp:43-79).
THEOREM QueueTypes == QueueSpec => []QueueTypeOK
  BY TypesInit, TypesStep, PTL DEF QueueSpec

LEMMA WaitingAlways ==
  ASSUME LightLoad PROVE QueueSpec => [](QueueTypeOK /\ Waiting)
<1>1. QueueInit => QueueTypeOK /\ Waiting
  BY TypesInit, WaitingInit
<1>2. QueueTypeOK /\ Waiting /\ [QueueNext]_queueVars => (QueueTypeOK /\ Waiting)'
  BY TypesStep, WaitingStep
<1> QED BY <1>1, <1>2, PTL DEF QueueSpec

\* Under a light load a periodic command waits at most once until the two
\* threads are in the queue at the same time (CommandQueue.cpp:43-75,
\* main_command_queue.h:26-58).
THEOREM EachWaitsOnce ==
  ASSUME LightLoad PROVE QueueSpec => []QueueInv
<1>1. QueueTypeOK /\ Waiting => QueueInv
  <2> SUFFICES ASSUME QueueTypeOK, Waiting, ~ raced PROVE QueuedOnce
    BY DEF QueueInv, QueuedOnce
  <2>1. OnceIn(q) /\ per_cmds \in Seq(Periodic)
    BY DEF Waiting, QueueTypeOK
  <2>2. \A c \in Elements(per_cmds) : c # Picture
    BY <2>1, VectorOfCommands, CommandTypes
  <2> QED BY <2>1, <2>2 DEF QueuedOnce, occurrences, OnceIn
<1> QED BY <1>1, WaitingAlways, PTL

\* Under a light load the loop throws "Command Queue overflow detected.", or the
\* process crashes, only after the two threads were in the queue or the vector
\* at the same time (main_command_queue.h:32).
THEOREM ThrowsOnlyAfterRace ==
  ASSUME LightLoad PROVE QueueSpec => []NoOverflow
<1>1. QueueTypeOK /\ Waiting => NoOverflow
  BY DEF Waiting, NoOverflow
<1> QED BY <1>1, WaitingAlways, PTL
=============================================================================
