---------------------------- MODULE FrameBuffers ----------------------------
\* The three buffers of one camera of the Kinect (src/ids/kinect.cpp): the
\* driver fills the back buffer, the callback of a complete frame exchanges it
\* with the middle one, the reader exchanges the middle one with the front one.
\* The video and the depth camera have the same code, each with a lock of its
\* own; the reader is the thread of main_synchronous.h for video and the queue
\* thread (IDS::swapDepth) for depth.
EXTENDS Naturals

CONSTANT MaxFrames   \* bound on the frames the camera completes

ASSUME FramesAssumption == MaxFrames \in Nat

VARIABLES
  back, mid, front,  \* the pointers of class Kinect
  lent,     \* the buffer libfreenect fills
  content,  \* number of the frame in each buffer, 0 for none or half a frame
  lock,     \* who holds video_lock (depth_lock)
  tmp,      \* video_tmp (depth_tmp) of the thread that holds the lock
  camera,   \* where the event loop is: between frames, in a frame, in the
            \* callback of a complete frame
  held,     \* the buffer the reader works on, None while it exchanges
  count     \* video_count (depth_count)
bvars == <<back, mid, front, lent, content, lock, tmp, camera, held, count>>

Buffers == {"b1", "b2", "b3"}
None == "none"

Init ==
  /\ back = "b1" /\ mid = "b2" /\ front = "b3"
  /\ lent = "b1"
  /\ content = [b \in Buffers |-> 0]
  /\ lock = "free" /\ tmp = None
  /\ camera = "events"
  /\ held = None
  /\ count = 0

-----------------------------------------------------------------------------
\* The event loop: main calls process_events for ever.  The driver writes
\* into its buffer as packets arrive and calls back when a frame is complete.
Fill ==
  /\ camera = "events" /\ count < MaxFrames
  /\ camera' = "filling"
  /\ content' = [content EXCEPT ![lent] = 0]
  /\ UNCHANGED <<back, mid, front, lent, lock, tmp, held, count>>

FrameComplete ==
  /\ camera = "filling"
  /\ camera' = "callback"
  /\ content' = [content EXCEPT ![lent] = count + 1]
  /\ UNCHANGED <<back, mid, front, lent, lock, tmp, held, count>>

\* swapVideoBackBuffer (swapDepthBackBuffer), in two steps under the lock.
LockBack_NoLock ==
  /\ camera = "callback"
  /\ camera' = "swapping"
  /\ lock' = "driver"
  /\ tmp' = back /\ back' = mid /\ lent' = mid
  /\ UNCHANGED <<mid, front, content, held, count>>
LockBack_NotTold ==
  /\ camera = "callback" /\ lock = "free"
  /\ camera' = "swapping"
  /\ lock' = "driver"
  /\ tmp' = back /\ back' = mid
  /\ UNCHANGED <<mid, front, lent, content, held, count>>
LockBack ==
  /\ camera = "callback" /\ lock = "free"
  /\ camera' = "swapping"
  /\ lock' = "driver"
  /\ tmp' = back /\ back' = mid /\ lent' = mid
  /\ UNCHANGED <<mid, front, content, held, count>>

\* The counter is increased right after the unlock, by this thread; it is read
\* only where a picture waits for the first depth frame (mapframe.cpp:68), which
\* makes nothing of its being late.
UnlockBack ==
  /\ camera = "swapping"
  /\ camera' = "events"
  /\ mid' = tmp
  /\ lock' = "free" /\ tmp' = None
  /\ count' = count + 1
  /\ UNCHANGED <<back, front, lent, content, held>>

\* swapVideoFrontBuffer (swapDepthFrontBuffer), by the reader alone; it goes
\* on with the front buffer it finds after it has given the lock back.
LockFront ==
  /\ lock = "free"
  /\ lock' = "reader"
  /\ tmp' = front /\ front' = mid
  /\ held' = None
  /\ UNCHANGED <<back, mid, lent, content, camera, count>>

UnlockFront_Back ==
  /\ lock = "reader"
  /\ back' = tmp
  /\ lock' = "free" /\ tmp' = None
  /\ held' = front
  /\ UNCHANGED <<mid, front, lent, content, camera, count>>
UnlockFront ==
  /\ lock = "reader"
  /\ mid' = tmp
  /\ lock' = "free" /\ tmp' = None
  /\ held' = front
  /\ UNCHANGED <<back, front, lent, content, camera, count>>

Next ==
  \/ Fill \/ FrameComplete \/ LockBack \/ UnlockBack
  \/ LockFront \/ UnlockFront

Spec == Init /\ [][Next]_bvars

-----------------------------------------------------------------------------
\* Every variable stays in its type; the lock is held exactly during a swap.
TypeOK ==
  /\ {back, mid, front, lent} \subseteq Buffers
  /\ content \in [Buffers -> 0..MaxFrames]
  /\ lock \in {"free", "driver", "reader"}
  /\ tmp \in Buffers \union {None}
  /\ camera \in {"events", "filling", "callback", "swapping"}
  /\ held \in Buffers \union {None}
  /\ count \in 0..MaxFrames
  /\ lock = "driver" <=> camera = "swapping"

\* However the two exchanges interleave, none of the three buffers is lost or
\* used twice, and the driver fills the back one (kinect.cpp:110-154).
BuffersDistinct ==
  /\ lent = back
  /\ lock = "free" => back # mid /\ mid # front /\ front # back
  /\ lock = "driver" =>
       back = mid /\ tmp # mid /\ mid # front /\ front # tmp /\ tmp # None
  /\ lock = "reader" =>
       front = mid /\ tmp # mid /\ mid # back /\ back # tmp /\ tmp # None

\* The buffer the reader works on is its front buffer, and never the one the
\* driver writes to (kinect.cpp:197-201, main_synchronous.h:41).
ReaderAlone == held # None => held = front /\ held # lent

\* The frame completed last is on offer or with the reader, so an older frame
\* is shown again only after the newest has been shown (kinect.cpp:122).
NewestKept ==
  lock # "driver" =>
    count \in {content[mid], IF lock = "reader" THEN content[tmp]
                                               ELSE content[front]}

\* The three buffers, the lock and the driver's writing in place implement
\* the exchange of two whole frames.
Latest == INSTANCE LatestFrame WITH
  newest <- count, offer <- content[mid],
  shown <- IF lock = "reader" THEN content[tmp] ELSE content[front]
ImplementsLatestFrame == Latest!Spec
=============================================================================
