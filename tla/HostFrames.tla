----------------------------- MODULE HostFrames -----------------------------
\* The pictures of the host: the video buffers (FrameBuffers) between the
\* driver's callbacks and the thread that writes the picture to the server
\* (main_synchronous.h), the queue thread that redraws the chosen frame source
\* and saves pictures (commands/frameproxy.cpp, commands/dumpvideo.cpp), and
\* the command thread that changes the source (main_cnc_wait.h).  The pointers
\* source and alt_video_source are shared without a lock: where the code reads
\* one twice, the compiled program may read it once or twice.
EXTENDS FrameBuffers

CONSTANTS Sources,        \* the ComFrames registered; "Live" stands for NULL
          First, Default  \* registered first; chosen at the start

ASSUME SourcesAssumption ==
  /\ {First, Default} \subseteq Sources
  /\ None \notin Sources /\ Buffers \intersect Sources = {}

VARIABLES
  source,   \* ComFrameProxy::source, None for NULL
  alt,      \* Kinect::alt_video_source, by the ComFrame whose frame it is
  sync,     \* where mainSynchronous is
  queue,    \* where the queue thread is: <<step, pointer it goes on with>>
  cnc,      \* where the command thread is, likewise
  shown,    \* the source of the picture written last, None for the camera
  crashed,  \* a null pointer was used: the process is gone
  live,     \* history: a client has asked for the live picture
  swapped   \* history: the front buffer was exchanged during the saving
fvars == <<source, alt, sync, queue, cnc, shown, crashed, live, swapped>>
vars == <<bvars, fvars>>

HostInit ==
  /\ Init
  /\ source = None /\ alt = None
  /\ sync = <<"swap", None>>
  /\ queue = <<"idle", None>>
  /\ cnc = <<"register", None>>
  /\ shown = None
  /\ crashed = FALSE /\ live = FALSE /\ swapped = FALSE

\* What a pointer holds that was tested as p and is p2 by now.
secondRead(p, p2) == {p, p2}

-----------------------------------------------------------------------------
\* main: process_events.
Driver ==
  /\ Fill \/ FrameComplete \/ LockBack \/ UnlockBack
  /\ UNCHANGED fvars

\* mainSynchronous: nextVideoFrameYUV, then the picture is written.
SyncLock ==
  /\ sync[1] = "swap" /\ LockFront
  /\ sync' = <<"swapping", None>>
  /\ swapped' = (queue[1] = "save")
  /\ UNCHANGED <<source, alt, queue, cnc, shown, crashed, live>>
SyncUnlock ==
  /\ sync[1] = "swapping" /\ UnlockFront
  /\ sync' = <<"test", None>>
  /\ UNCHANGED <<source, alt, queue, cnc, shown, crashed, live, swapped>>
SyncTest ==
  /\ sync[1] = "test"
  /\ sync' = <<IF alt = None THEN "camera" ELSE "frame", alt>>
  /\ UNCHANGED <<bvars, source, alt, queue, cnc, shown, crashed, live, swapped>>
SyncConvert ==
  /\ sync[1] \in {"camera", "frame"}
  /\ sync' = <<"swap", None>>
  /\ IF sync[1] = "camera" THEN shown' = None /\ UNCHANGED crashed
     ELSE \E p \in secondRead(sync[2], alt) :
            IF p = None THEN crashed' = TRUE /\ UNCHANGED shown
            ELSE shown' = p /\ UNCHANGED crashed
  /\ UNCHANGED <<bvars, source, alt, queue, cnc, live, swapped>>

-----------------------------------------------------------------------------
\* The queue thread runs ComFrameProxy ...
ProxyTest_None ==
  /\ queue[1] = "idle"
  /\ queue' = <<"call", source>>
  /\ UNCHANGED <<bvars, source, alt, sync, cnc, shown, crashed, live, swapped>>
ProxyTest ==
  /\ queue[1] = "idle" /\ source # None
  /\ queue' = <<"call", source>>
  /\ UNCHANGED <<bvars, source, alt, sync, cnc, shown, crashed, live, swapped>>
ProxyCall ==
  /\ queue[1] = "call"
  /\ \E p \in secondRead(queue[2], source) :
       IF p = None THEN crashed' = TRUE /\ UNCHANGED queue
       ELSE queue' = <<"draw", None>> /\ UNCHANGED crashed
  /\ UNCHANGED <<bvars, source, alt, sync, cnc, shown, live, swapped>>

\* ... or ComDumpVideo, whose getVideoFrame takes no lock ...
SaveTest ==
  /\ queue[1] = "idle"
  /\ queue' = IF alt = None THEN <<"save", front>> ELSE <<"saveFrame", alt>>
  /\ swapped' = FALSE
  /\ UNCHANGED <<bvars, source, alt, sync, cnc, shown, crashed, live>>
SaveFrame ==
  /\ queue[1] = "saveFrame"
  /\ \E p \in secondRead(queue[2], alt) :
       IF p = None THEN crashed' = TRUE /\ UNCHANGED queue
       ELSE queue' = <<"draw", None>> /\ UNCHANGED crashed
  /\ UNCHANGED <<bvars, source, alt, sync, cnc, shown, live, swapped>>

\* ... and is done with its command.
CommandDone ==
  /\ queue[1] \in {"draw", "save"}
  /\ queue' = <<"idle", None>>
  /\ UNCHANGED <<bvars, source, alt, sync, cnc, shown, crashed, live, swapped>>

-----------------------------------------------------------------------------
\* mainCncWait: the sources are registered, a default is chosen, and later
\* whatever a client asks for; chooseSource sets source, then the picture.
Register ==
  /\ cnc[1] = "register"
  /\ source' = First
  /\ cnc' = <<"default", None>>
  /\ UNCHANGED <<bvars, alt, sync, queue, shown, crashed, live, swapped>>
ChooseSource(p) ==
  /\ cnc[1] = "wait" \/ (cnc[1] = "default" /\ p = Default)
  /\ source' = p
  /\ live' = (live \/ p = None)
  /\ cnc' = <<"set", p>>
  /\ UNCHANGED <<bvars, alt, sync, queue, shown, crashed, swapped>>
SetVideoSource_OnlyFrames ==
  /\ cnc[1] = "set"
  /\ alt' = IF cnc[2] # None THEN cnc[2] ELSE alt
  /\ cnc' = <<"wait", None>>
  /\ UNCHANGED <<bvars, source, sync, queue, shown, crashed, live, swapped>>
SetVideoSource ==
  /\ cnc[1] = "set"
  /\ alt' = cnc[2]
  /\ cnc' = <<"wait", None>>
  /\ UNCHANGED <<bvars, source, sync, queue, shown, crashed, live, swapped>>

Sync == SyncLock \/ SyncUnlock \/ SyncTest \/ SyncConvert
Queue == ProxyTest \/ ProxyCall \/ SaveTest \/ SaveFrame \/ CommandDone
Cnc == Register \/ SetVideoSource
       \/ \E p \in Sources \union {None} : ChooseSource(p)

HostNext == ~ crashed /\ (Driver \/ Sync \/ Queue \/ Cnc)
HostSpec == HostInit /\ [][HostNext]_vars

\* The operating system runs every thread, and a lock held for two assignments
\* once a frame does not keep the reader out for ever.
FairHostSpec ==
  /\ HostSpec
  /\ SF_vars(~ crashed /\ Sync)
  /\ WF_vars(~ crashed /\ Driver)
  /\ WF_vars(~ crashed /\ SetVideoSource)

-----------------------------------------------------------------------------
\* Every variable stays in its type.
HostTypeOK ==
  /\ TypeOK
  /\ {source, alt, shown} \subseteq Sources \union {None}
  /\ sync \in {"swap", "swapping", "test", "camera", "frame"}
              \X (Sources \union {None})
  /\ queue \in {"idle", "call", "draw", "saveFrame", "save"}
               \X (Sources \union Buffers \union {None})
  /\ cnc \in {"register", "default", "wait", "set"} \X (Sources \union {None})
  /\ {crashed, live, swapped} \subseteq BOOLEAN
  /\ lock = "reader" <=> sync[1] = "swapping"

\* No null pointer is used as long as no client has asked for the live picture:
\* not while the sources are being registered, nor by an order of the three
\* threads in a change from one source to another (commands/frameproxy.cpp:10,
\* kinect.cpp:179 and 189).
NullOnlyAfterLive == crashed => live

\* Between two changes the source the queue thread redraws is the one the
\* other thread shows, so no picture stands still (frameproxy.cpp:23-30).
ShownIsRedrawn == cnc[1] = "wait" => alt = source

\* A picture is saved whole unless the front buffer was exchanged while it was
\* being saved: only then can the driver get at it (kinect.cpp:177,
\* commands/dumpvideo.cpp:25).
SavedWholeUnlessSwapped ==
  queue[1] = "save" /\ ~ swapped => queue[2] = front /\ queue[2] # lent

\* The source a client has chosen is shown, unless it changes its mind.
ChosenIsShown ==
  \A p \in Sources \union {None} :
    (cnc = <<"set", p>>) ~> (shown = p \/ crashed \/ source # p)
=============================================================================
