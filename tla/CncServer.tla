------------------------------ MODULE CncServer ------------------------------
\* The command and control server (src/WebServer/cnc.py) between the browsers
\* (client.html) and the command thread of the host (src/ids/main_cnc_wait.h).
\* Browsers send their keys and ask for the robot's state; the server sends
\* the host three-byte commands and gets replies and keep-alives back.  TCP
\* keeps the bytes in order but not the messages whole: a chunk may hold
\* several messages, or a piece of one.
EXTENDS Naturals, Sequences, FiniteSets

CONSTANTS
  Clients,
  Keys,         \* the keys the pages use, some of Moves and camera keys
  Chords,       \* the sets of keys that each page holds down together
  MaxDown, MaxUp,  \* bounds on the commands and messages under way
  MaxFaults     \* bound on the chunks that are not one whole message

Moves == {"W", "A", "S", "D", "space"}
NoDriver == "none"
Gone == "gone"
NoKeys == {"none"}  \* a page whose keys the server has not heard of

ASSUME CncAssumption ==
  /\ {NoDriver, Gone} \intersect Clients = {}
  /\ Chords \in [Clients -> SUBSET (SUBSET Keys)]
  /\ {MaxDown, MaxUp, MaxFaults} \subseteq Nat /\ MaxUp > 0

VARIABLES
  last,      \* last_keys of the protocol object of each client
  table,     \* whom Minotaur.instances names: nobody, the host's connection,
             \* or one that the host has lost
  login,     \* the host's connection: "no" data yet, logged in under the
             \* robot's name "yes", or under another one "wrong"
  waiting,   \* requests[0x30] of the instance in the table; Gone for the
             \* objects of pages that were closed
  down, up,  \* commands to the host; messages to the server: its name, replies
             \* and others, which are keep-alives or ends of messages
  alive,     \* the host's process
  halted,    \* the stop that the process sends first is on its way
  motors,    \* the keys the robot drives by, {} when it stands
  driver,    \* history: the client whose motor command was sent last, Gone
             \* once its page was closed with movement keys down
  discarded, \* history: a reply was not understood, and none was since
  faults
server == <<last, table, login, waiting, driver, discarded>>
serverVars == <<server, down, up, alive, halted, motors, faults>>

ServerInit ==
  /\ last = [c \in Clients |-> NoKeys]
  /\ table = "nobody" /\ login = "no" /\ waiting = {}
  /\ down = <<>> /\ up = <<"login">>
  /\ alive = TRUE /\ halted = FALSE /\ motors = {}
  /\ driver = NoDriver /\ discarded = FALSE
  /\ faults = 0

\* sendCmd, to a connection the host may have lost.
sent(commands) == IF table = "host" /\ alive THEN down \o commands ELSE down

-----------------------------------------------------------------------------
\* WebsocketProtocol.dataReceived: the keys K of a page.  Motor commands are
\* sent when the movement keys change, and mean stop unless K is one of the
\* combinations listed, camera keys included; camera commands are sent when
\* a camera key is the first key down.
Drives == {{"W"}, {"A"}, {"S"}, {"D"},
           {"W", "A"}, {"W", "D"}, {"S", "A"}, {"S", "D"}}
motion(K) == IF K \in Drives THEN K ELSE {}

\* The commands a page's keys make the server send.
motorCommand_NoStop(c, K) ==
  IF last[c] # NoKeys /\ K \intersect Moves # last[c] \intersect Moves
     /\ motion(K) # {}
  THEN <<[op |-> "motors", keys |-> motion(K)]>> ELSE <<>>
motorCommand(c, K) ==
  IF last[c] # NoKeys /\ K \intersect Moves # last[c] \intersect Moves
  THEN <<[op |-> "motors", keys |-> motion(K)]>> ELSE <<>>
cameraCommand(c, K) ==
  IF last[c] = {} /\ Cardinality(K) = 1 /\ K \intersect Moves = {}
  THEN <<[op |-> "camera", keys |-> K]>> ELSE <<>>

KeysReceived(c, K) ==
  /\ table # "nobody" /\ Len(down) < MaxDown
  /\ down' = sent(motorCommand(c, K) \o cameraCommand(c, K))
  /\ IF motorCommand(c, K) = <<>> THEN UNCHANGED driver
     ELSE driver' = c
  /\ last' = [last EXCEPT ![c] = K]
  /\ UNCHANGED <<table, login, waiting, discarded, up, alive, halted, motors,
                 faults>>

\* Minotaur.requestMetrics: the host is asked when the set is of one.
RequestMetrics_BeforeAdding(c) ==
  /\ table # "nobody" /\ Len(down) < MaxDown
  /\ waiting' = waiting \union {c}
  /\ down' = IF waiting = {c} THEN sent(<<[op |-> "state", keys |-> {}]>>)
             ELSE down
  /\ UNCHANGED <<last, table, login, driver, discarded, up, alive, halted,
                 motors, faults>>
RequestMetrics_Always(c) ==
  /\ table # "nobody" /\ Len(down) < MaxDown
  /\ waiting' = waiting \union {c}
  /\ down' = sent(<<[op |-> "state", keys |-> {}]>>)
  /\ UNCHANGED <<last, table, login, driver, discarded, up, alive, halted,
                 motors, faults>>
RequestMetrics(c) ==
  /\ table # "nobody" /\ Len(down) < MaxDown
  /\ waiting' = waiting \union {c}
  /\ down' = IF Cardinality(waiting \union {c}) = 1
             THEN sent(<<[op |-> "state", keys |-> {}]>>) ELSE down
  /\ UNCHANGED <<last, table, login, driver, discarded, up, alive, halted,
                 motors, faults>>

\* A page is closed or loaded again: nothing in the server hears of it, and a
\* page opened later has a protocol object of its own.
Leave(c) ==
  /\ last' = [last EXCEPT ![c] = NoKeys]
  /\ driver' = IF driver = c /\ last[c] \intersect Moves # {} THEN Gone
               ELSE driver
  /\ waiting' = IF c \in waiting THEN (waiting \ {c}) \union {Gone} ELSE waiting
  /\ UNCHANGED <<table, login, discarded, down, up, alive, halted, motors,
                 faults>>

-----------------------------------------------------------------------------
\* MinotaurProtocol.dataReceived, with a chunk that is one whole message: the
\* first is the name, and of the later ones only a reply is looked at.
answered == waiting' = {} /\ discarded' = FALSE
Receive ==
  /\ up # <<>>
  /\ up' = Tail(up)
  /\ CASE login = "no" /\ Head(up) = "login" ->
            login' = "yes" /\ table' = "host" /\ answered
       [] login = "no" /\ Head(up) # "login" ->
            login' = "wrong" /\ UNCHANGED <<table, waiting, discarded>>
       [] login = "yes" /\ Head(up) = "reply" ->
            answered /\ UNCHANGED <<table, login>>
       [] OTHER -> UNCHANGED <<table, login, waiting, discarded>>
  /\ UNCHANGED <<last, driver, down, alive, halted, motors, faults>>

\* With a chunk of the first n messages, or of the first n less the end of the
\* last one: a name nobody uses, or a reply that cannot be unpacked.
ReceiveOther(n, rest) ==
  /\ faults < MaxFaults /\ faults' = faults + 1
  /\ n >= 2 \/ rest # <<>>
  /\ up' = rest \o SubSeq(up, n + 1, Len(up))
  /\ login' = IF login = "no" THEN "wrong" ELSE login
  /\ discarded' = (discarded \/ \E i \in 1..n : up[i] = "reply")
  /\ UNCHANGED <<last, table, waiting, driver, down, alive, halted, motors>>

-----------------------------------------------------------------------------
\* mainCncWait: three bytes make a command (errno, tested as well, stays clear
\* of EWOULDBLOCK: cnc_connect makes the socket a blocking one) ...
HostCommand ==
  /\ alive /\ down # <<>> /\ Len(up) < MaxUp
  /\ down' = Tail(down)
  /\ motors' = IF Head(down).op = "motors" THEN Head(down).keys ELSE motors
  /\ up' = IF Head(down).op = "state" THEN Append(up, "reply") ELSE up
  /\ UNCHANGED <<server, alive, halted, faults>>

\* ... and one or two bytes end the process; the robot drives on as it was.
HostShortRead ==
  /\ alive /\ down # <<>>
  /\ alive' = FALSE /\ halted' = FALSE
  /\ down' = <<>>
  /\ table' = IF table = "host" THEN "lost" ELSE table
  /\ UNCHANGED <<last, login, waiting, driver, discarded, up, motors, faults>>

\* ComKeepalive of the queue thread.
Keepalive ==
  /\ alive /\ Len(up) < MaxUp
  /\ up' = Append(up, "other")
  /\ UNCHANGED <<server, down, alive, halted, motors, faults>>

\* The host is started again, later than the server takes to read what the
\* old connection held: it connects and sends its name.
Restart ==
  /\ ~ alive /\ up = <<>>
  /\ alive' = TRUE
  /\ up' = <<"login">> /\ login' = "no"
  /\ UNCHANGED <<last, table, waiting, driver, discarded, down, halted, motors,
                 faults>>

\* mainMinosWait, in a thread of its own, begins by stopping the motors; it may
\* be as late as to stop what mainCncWait has set going.
Stop ==
  /\ alive /\ ~ halted
  /\ motors' = {} /\ halted' = TRUE
  /\ UNCHANGED <<server, down, up, alive, faults>>

ServerNext ==
  \/ \E c \in Clients :
       (\E K \in Chords[c] : KeysReceived(c, K)) \/ RequestMetrics(c) \/ Leave(c)
  \/ Receive
  \/ \E n \in 1..Len(up), rest \in {<<>>, <<"other">>} : ReceiveOther(n, rest)
  \/ HostCommand \/ HostShortRead \/ Keepalive \/ Restart \/ Stop

ServerSpec == ServerInit /\ [][ServerNext]_serverVars

\* The host's threads and the server's reactor run, and a page asks for the
\* state ten times a second.
FairServerSpec ==
  /\ ServerSpec
  /\ SF_serverVars(HostCommand) /\ WF_serverVars(Receive)
  /\ \A c \in Clients : SF_serverVars(RequestMetrics(c))

-----------------------------------------------------------------------------
Motor == {i \in DOMAIN down : down[i].op = "motors"}
underWay == \/ \E i \in DOMAIN down : down[i].op = "state"
            \/ \E i \in DOMAIN up : up[i] = "reply"
connected == alive /\ table = "host"
\* Nobody will ask the host again, whoever asks the server.
stuck == /\ connected /\ ~ underWay /\ discarded
         /\ Cardinality(waiting) >= 2 \/ Gone \in waiting

\* Every variable stays in its type, and no more is under way than the bounds.
ServerTypeOK ==
  /\ last \in [Clients -> (SUBSET Keys) \union {NoKeys}]
  /\ table \in {"nobody", "host", "lost"} /\ login \in {"no", "yes", "wrong"}
  /\ waiting \subseteq Clients \union {Gone}
  /\ down \in Seq([op : {"motors", "camera", "state"}, keys : SUBSET Keys])
  /\ Len(down) <= MaxDown
  /\ up \in Seq({"login", "reply", "other"}) /\ Len(up) <= MaxUp
  /\ motors \in Drives \union {{}} /\ halted \in BOOLEAN
  /\ table = "host" => login = "yes" /\ alive

\* While the host lives and has sent its first stop, the robot only moves as
\* the client whose movement keys changed last holds them now, whatever the
\* other clients, the camera keys and the orders under way do, and however the
\* host before this one left it; the one exception is a page closed with its
\* keys down (cnc.py:68-78 and 127).  It says nothing of the time between the
\* end of a host and the stop of the next, when the robot drives on as it was.
MovesAsHeld ==
  alive /\ halted /\ Motor = {} /\ driver # Gone /\ motors # {} =>
    /\ driver # NoDriver /\ last[driver] # NoKeys
    /\ motors = last[driver] \intersect Moves

\* Somebody waiting means a request or its reply is on its way, unless a reply
\* was not understood (cnc.py:121-125 and 143-162).
RequestUnderWay ==
  connected /\ waiting # {} => underWay \/ discarded

\* Both hold whatever is under way.
ServerInv == ServerTypeOK /\ RequestUnderWay

\* Once two wait for a reply that was not understood, only a restart of the
\* host makes the server ask again (cnc.py:124 and 147).
StuckForGood == [][stuck => stuck' \/ ~ alive']_serverVars

\* Everyone who asks is answered, unless two wait for a reply that was not
\* understood, the page is closed or the host is gone.
Answered ==
  \A c \in Clients :
    (connected /\ c \in waiting) ~> (c \notin waiting \/ stuck \/ ~ connected)
=============================================================================
