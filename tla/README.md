# Project Minotaur in TLA+

Minotaur is a remote-controlled home-security robot. A browser talks to a
Python server; the server talks to a program on the robot's Atom board (the
"host"); the host has a Kinect camera on one side and, on the other, a PIC24
microcontroller that drives the motors and reads the sensors. This directory
holds TLA+ models of that program, the TLC configurations that check them and
the theorems that TLAPS proves about them. Modules follow the code under
`src/`; `PROJECT.json` maps each definition to the lines it models.

## 1. The system

### 1.1 Firmware (src/MicroCode/MinotaurMicroCode.X)

One main loop (`main.c`) runs its sections in a fixed order: print, transmit,
receive, assemble, sensors, fuel gauge, process a command, motors, obstacle
avoidance, PWM. Interrupt service routines communicate with it through
global flags that the routines set and the loop clears; nothing masks an
interrupt and no read-modify-write is protected.

| Part | State | Operations | What makes it correct |
|---|---|---|---|
| Byte buffers (`UARTfunctions.c`) | `head`, `tail`, `data[500]` | `BUFF_push`, `BUFF_pop`, `BUFF_status` | a bounded first-in first-out queue |
| Serial link (`main.c`, `UARTfunctions.c`) | `READY_TO_SEND`, `READY_TO_REC`, `PRINT`, both buffers, the UART's registers, `controlpacket` | the two UART interrupts, timer 4, the five sections of the loop, `printString` | commands are executed as sent, in order; the flags agree with the registers; the link keeps working |
| Motors and avoidance (`main.c`) | settings of the wheels, of the user and of the moment, `SENSOR_ENABLE`, `OC2RS`, `OC3RS`, `LATE`, `TIMEOUT` | commands 0x01, 0x03, 0x04, the ADC interrupt, the avoidance chain | the motors do what the last command says unless a sensor trips, and nothing of a manoeuvre stays behind |
| Wheel encoders (`main.c`) | `LEFT_TICKS`, `RIGHT_TICKS`, the pins of the last sample | timer 3 interrupt; the report of the count in two bytes | the count follows the wheel; a report is a count that was held |
| Fuel gauge (`main.c`, `i2c.c`) | `GET_BATT`, `I2C_*` flags, `battery_percentage` | timer 4 and I2C interrupts, a state machine of seven steps | a reading asked for is made |

### 1.2 Host program (src/ids)

`main` starts four threads and then serves the Kinect's events for ever.
`quit()` is always false, so no thread ever ends except by an exception, which
ends the process.

| Part | State | Operations | What makes it correct |
|---|---|---|---|
| Receive path (`minotaur.cpp`, `main_minos_wait.h`) | ring `minos_buffer[80]` with two indices, `nextState`, `currentState` | `recv`, `packetize`, `sendpacket`; a poll every second | packets are cut where the robot cut them, nothing is lost or invented, a position is computed from readings that belong together |
| Command thread (`main_cnc_wait.h`, `ids.cpp`) | the socket, `cnc_buffer` | `cnc_checkmsg`, dispatch on the command, `cnc_rawmsg` | every three-byte command is executed once |
| Command queue (`CommandQueue.cpp`, `main_command_queue.h`) | `std::queue` of commands, periodic commands | `push`, `pop`, `gen_periodic`, at most 100 waiting | no command is lost, none starves |
| Kinect buffers (`kinect.cpp`, `main_synchronous.h`) | three video and three depth buffers, two mutexes | the driver's callbacks swap back and middle, the readers swap front and middle | a reader's buffer is never written, pictures do not go back in time |
| Frame sources (`commands/*frame*.cpp`) | the chosen source, its picture | `chooseSource`, `action` | the source used is the one chosen |
| Room map (`map.h`, `point.h`, `wall.h`) | sectors of points with a 256-bit history | `getPoint`, `shift` | the count is that of the history |

### 1.3 Server (src/WebServer)

`cnc.py` runs callbacks one at a time. It keeps a table of robots and, per
robot, the set of clients that wait for its state; per client it keeps the last
keys. It turns keys into three-byte commands and the robot's 23-byte replies
into JSON. Correct means: a change of keys changes the motors, and who asks for
the state is answered.

### 1.4 How the parts interact

The server sends three bytes to the host's command thread. That thread sends a
five-byte packet (0xAA, sequence number, command, two data bytes) through
`sendpacket` to the PIC24, while the polling thread does the same with 0xB0 once
a second. The firmware's receive interrupt sets a flag, the loop reads the byte,
echoes it, assembles the packet, executes it and puts replies into the transmit
buffer, where they mix with echoes and with the text of `printString`. The host
reads that stream into its ring, cuts it at 0xAA and updates the state that the
command thread sends to the server.

### 1.5 What is hard here

- Interrupts between the access to a UART register and the clearing of the
  flag that announced it (`main.c:207`, `main.c:217`).
- A wait inside the only loop that could end it (`UARTfunctions.c:59`).
- Framing by a byte that is also legal as sequence number and as data.
- A 16-bit counter read in two halves while an interrupt changes it.
- A ring whose reader is told the wrong amount of room and one byte more than a
  packet must wait in it.
- State overwritten by a manoeuvre that has to come back unchanged.
- Four threads with unlocked shared data on the host, and a server that never
  hears of a lost connection.

`PROJECT.json` lists these and the other hazards with the line where each bites
and the properties that watch it.

## 2. Plan

Modules in the order in which they were written; the part of the system that
moves the robot came first, then the host from the serial port outwards.

| Module | Models | Relation |
|---|---|---|
| `BoundedFifo` | what a byte buffer promises | abstract specification |
| `ByteBuffer` | the circular buffer | implements `BoundedFifo` |
| `FirmwareLink` | UART, flags, loop, packets | its `RX`, `TX` are the queues `ByteBuffer` implements |
| `MotorControl` | from a packet and five sensors to the PWM registers | takes over where `FirmwareLink`'s `Process` ends |
| `WheelEncoder` | encoder, counter, report | its report is a reply of `FirmwareLink` |
| `FuelGauge` | I2C state machine | battery reply of `FirmwareLink` |
| `MinosReceive` | polling thread and `recv` | its robot sends what `FirmwareLink` sends |
| `WheelOdometry` | counts and time stamps to movements | goes on with the states `MinosReceive` completes |
| `LatestFrame` | what the buffers of a camera promise | abstract specification |
| `FrameBuffers` | three buffers, a lock and the driver | implements `LatestFrame` |
| `HostFrames` | the four threads around the pictures | composes `FrameBuffers` with its readers and with the choice of the source |
| `RoomMap` | points, their history and their lookup | pure functions; drawn by one of `HostFrames`' sources |
| `CommandQueue` | unlocked queue, periodic commands | runs the commands of `HostFrames`' queue thread |
| `CncServer` | browsers, server, stream, command thread | sends the motor commands that `FirmwareLink` carries |

What could still be added: the copy of `currentState` under another thread's
writes (section 7 says why little depends on it), and several robots at one
server.

## 3. The modules and the code

**ByteBuffer.** `BUFF_push`, `BUFF_pop` and `BUFF_status` are one action each;
`head`, `tail` and `data` are the fields of `struct _BUFFER`. One slot always
stays free. The refinement mapping reads the waiting characters off the array
(`contents`) and shows every call to be a step of `BoundedFifo`. The firmware
calls these operations from the main loop only, so that a call is one step.

**FirmwareLink.** `pc` names the section of the main loop that runs next. It
also stops between the access to a UART register and the assignment that clears
the flag (`txclear`, `rxclear`), because an interrupt can come there. `Receive`
is the arrival of a byte together with `_U1RXInterrupt`; `U1TXInterrupt` is the
shift register taking the byte. A damaged byte (parity or framing error) makes
the handler return without reading, and the byte keeps the top of the hardware
FIFO; a full FIFO sets OERR and turns the receiver off, as the hardware does,
since nothing clears it. Characters to send keep only what the tests tell apart:
echo, report, or place in a reply. `Process` is the whole consumption of a
packet with every reply it pushes; replies that do not fit are cut, as the code
tests for room only before the first byte of a reply.

**MotorControl.** One turn of the loop from sampling to the second wheel's bits
in `LATE`, with the ADC and timer interrupts between the sections. Each write
that the H-bridge could see (`OC2RS` and `OC3RS`, `LATE = 0`, the bits of each
wheel) is in an action of its own. The chain of `if`s that evades obstacles is
kept in its order, including the reading of sensor 4 in the test for sensor 2 of
the report (`main.c:370`). Both requests that are answered with the obstacle bits
are here, 0xB0, which the host sends, and 0xB1. Sensor values are arbitrary from
turn to turn.

**WheelEncoder.** One wheel stands for both, which the interrupt handles with
the same code. `Turn` is the wheel (external), `T3Interrupt` the quadrature
decoding, `PushHigh` and `PushLow` the two reads of the counter by the loop.
Positions are quarters of a tick; the sampling rate of 7.8 kHz is far above what
the wheel can do, hence at most one quarter between two samples.

**FuelGauge.** The steps of the I2C conversation as the branches of `Step`, the
start condition, the sending of a byte and the battery reply, with timer 4 and
the bus interrupt between them. The bus is external: each operation started
on it may end, at any time, with an interrupt.

**MinosReceive.** `Read`, `Parse`, `DropOutOfSync`, `Serve` and `Odometry` are
the parts of one call of `Minotaur::recv` in their order; `Poll` is what
`mainMinosWait` does when `recv` returns false; `Drive` a packet sent for the
operator. `read()` may return any number of the bytes that have arrived, up to
the length the code asks for, or none after half a second. Bytes are real bytes,
because framing depends on them; of a reading only the poll it answers is kept.
Whether a new position passes the sanity check is left open, but the first one
always counts, as in the code. The robot's echoes, replies and texts are those
of `FirmwareLink` when nothing fails there. A packet may bear any number the
configuration offers, also that of the packet before it: the polling thread and
the command thread count `minos_seq` up without a lock and read it again a few
lines later (`minotaur.cpp:103` and `112`), so two packets may be numbered alike.
The data bytes of a motor command stay 0, since framing asks only whether a byte
is 0xAA and `int(speed*1.27)` (`cnc.py:73`) never is. The test of `errno` after
`read` is left out: the port blocks, so nothing leaves EWOULDBLOCK there. `stream`
holds the bytes as the terminal driver delivers them.

**WheelOdometry.** `served` is what any number of packets of one call of `recv`
does to `nextState`, `Keep` and `Accept` the two ends of the call. A state
records what the robot had counted when it answered; `count` is what the host
reads of that: the number has two bytes, `high` and `low`, the robot sends the
high one first (`main.c:429-430`) and the host takes the first one for the low one
(`udata16`, `minotaur.cpp:214-221`). So the wrapping of `recv` is compared with the
movement itself, through the swap. `Radix` is the number of values of a byte. The
sanity check is kept as the two inequalities it amounts to,
without floating point. The position is kept per wheel; sines and cosines are
left out. The comment on the check says 1/100 of an inch per microsecond
(`minotaur.cpp:258`), the code tests for 1e-3; neither is a speed that matters
in itself, since the processor time between two states is short. The difference
of two 32-bit time stamps is taken as exact.

**FrameBuffers, HostFrames.** `LockBack` and `UnlockBack` are the halves of
`swapVideoBackBuffer` under the lock, `LockFront` and `UnlockFront` of
`swapVideoFrontBuffer`; the depth camera has the same code with other names.
`Fill` and `FrameComplete` are libfreenect, which writes into the buffer it was
given last. `HostFrames` adds the thread that shows the picture (`sync`), the
queue thread that redraws the chosen source or saves a picture (`queue`), and the
command thread (`cnc`). `source` and `alt_video_source` are shared without a
lock and not volatile, and the host is compiled with -O3, so a pointer that is
tested and then used may be read once or twice: `secondRead` allows both.
Sources are named; their pictures are left out.

**CommandQueue.** The two threads start in no order: the queue thread adds its
commands one by one (`AddOwn`) before its loop, the command thread adds the frame
proxy before its own (`AddPeriodic`), and the two may meet in the vector
(`AddWhileAdding`). One turn of the queue thread is `Run` or `Sleep`, then
`Generate`. Processor time is kept as what is left until `Periodic::next`. The
command thread's `push` has two halves, `PushRead` and `PushWrite`: a `pop` or a
`push` of the other thread between them leaves it with an old end, and what it
writes then brings back a command already run, cuts off commands, or puts the end
before the head, which `size()` shows as a number beyond every limit. Where the
standard library gives no guarantee at all the outcomes are left open: under
`GenerateWhileAdding` the vector moves while `gen_periodic` walks through it, the
old iterator never meets the new `end()` (`CommandQueue.cpp:58`), and the process
may end; `GenerateWhilePushing` may lose the picture or a command; `MeetInQueue` is
the push that meets `size`, `front`, `pop` or `push` over a block of the queue being
exchanged, and ends the process. The history variable `raced` says that the
threads have met. The properties hold until they first do; of what comes after,
the model keeps what the outcomes above leave in place and nothing is claimed.
`dueNow` is what one call of `gen_periodic` pushes: the commands in `dueSlots`, in
the order of the vector. `LightLoad` says what a run must be like for the loop to
keep up; it is a condition on the processor and on the clients, which nothing in
the code establishes, so the properties that need it name it.

**CncServer.** Keys are sets; `motorCommand` and `cameraCommand` are what
`dataReceived` sends for a change of them. `down` and `up` are the two directions
of the host's connection in whole messages; `ReceiveOther` is a chunk that holds
several messages, or the beginning of one whose end comes as a message of its
own. `HostCommand` is a turn of `mainCncWait`, `HostShortRead` a turn that
reads one or two bytes and throws, which ends the process and leaves the robot
driving as it was. `Restart` is a new process that connects; `Stop` is its polling
thread, which begins by stopping the motors (`main_minos_wait.h:39`) at a time of
its own, so that it may also stop what a command has just set going; `halted` says
that it has. The test of `errno` (`main_cnc_wait.h:79`) is left out: `cnc_connect`
makes the socket a blocking one (`ids.cpp:110-111`). `Leave` closes or reloads a page, which
neither protocol class notices. The slider stands at a speed that is not zero.

**RoomMap.** `shift` is `Point::shift` on a history of any length, `sector` and
`offset` the array arithmetic of `Map::getPoint` with C's division and remainder.
They are functions without behaviour, so what is said of them are plain formulas,
which TLC evaluates on small values and theorems prove for all:
`CountFollowsHistory` (the 8-bit counter is that of the history, though it wraps
within a call), `OnePointPerPlace` (ahead of the starting point) and
`OverlapBehind` (behind it two places share a point, and an index is negative).

## 4. What the runs show

| Run | Question | Answer |
|---|---|---|
| `byte_buffer` | Is the circular buffer a bounded queue? | yes, for four slots and three characters |
| `firmware_link` | Are commands executed as sent, in order, whatever the interrupts do, and what can stop the link? | yes; the flags never lie; only a lost transmit interrupt stops the transmitter, only the hang of `printString` or bytes left in the FIFO lose a command, and these failures are final |
| `motor_control` | Do the motors obey, does the report agree with the manoeuvre, is no wheel reversed directly? | yes |
| `motor_timeout` | Does the robot stop when no command has come for 1.5 s? | no: the reaction to `TIMEOUT` is commented out |
| `wheel_encoder` | How wrong can the count and its report be? | two and a half ticks and one more per reversal; a report is wrong only over a carry |
| `encoder_bytes` | Does the host read the count that was sent? | no: the firmware sends the high byte first and the host takes it for the low one |
| `fuel_gauge` | Is the battery ever read? | never: the start condition is asked for again in every turn |
| `minos_receive` | Is the robot's stream cut and handed on correctly? | yes until a read overflows the ring or a text falls into an echo numbered 0xAA, which costs the replies of that packet and of those right behind it that bear 0xAA too; the encoders of a position are at most one poll apart |
| `wheel_odometry` | Is a movement what the wheels did, and can a refused state recover? | only if both bytes of the count have changed by the same amount, as the host swaps them: one tick is taken for 256; only once a count is read nearer to the old one, which 256 ticks further on are too |
| `host_frames` | Do threads get in each other's way over a picture? | not over the buffers; a null pointer may be used once the live picture was asked for, and a picture being saved may be torn once the front buffer was exchanged |
| `command_queue` | Does the queue overflow, starve or lose a command? | no, while the load fits the periods and until the two threads first meet in the queue or the vector; then a command or a picture may be lost and the process may end |
| `cnc_server` | Does the robot move as the keys are held, and is every request answered? | yes while the host lives and has sent its first stop, but for a page closed with keys down, and for two clients that wait for a reply the server did not understand; a host that ends leaves the robot driving until a new one stops it |

The properties were chosen against the hazards. Some need a word.

`LinkInv` says where every byte is that the board sent: in commands executed, in
the packet being assembled, in `RX` or in the hardware FIFO, in that order and
without a gap. `CommandsInOrder` follows. That an overrun can never splice two
packets is due to an accident worth knowing: OERR is never cleared, so that after
a lost byte no byte arrives any more. `FailuresLast` says the three failures (the
hang, the deaf receiver and the stalled transmitter) are final; the stall needs
the interrupt to come between the write of `U1TXREG` and the next assignment,
which the source does not exclude but the timing of the UART makes rare.

`MotorsObey` compares the registers with what the last command asked for at the
end of each turn, over any history of manoeuvres and commands; `asked` is a
history variable. `DriftBounded` compares the count with the wheel's true
position. `EncodersWithinOnePoll` is what is left of the pairing of the two
encoders: the left count may be one poll newer than the right one, never
more. `NothingLost` says an echo torn by a text costs at most the replies of its own
packet, and of those right behind it while they bear 0xAA as well, which only the
unlocked counter makes possible.
`ShortReadsAreSafe` and `NoticedUnlessExact` say when the ring can overflow at
all (a single read of all but five of its bytes, or more) and when `recv` does
not notice (a read that fills it exactly, after which it looks empty).

`GaugeInv` explains `BatteryNeverRead`: whenever a step is due, this turn of the
loop has set `I2C_START`, so that the first branch is taken.

`OdometryInv` says a complete state that was refused stays implausible: its time
stamp is that of its first packet. `RefusedUntilNearer` draws the conclusion: no
time that passes helps, some count must be read nearer to the last one accepted.
Read through the swapped bytes that is not the same as driving back: 256 ticks
further on are a difference of one. `ExactIfBytesAgree` says in the same way what is
left of the odometry: a movement of less than half a turn of the counter is taken
for what it was just if both bytes have changed alike.

`ImplementsLatestFrame` is what the exchange of buffers really promises: two
whole frames, the newest among them. It does not promise that time never runs
backwards, because the reader exchanges the two also when no frame has come.
`NullOnlyAfterLive` excludes every way to use a null pointer but the one the
live picture opens; `SavedWholeUnlessSwapped` says exactly when a saved picture
can be torn.

`RequestUnderWay` (in `ServerInv`) and `StuckForGood` belong together: the server
asks the host only when the set of those waiting grows to one, so a reply dropped
while two wait, or while the object of a closed page waits, leaves everyone
waiting until the host connects anew. `MovesAsHeld` relates the robot's motors to
the keys of the client whose movement keys changed last. It speaks of a host that
lives and has sent its stop: one that has ended leaves the robot as it was, since
the firmware's own time limit does nothing (`motor_timeout`), and so does a new one
until its polling thread has run.

### Bounds, and why they are enough

- `ByteBuffer`: four slots give all wraps and both limits.
- `FirmwareLink`: two packets are ten bytes against a FIFO of two, so overruns
  and both sides of a packet boundary occur; one packet is numbered 0xAA and the
  other carries 0xAA as data; a transmit buffer of two characters is smaller than
  a reply, and a text of two characters fills it, so cutting and the hang occur.
  One byte may be damaged. The theorems hold for any number of packets.
- `MotorControl`: readings below `SEN_MIN`, between the limits and beyond `SEN_MAX`,
  and wheels that stand, go forwards fast and backwards slowly; all five sensors,
  all commands and both sensor requests. There is no bound on time.
- `WheelEncoder`: bytes of four values, so that the carry and the wrap of the
  counter come within 14 quarters; two reversals, since the drift grows by one
  with each.
- `FuelGauge`: no bound; the signed char takes all its 256 values.
- `MinosReceive`: a ring of 35 bytes for 80 and a text of 20 characters for 30 or
  more. This ring is the smallest in which the two encoders of a position answer
  different polls with a motor command between them, so that
  `EncodersWithinOnePoll` says more than that nothing is mixed up. Three packets, of
  which the first two may bear 0xAA, one, the other or both; 70 bytes let a read
  overflow a ring that has wrapped. Readings start at 181, so that some equal the
  command bytes of replies. The theorems hold for every ring, every text, all
  numbers and every place the text may fall into; the number of packets stays
  below 255, as each has a reading of its own.
- `WheelOdometry`: bytes of four values, so that the counter has sixteen, and wheels
  that travel over seven and two positions: the low byte carries, the counter
  wraps below zero, five ticks change both bytes alike, and four ticks are read as
  one; three units of time; two different limits for the wheels, as in the code.
  The theorems hold for any values, an even number of them in a byte.
- `HostFrames`: three frames, so that each buffer is filled and the first one is
  used again; two sources, one of them the default, beside the live picture.
  The theorems hold for any number.
- `RoomMap`: a history of eight bits for 256, all its values, with a counter of
  eight; sectors of two by two for eight by eight, coordinates of two sectors on
  either side.
- `CommandQueue`: the periods are 6, 5 and 6 turns for 100, 99 and 100
  milliseconds; at most one unit of time per turn. There may be any number of
  pictures, of which two wait at the same time, and the threads may meet as often
  as they like. This is the heaviest load that is a `LightLoad`: two pictures and
  three periodic commands at one unit each fill the smallest period, 5, and the
  limit of five commands; a limit of 4, or turns of two units, make the queue
  overflow.
- `CncServer`: two clients, since the request set distinguishes one from two; one
  movement key and one camera key, of which one page uses both and the other the
  movement key only (`Chords`); two messages under way in each direction and one
  chunk that is not a whole message. The host may end and start again any number
  of times. Queues that are full make
  their writers wait, which the fairness below takes into account.

### Fairness

- `firmware_link`: the processor keeps executing its main loop (no section can
  block except `printString`'s wait, where the step is disabled); a byte on the
  wire arrives; the UART shifts out what it was given. These are the hardware's
  doing. Nothing forces the board to send, the timer to expire, or a byte to be
  intact. `motor_timeout` refutes a liveness property under the same fairness of
  the loop, so that its counterexample is not merely a stopped processor.
- `host_frames`: the operating system runs the driver's thread and the command
  thread between its two assignments (weak fairness). The picture thread gets
  strong fairness, because the lock it waits for is taken and given back once a
  frame and the waiting thread gets it in the end.
- `command_queue`: the queue thread runs, and the command thread adds its periodic
  command at its start; nothing forces it to push, or to finish a push. Time passes in infinitely many turns, if not in each
  (strong fairness of `Busy`): a turn that converts a frame does use processor
  time, and the clock is that of the process, so any thread's time counts.
- `cnc_server`: the reactor runs, the host's command thread runs and a page asks
  for the state ten times a second. The last two are disabled while a queue is
  full, which is a bound of the model, so they get strong fairness. No fault and
  no restart is ever forced.

The other runs assume none.

## 5. What is proved

All theorems hold for every value of the constants under the assumptions named
in the modules (a ring of at least two packets, buffers of at least one
character, packets made of bytes and the like). TLC evaluates these assumptions
in every run.

- `ByteBufferProofs`: `TypeCorrect`; `BufferIsFifo`, the refinement. The argument
  is that the waiting characters occupy distinct slots, none of them at `tail`.
- `FirmwareLinkProofs`: `LinkInvariant` is the inductive invariant: `TypeOK`, the
  flags, `FifoContinues` (the hardware FIFO continues the wire where `RX` ends),
  `RxInTransit` and `PacketPrefix` (the assembled part is a prefix of a packet
  sent), and that `READY_TO_SEND` says 1 only over an empty `U1TXREG`.
  `CommandsInOrder` alone is not inductive: it says nothing of the bytes
  under way. `CommandsAreTheBoards`, `ReceiveFlagIsTruthful`, `HangLasts`,
  `StallLasts` and `DeafnessLasts`, joined in `FailuresAreForever`, follow from it.
- `MotorControlProofs`: `TypeCorrect`, `TurnInvariant`, `MotorsObeyTheLastCommand`,
  `NoDirectReversal` and `ObstaclesReported`, for all 65536 motor commands and all readings.
  `MotorsObey` speaks of the end of a turn only; `TurnInv` adds what each stage
  has brought about. `ObstaclesReported` needs `Answering` as well: a reply is there
  only in the turn that answers a request, so it is compared with that turn's
  manoeuvre.
- `WheelEncoderProofs`: `TypeCorrect` (of `DriftInv`), `DriftOnlyByReversals`,
  `TornOnlyByCarry`. `DriftInv` distinguishes the direction of the last movement,
  since the count rounds up on the way forwards and down on the way back.
- `FuelGaugeProofs`: `GaugeInvariant`, `TheBatteryIsNeverRead`,
  `TheBusCarriesTheAddress`, `RequestsLast`, whatever the gauge answers.
- `MinosReceiveProofs`: for every size of the ring, every text and every way
  `read()` cuts the stream. `TypeCorrect`, `RingInvariant`, `ReceiveInvariant`,
  `ShortReads` and `OverflowIsNoticed` are about the ring: `RingInv` joins its
  contents with the fact that `recv` leaves at most a packet in it; the second is
  what bounds the reads that can overflow it. `CutWhereSent`,
  `NoReadingInvented`, `NoReadingLost` and `PairsAreClose` are about the packets. That
  the bytes come in order does not say where `recv` cuts them, and where it cuts
  depends on all it has dropped before. The invariant `CutInv` therefore speaks
  of a `Walk`: a set of places in the stream, each with the number of the last
  reply served before it, from which the cut goes on one byte (no 0xAA there) or five
  (a packet), and which reaches the end. Two walks in a row are one (`Joined`), so
  that it is enough to walk through an answer of the robot; only one whose echo
  is numbered 0xAA and torn by a text can be cut wrongly, and the
  walk leaves it a byte late at most. A late walk stays late only through answers
  numbered 0xAA: the first packet with another number puts it right (`shifted`).
  Nothing is assumed of how the numbers follow each other. The replies numbered along a walk increase, so that none is served twice and
  none between two is missing, from which `PairInv` concludes that no poll lies
  between the encoders of a position. `TextAssumption` is what the proofs need of
  a text: characters below 0xAA, at least two of them; `printString` sends literals
  and digits, the shortest text 30 characters.
- `WheelOdometryProofs`: `RefusalIsKept`, `ExactJustIfBytesAgree`, `RefusalLasts`, for
  bytes of every even number of values, any limits and any number of wheels. The
  heart is `SwappedExact`, what wrapping makes of the difference of two counts whose
  bytes are swapped: it is the true difference just if the high and the low bytes
  differ by the same amount. `OdometryInv` is inductive: after a
  refusal neither the time stamp nor the counts of `nextState` change unless a new
  packet comes, and then the state is judged at once.
- `HostProofs`, on the pictures: `BuffersCorrect` and `BuffersImplementLatestFrame` for
  `FrameBuffers` alone, that is for either camera; `HostBuffersCorrect` carries the
  first over to the threads of the host by showing each of their steps to be a
  step of the buffers or none. `ReaderAlone` is not inductive; it needs where the
  three buffers are while either side is between its two assignments
  (`BuffersDistinct`) and which frame each holds (`NewestKept`). `PointersCorrect`
  follows from `PointersHold`, which says at each point between a test and a use
  what the shared pointer can be; `SavedWhole` adds the buffers' invariant, and
  `HostTypeCorrect` the types of the threads' own variables.

- `HostProofs`, on the room map: `CounterFollows` for every even length of a
  history, `PointsAhead` for all coordinates and `PointsBehind` for every size of a
  sector. The counter is the number of open observations because a history moved by
  one bit has one more at its head and one less at its end, whatever the counter
  does modulo its range.
- `HostProofs`, on the server: `SomebodyAsked`, `DrivenByHeldKeys` and
  `StuckUntilRestart`, for any clients and keys and any number of messages under
  way. `MovesAsHeld` is not inductive: the motors are those of the last command
  carried out and the keys those of the last received. `Orders` closes the
  gap: the newest motor command under way, or with none under way the motors,
  are what the driver holds; before the first stop the motors do not count, as it
  will stop them (`moving`). `Connection` says when commands may be under way at
  all, and `Asked` where the request or the reply is that somebody waits for.
- `HostProofs`, on the queue: `QueueTypes` without a condition, `EachWaitsOnce` and
  `ThrowsOnlyAfterRace` under `LightLoad`, for any commands, periods and limit and
  until the threads first meet: then nothing is left to prove, and the loop may
  throw or the process crash. The
  condition is needed: with a heavier load the loop does overflow, as section 4
  says. It bounds only what waits at the same time, so the theorems speak of runs of
  any length. `QueuedOnce` is not inductive, because it does not say why a command
  that waits is not due again. The invariant `Waiting` says it with a place in
  the queue: the command in place i is not due before i - 1 more turns have passed
  (`InTime`), and one that does not wait is late by less than a turn (`NotLate`). No
  command waits twice, so the queue is no longer than the commands and pictures
  there are (`QueueLength`), and so even the last in it is run within its period.

Only model-checked: liveness (`TransmitterStopsOnlyStalled`, `NoOtherLoss`,
`ChosenIsShown`, `EachRunsForever`, `PictureTaken`, `Answered`), which is out of
the prover's reach. Every invariant and every action property of a passing run is
a theorem. The refuted properties have counterexamples in the runs.

## 6. Disagreements found

Shown by a run that finds the violation:

1. `main.c:792` "no command has been received in the last 1.5 seconds and the
   robot should stop moving": nothing reads `TIMEOUT` (`motor_timeout`).
2. `minotaur.cpp:219` "Get Left Encoder": the two bytes of a count are swapped
   between firmware and host (`encoder_bytes`).

Met while modelling; the modules contain the behaviour, and a passing run is
stated so that it holds in spite of it:

3. `UARTfunctions.c:59` "wait if buffer is full": the wait never ends, because
   only the loop it blocks empties the buffer (the hang of `FailuresLast`).
4. `main.c:625` "there is a drop off and back up for a bit and to the right": if
   a rear sensor trips as well, the later test wins and the robot drives forwards
   (`decision` in `MotorControl`).
5. `main.c:359` "Send all sensor data back": the last packet of a reply waits in
   the host's ring for the next byte, so the right encoder is served with the next
   poll (`EncodersWithinOnePoll`).
6. `minotaur.cpp:258` speaks of 1/100 of an inch per microsecond, the next line
   tests for 1/1000.
7. The fuel gauge is never read (`BatteryNeverRead`); no comment promises it.

## 7. What is not modelled, and why

Most of the repository is not the robot's program: the libraries under `Kinect`
(OpenNI, NITE, SensorKinect and their samples with OpenGL headers), board files
and prototypes are vendored or generated, and make up nearly all of its lines. What follows is about the program itself.

Image processing, the pictures of the frame sources, walls and the geometry of
odometry work on floating-point numbers, which TLC does not have. Colour
conversion has no control. Serial set-up is a sequence of system calls; what it
configures is an assumption of `MinosReceive`, except that it leaves the
translation of carriage returns alone, which may turn a byte 0x0D into 0x0A
before the host sees it. `getpacket`, `waitpacket` and `suggestState` have no
caller. The start of the Kinect and its tables of angles run once, before any
thread. `client.html` is modelled by what it sends.

Left out of modelled parts:

- the battery field of the host's state, which nothing computes with;
- two threads in one picture: the picture thread converts what a source has drawn
  into the buffers it shows (`ComFrame`) while the queue thread may be redrawing it,
  without a lock, so a picture of a source may be shown half redrawn. The pictures
  of the sources are left out with image processing; only which source is used is
  modelled;
- the increment of `video_count` and `depth_count` right after the unlock
  (`kinect.cpp:159`, `165`) is part of the unlock: the map and the position picture
  read the second of them, only to wait for the first depth frame;
- the copy of `currentState` while another thread writes it: a mixed position
  would only be displayed;
- short writes to the serial port, which the host only logs;
- the end of the host's process when a keep-alive cannot be written; to the server
  it is the end after a short read, which is modelled;
- a crash of the server, and a second robot: instances share only the table, and
  a name used twice replaces the entry as a restart does.
