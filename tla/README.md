# MotorInfoUpload: TLA+ models and proofs

MotorInfoUpload is a gateway. Electric vehicles connect to it over TCP and send
packets (login, realtime data, reissued data, logout, heartbeat); it forwards
them to a *public platform*, to which each of its *uploaders* keeps a TCP
connection of its own and logs in, and passes some of the platform's answers
back to the vehicles. Code references are relative to `src/src/` and, unless
another directory is named, `src/src/Forward/`.

## 1. Inventory

### Threads

| Thread | Code | Number |
|---|---|---|
| main | `MotorInfoForward.cpp` `main`: starts the others, then waits on `quit` | 1 |
| TCP thread | `tcpServiceTask`: runs the `io_service`, hence every handler of `TcpServer` and `TcpSession` | 1 |
| uploader | `Uploader::run` | 1, more after SIGUSR2 |
| response reader | `ResponseReader::run`, one per uploader | as uploaders |
| signal handler | `signal_handler`, on whatever thread the signal interrupts | - |

### Components

| Component | State | Operations | Talks to | Hard behaviour | What makes it correct |
|---|---|---|---|---|---|
| **BlockQueue** (`../BlockQueue.h`) | `m_queue`, mutex, `m_notFull`, `m_notEmpty` | `put` (back or front), `take`, `isEmpty` without the mutex | TCP thread and uploaders | waiting, notify_one, spurious wakeups, capacity | behaves as an atomic bounded queue; no wakeup is lost |
| **Forwarding** (`TcpSession::readDataUnitHandler`, `resource::is_connected_with_public_server`, `Uploader::run`, `forwardCarData`) | the realtime and the reissue queue, `offline`, `uploader_pool`, `m_carData`, the connections | receive, look for a connection, drain, put; take, stamp, send, put back; go offline; add uploaders | everything | checks without a lock that are stale when used, drops at any step, several uploaders, full queues | no packet lost or doubled; late packets go out as reissues; order; data only after login; progress |
| **Platform login** (`Uploader::setupConnAndLogin`, `setupConnection`, `logout`) | `i`, `wait_timeout`, the connection | connect, log in, wait, retry, log out | response reader (status), platform | lost or late answers, drops during the wait, intervals | the practice rounds are done before data flows; the interval follows the unanswered logins; an old answer is not taken for a new one |
| **ResponseReader** | `m_responseStatus`, its mutex and condition variable, `m_responseBuf`, `m_packetHdr` | read an answer, publish its status, forward it, reset while there is no connection | uploader, session table, sessions | status overwritten before it is seen; sleeps with the mutex; wait without a predicate | an ok that is acted on was published during the wait; the switch of `run` meets no status it does not know; a wait is held up by the reset only |
| **Vehicle sessions** (`TcpServer`, `TcpSession`, `vechicleSessionTable`) | session per connection: buffer, timer, `m_quit`, `m_vin`; the table by VIN | accept, read header, read data unit, timeout, write; insert, erase, find | TCP thread and readers | the table is read without its mutex, entries outlive sessions, an iterator is used after `erase`, timers race reads, the answer's buffer is reused | an answer goes to a session of its vehicle; an entry names a session that may still be read; a dead entry does not last; a silent session ends |
| **Serial number** (`Uploader.cpp:217-230, 258-261, 289`) | `m_serialNumber`, `m_uploader_last_login_time`, the static buffer of `localtime` | reset at a new day or past the maximum, read, increment | all uploaders | three critical sections, one of them none; wrap | numbers stay in range; one uploader alone counts up without gap or repetition |
| **Data unit parser** (`TcpSession::parseDataUnit`, `Util`) | buffer positions | walk over the information bodies, drop two kinds, new length, command and check code | sessions, uploaders | counts with special values, lengths in one or two bytes, units longer than the buffer, packets changed on the way | of the units that fit the buffer the well-formed go out well-formed, the others are rejected |
| **Service** (`main`, `signal_handler`) | `quit`, the pool | start, SIGINT/SIGTERM, stop and join, a failing accept | all threads | a notification before the wait; a join of a thread that waits at a queue; repeated SIGUSR2; the queues end with the process | no packet is lost before the end of the process (what is queued is lost with it); a stop, once `main` is woken, completes unless the TCP thread waits at a queue nobody serves |
| **PublicServer** | the socket | wrapper of `gsocket::socket` | uploader, reader | lets every exception but a refused connect through | - |
| Configuration, logging, constants, scripts | - | input and output only | - | - | - |

## 2. Modules

| Module | Models | Checked by | Proved in |
|---|---|---|---|
| `BoundedQueue` | the abstract queue: `Put` and `Take` in one step | - | - |
| `BlockQueue` | the class: one action per critical section of `put` and `take` | `MCBlockQueue` | `BlockQueueProofs` |
| `Relay` | the abstract gateway: packets are accepted, may fall late, are forwarded | - | - |
| `Uplink` | an uploader's connection, abstractly: connect, log in, practise, carry data | - | - |
| `Forwarding` | TCP thread, uploaders, signals, over atomic queues | `MCForwarding` | `ForwardingProofs`, `ForwardingPackets` |
| `Service` | `main` around `Forwarding`: handlers, stop, join, a failing accept | `MCService` | `ServiceProofs` |
| `PlatformLogin` | one uploader logging in, its response reader, the platform | itself | `PlatformLoginProofs` |
| `VehicleSessions` | the vehicles' connections, the session table, the reader's way back to the vehicle | itself | `VehicleSessionsProofs` |
| `SerialNumber` | the uploaders' shared login counter, over days and restarts | itself | `SerialNumberProofs` |
| `DataUnit` | the bytes of one packet: parser, reissue, check code; what a piece of the format is | `MCDataUnit` | `DataUnitProofs` |
| `DataUnitFormat` | all ways to read a data unit, found by recursion | `MCDataUnit` | `DataUnitProofs` |

How they fit together. `BlockQueue` is shown to implement `BoundedQueue`, which
is what lets `Forwarding` treat `put` and `take` as atomic. `Forwarding` takes a
login as one step whose outcome the platform decides, `PlatformLogin` opens that
step up, and both are shown to implement `Uplink`, the former for all uploaders and
the latter for one: what `Forwarding` leaves out of a login moves connection, phase
and practice rounds in no other way. `Forwarding` is shown to implement `Relay`, and
`Service` extends it with the life of the process. `VehicleSessions` is what comes before the
`Receive` of `Forwarding`, and after the `Switch` of `PlatformLogin`: where packets
come from, and where answers go. `DataUnit` has the bytes that `Receive`, the change to a
reissue and a write handle, `SerialNumber` the counter inside `setupConnAndLogin`.

### BlockQueue

A thread in `put` or `take` contends for the mutex (*awake*) or is blocked on a
condition variable. What happens between getting the mutex and giving it up is
one action: `PutWaits` and `TakeWaits` are a test of the `while` condition and
the wait, `PutInserts` and `TakeRemoves` the rest with the `notify_one`. A woken
thread goes back to contending and competes with newcomers. `SpuriousWakeup`
wakes a waiter for no reason. `take(seconds)`, `wait` and `clear` have no caller.

### Forwarding

| State | Code |
|---|---|
| `realtime_queue`, `reissue_queue` | the two `BlockQueue`s of `resource` |
| `tpc`, `scanned`, `scanEnd`, `packet`, `moving` | where the TCP thread is in lines 145-157 of `TcpSession.cpp`, the scan of the pool, `packet`, and the packet between `take()` and `put()` of line 151 |
| `upc[u]`, `logins[u]`, `carData[u]` | where uploader `u` is in `run`, the rounds its preamble has left, `m_carData` |
| `connected[u]`, `loggedIn[u]` | `m_publicServer.is_connected()`; whether `setupConnAndLogin` returned on this connection (history) |
| `offline`, `pool` | the flag of SIGUSR1, the size of `uploader_pool` |
| `arrived`, `late`, `sent` | history: what came, what was ever in the reissue queue, what was written |
| `seen[u]` | history: the packet at the front of the reissue queue when `u` found it not empty (line 123) |

Each test without a lock is an action of its own: one element of the connection
scan, `isEmpty()` in the drain loop, `isEmpty()` in `Uploader::run`. A connection
may break (`Drop`) and a write may fail (`SendFails`) at any time.

What a reader might wonder about:

* A packet is an arrival number and a command. The vehicle's bytes, its VIN and
  `outputMsg` are left out; in the compliance modes the filter by VIN
  (`TcpSession.cpp:95-103`) only decides which packets arrive.
* `uploader_pool.push_back` may reallocate the vector while the TCP thread
  iterates over it. The model goes on over the elements the loop began with; a
  read of freed memory is not modelled.
* SIGUSR2 adds uploaders one by one. `N` counts those that are ever started, by the
  first such signal or by a repeated one (the code does not stop at
  `maxUploadChannelNum` then); the theorems are for every `N`. An uploader runs before it
  is in the pool, and the model lets other threads act between.
* `LoginOk` does not ask whether the connection still stands: `setupConnAndLogin` may
  return after it broke. `loggedIn` then stays false.
* An exception that is none of the socket ends `run` wherever it comes from (`Quit`,
  `SendThrows`): a failed connect, a failed login, `outputMsg` after a packet was written, or
  `tcpSendData` before. In the last case the packet stays in `m_carData` of an uploader
  that has ended: it is still in one place, as `Conservation` has it, but nobody forwards it.
* Nothing in the program interrupts an uploader, so the `logout(false)` of line
  146 of `Uploader.cpp` is not reached, and is left out.

### Service

`main` is where `main` is: `installing` its handlers, `installed`, `waiting` on `quit`,
`woken`, `joining` the TCP thread, `exited`. `stopped` says that the `io_service` runs no
further handler. SIGINT and SIGTERM wake a waiting `main` (as may a spurious wakeup), end
the process while the handlers are not installed (`SigtermKills`), and in between are
lost, which is no step. `AcceptFails` is an accept that reports an error: `acceptHandler`
or `TcpServer::start` does not go on accepting, and `main` is not told. A stop that comes while
the TCP thread is inside a handler waits for that handler, so `JoinTcpThread` needs
`tpc = "idle"`; every other thread ends with the process. The queues are memory: `Exit`
empties them and every hand, and what was not written by then is lost.

What this shows besides the properties: the join waits for ever where the TCP thread
does. `StopHangs` names these places: `take()` of the drain loop on a queue an uploader
emptied, and a `put` into a full queue while no uploader takes from it. The second also happens
with a good connection: the TCP thread, on a scan that is stale, drains the realtime queue
into a full reissue queue while the uploader waits in `realtime_queue.take()`.

### PlatformLogin

`upc` is where the uploader is: at the `loop` of `setupConnAndLogin`, about to
`send`, about to `enter` the wait, `blocked`, `woken` or `timedOut` and in need of
the mutex, about to `look` at the status, `in` the main loop, or `stopped`. `rpc`
is where the reader is. The mutex needs no variable: the uploader holds it only
within one step, the reader while it is `sleeping`. `requests` and `answers` are
what is under way on the current connection. `accepted`, `unanswered` and `fresh`
are history.

Both threads may end before their time. An exception of the uploader's send that is none of the
socket is caught by `run` only (`SendThrows`). The reader's switch ends its loop at a
status it does not know (`rpc = "dead"`), and so does `readResponse` when it meets an answer that
leaves no room for its check code (`ReadThrows`, `rpc = "ended"`). The platform answers
a packet or keeps silent; `Unasked` is an answer nothing was sent for, such as a second one.

`waitNextStatus` returns a reference, so the uploader looks at the status after it
gave the mutex up: that is the state `look`. Its caller takes the *next* status
for its answer, without asking which packet it answers.

The ten minutes offline of platformCompliance mode appear here as a connection
that breaks. The practice rounds are `Rounds` (5 in the code). `Endings` names the
ways in which a wait may end besides a notification: `timeOut` and `noReason`.
`roused` is set while a wait that ended for no reason is acted on.

### SerialNumber

`m_serialNumber`, `m_uploader_last_login_time` and the buffer of `localtime` (`tm`) are
shared by all uploaders. Only the reset and the increment hold the mutex; every other access is a step
of its own, so an uploader may compare the day another one converted. A time is its day
(`today`, `Midnight`). `Restart` is the process started again, which stores nothing.
`login[u]` is what a login carries, `counted` the number of the last one that succeeded
(history).

With several uploaders numbers may repeat, be skipped or be reset without cause, the date of a
login may be that of another conversion, and a number may exceed `MaxSerialNumber` by one for
each further uploader. No comment or document promises otherwise, so none of this is a finding;
the properties say what is left: the range, and that one uploader alone counts correctly.

### DataUnit

`parseDataUnit` for realtime and reissue uploads, as a cursor over the bytes of one data unit;
`where` the packet is, from the vehicle's socket to the platform's; and the fields the program
changes: command, length, data, check code. Each round of its two loops is a step: `ParseTime`,
`ParseInformation` (one type code), `ParseSystem` (one battery system, `sysn` still to come),
`EndParsing`. `GoOn` takes the cursor an operation leaves; the cursor `Thrown` is the exception
that ends the parsing. The check code a vehicle sent is read and never compared
(`TcpSession.cpp:299-306`), so the last byte of a unit is any. Nor does the program look at the start
code (`start`), which it copies from the vehicle (`TcpSession.cpp:216`): "##" is one choice
among others. And nothing compares the length in the header with the buffer: `readDataUnit` reads up
to 65536 bytes behind the header of `m_packetRef`, which has 512 (`TcpSession.cpp:112-118`). A
unit that does not fit (`Fits`) overruns it, and there the model stops (`Overrun`). Logins,
logouts and heartbeats, whose bytes are kept, are in `VehicleSessions`.

`BlockCheck` says of each bit whether an odd number of bytes has it; `MCDataUnit` compares that with
the loop of exclusive ors (`BlockCheckAssumption`).

The reference is the format itself, between two positions and without a cursor: `IsPlain`, `IsAlarm`,
`IsSystem`, `AnnouncesSystems`. In one point it follows the
code and not a format: a probe count of 0xffff or 0xfffe, which is abnormal like the same
values of other counts, makes the code set `sysn` to 0 and not the count
(`TcpSession.cpp:282-286`). It then moves on by that many bytes, and the packet is refused.
`DataUnitFormat` puts it together by recursive functions, which TLC
computes: `AreSystems` (the positions behind so many systems) and `Readings` (all ways to cut the
unit into pieces). `Kept` has the positions of what is to be handed on, and `HasJust` says of
data that it consists of those bytes in their order.

### VehicleSessions

| State | Code |
|---|---|
| `table` | `vechicleSessionTable`, `NoSession` where a VIN has no entry |
| `pos[s]` | which `async_read` of session `s` is under way, or why there is none any more |
| `arrived[s]`, `due[s]` | the handler of that read, of the timer, is queued to run without an error |
| `open[s]`, `quit[s]`, `vin[s]` | `m_socket.is_open()`, `m_quit`, `m_vin` |
| `writes[s]` | what `async_write` has still to send, and from which buffer |
| `rpc`, `buf`, `iter` | where the reader is, `m_responseBuf`, the session in the entry its `find` met, as the memory of that entry shows it |
| `dangling` | that entry has been erased, which makes the reader's iterator invalid |

One action per handler, split by the command for `readDataUnitHandler`: `DataRead`,
`LoginRead`, `LogoutRead`, `HeartbeatRead`, and `Malformed` where `parseDataUnit`
throws. The reader's steps are `ReadAnswer`, `Find` and `Write`; the table may change
between the last two. The code keeps a map iterator from `find` to `iter->second->write`
(`ResponseReader.cpp:62-67, 75-80`), which `erase` makes invalid. What the reader does then is
undefined: in the model it finds the old session still in the freed memory, or the one of an
entry that was inserted since (`Insert`), or the process crashes (`Crash`, which ends everything).
A write that came about in this way is `astray`.

`m_timer.cancel()` has no effect on a handler that is queued already, and closing the
socket none on a read that has completed: `due` and `arrived` stay set, and the two
handlers run in either order. A write is sent from the memory it was given, when the
connection takes it. `insert` of a `std::map` leaves an existing entry alone, so a
vehicle that connects again before its old session was erased is not entered; the
model has that, and `EntryHasItsSession` says what is true all the same.

An `accept` that fails is in `Service`. Left out: what is in the released buffer of a heartbeat's
answer, bytes of two writes that interleave, and the undefined behaviour of searching
the map while it is changed.

## 3. Runs

| Run | Configuration | Instance | Shows |
|---|---|---|---|
| `block_queue` | `MCBlockQueue.cfg` | 3 threads, capacity 2, 2 values | `TypeOK`, `CapacityRespected`, `NoLostWakeup`; `RefinesBoundedQueue`; `ServesItsCallers` |
| `forwarding_one` | `MCService.cfg` | `main`, 1 uploader, capacity 2, 3 packets, 3 commands, release mode | `TypeOK`, `ConservedUntilExit`, `SeenIsTaken`, `DataFollowsLogin`, `RefinesRelay`, `RealtimeIsServed`, `ReissueIsServed`, `StopCompletes` |
| `forwarding_two` | `MCForwardingTwo.cfg` | 2 uploaders, capacity 2, 2 packets, platformCompliance, 1 practice round | `Conservation`, `SeenIsTaken`, `DataFollowsLogin`, `RefinesRelay`, `RefinesUplink` with both signals |
| `platform_login` | `PlatformLogin.cfg` | compliance, 1 practice round, 4 packets written, 1 answer unasked, waits may end by timeout or for no reason | `TypeOK`, `IntervalFollowsUnanswered`, `SwitchKnowsStatus`, `OkIsFresh`, `RefinesUplink`, `OnlyResetHoldsUpWaits` |
| `serial_number` | `SerialNumber.cfg` | 2 uploaders, maximum 2, modulus 5, 3 days | `TypeOK`, `NumberInRange`, `AloneCountsUp` |
| `data_unit` | `MCDataUnit.cfg` | 4781 data units, whole, damaged or too long, each with 2 start codes and 2 commands | `TypeOK`, `AcceptsTheFormat`, `WrittenIsSound` |
| `vehicle_sessions` | `VehicleSessions.cfg` | 2 sessions, 3 VINs, one of them not let through, 3 packets | `TypeOK`, `EntryHasItsSession`, `AnswersGoToTheirVehicle`, `DeadEntryIsCleared`, `TimedOutSessionEnds` |
| `forwarding_reconnect` | `MCForwardingReconnect.cfg` | 1 uploader, capacity 1, 5 packets | **violated**: `WaitingUploaderReconnects` |
| `forwarding_drain` | `MCForwardingDrain.cfg` | 1 uploader, capacity 2, 2 packets | **violated**: `OfflineDataIsReissued` |
| `login_closed` | `PlatformLoginClosed.cfg` | release, 3 packets written | **violated**: `OnlyFailureThrows` |
| `login_stale` | `PlatformLoginStale.cfg` | release, 4 packets written | **violated**: `ReturnMeansLoggedIn` |
| `sessions_answers` | `VehicleSessionsAnswers.cfg` | as `vehicle_sessions`, 2 packets | **violated**: `ForwardedAnswersArrive` |

The properties in words:

* `NoLostWakeup`: while a taker sleeps there are as many takers on their way as
  elements, and the same for putters and free slots.
* `ServesItsCallers`: while some put, or some take, is possible, some caller
  completes one. (No caller in particular: `notify_one` and newcomers may pass
  one by for ever.)
* `Conservation`: each packet that arrived is in exactly one place: a queue, one
  thread's hands (of an uploader that has ended, too), or written. `ConservedUntilExit`: it is
  so, whatever signals, failing accepts and stops there are, until the process ends. At its end
  all that is not written is lost, which no comment or document speaks of.
* `RefinesRelay`: each packet is forwarded at most once, a realtime upload as a
  reissue exactly if it was late, and packets that were never late leave in order
  of arrival on each uploader's channel. (Packets that were late do not: a
  put-back goes to the front, a drain to the back.)
* `DataFollowsLogin`: vehicle data goes out only on a connection whose login
  returned.
* `RealtimeIsServed`: while connection and login last, no packet stays in the
  realtime queue.
* `ReissueIsServed`: while they last, a packet in the reissue queue is forwarded,
  unless the uploader already waits for realtime data when it comes.
* `SeenIsTaken`: the packet an uploader saw in the reissue queue before it calls `take()` is still
  there, or another uploader took it, and has it in hand or wrote it. So it is not lost in between,
  and an uploader that is alone never waits there.
* `RefinesUplink`: connections are set up only to log in, and the main loop is reached only
  through a login that returned and, in the compliance modes, all practice rounds. In
  `Forwarding` for every uploader, in `PlatformLogin` for the one there.
* `StopCompletes`: once `main` is woken the process ends, or the TCP thread waits (if only for a
  moment) where `StopHangs` says. It does not say that a SIGTERM wakes `main`: one that comes
  before the wait is lost.
* `NumberInRange`: a login goes out with a number from 1 to `MaxSerialNumber`, plus one for
  each further uploader.
* `AloneCountsUp`: until a second uploader is started, a login has the number after that of
  the last login that succeeded, or 1 on a new day or after the maximum, however often it
  is repeated and over midnight; and a date between the day it began and today.
* `AcceptsTheFormat`: `parseDataUnit` lets a data unit that fits the buffer through exactly if it can be read as
  a time, pieces of information and one byte; what it hands on is the time and all pieces but
  voltages and temperatures, in order.
* `WrittenIsSound`: whatever queues and failed writes a packet went through, it is written
  with its own length, the realtime command exactly if it came with that and was never late,
  and the check code of its own bytes if its two start bytes are equal, as in "##", or its command
  was not changed. Otherwise it is not: `Uploader.cpp:130` computes the code over the start
  code too, where `TcpSession.cpp:306` leaves that out, and two different start bytes make it wrong.
* `IntervalFollowsUnanswered`: the long login interval is used exactly after more
  than `LoginTimes` unanswered logins on one connection.
* `OkIsFresh`: a `responseOk` the uploader acts on was published during its wait,
  unless that wait ended for no reason (`waitNextStatus` does not test for that). It need not be
  the answer to the login: see `ReturnMeansLoggedIn` below.
* `SwitchKnowsStatus`: the switch of `ResponseReader::run` never meets a status it does
  not know, which would end the thread, although the uploader may write the status between.
* `OnlyResetHoldsUpWaits`: a wait for an answer that lasts for ever is one in which the reader, without
  a connection, sleeps with the mutex again and again. Neither a platform that keeps silent nor a
  reader that has ended holds it up. (That the reader does is possible: the mutex is not fair.)
* `EntryHasItsSession`: an entry of the table names a session of that VIN, one whose
  reading neither failed nor ended with a logout.
* `AnswersGoToTheirVehicle`: an answer is handed only to a session of the vehicle it
  is for, though it may be another session of it than when the packet was sent, unless the entry was
  erased between the reader's `find` and its `write`. In that case the answer may go to any
  vehicle, or the process crash.
* `DeadEntryIsCleared`: a session whose socket is closed (after a packet that came
  with the timeout it may be in the table) leaves it once something is written, or the process
  crashes. A malformed packet leaves the socket open and the entry in the table; of that the
  property says nothing.
* `TimedOutSessionEnds`: a session whose timer expired stops reading, although packets
  may have arrived and their handlers run first, or the process crashes.

### What the violated properties say

Each is a sentence of a comment or of the configuration file that the code does
not keep; PROJECT.json quotes it.

1. `WaitingUploaderReconnects`. The uploader waits in `realtime_queue.take()`
   without a timeout. If the connection breaks, the TCP thread puts every packet
   into the *reissue* queue, the uploader is never woken, and nothing reconnects;
   when the reissue queue is full the TCP thread stops too.
2. `OfflineDataIsReissued`. The drain loop tests `isEmpty()` and then calls
   `take()`; if an uploader takes the last packet in between, the TCP thread
   blocks with the new packet in hand.
3. `OnlyFailureThrows`. The reader publishes `connectionClosed`, and its loop sets
   the status back to `init` before the uploader has the mutex; the uploader
   takes the default branch and its thread ends.
4. `ReturnMeansLoggedIn`. An answer read from the previous connection (or to
   vehicle data) is published while the login on the new one is waited for, and
   passes for its answer.
5. `ForwardedAnswersArrive`. `TcpSession::write` starts an `async_write` from
   `m_responseBuf` and returns; the reader reads its next answer into the same
   buffer, and the vehicle is sent that one, or a part of it.

Two more sentences of comments were looked at.

* The second half of `TcpSession.cpp:149` says that after a reconnection the uploader sends the data of
  the reissue queue first. It looks there first in every round, but a packet
  of the reissue queue may be overtaken all the same: the uploader decides for the realtime queue, or
  the TCP thread for the connection, on what it read earlier. `Relay` therefore lets late
  packets be overtaken, and promises order only for the others.
* The header of `MotorInfoForward.cpp` (lines 22-26) says that vehicle data is forwarded
  without a login (不登入，直接转发) and answers are not read. This is obsolete: `Uploader::run` logs in
  before anything else in every mode, starts a `ResponseReader`, and `DataFollowsLogin` holds.

### Bounds

* Three threads on a `BlockQueue` let two sleep on one condition variable while
  the third acts; capacity 2 lets an element or a slot remain after the one a
  thread was woken for.
* Capacity 2 and three packets (`forwarding_one`): a queue fills up with the TCP
  thread waiting to put and a packet in the uploader's hands; a drain that moves
  two packets and one put back in front of them occur. The third command stands
  for vehicleLogin and vehicleLogout, which are never stamped.
* Two uploaders and two packets (`forwarding_two`): they race for one packet, each
  holds one, or one drains while the other sends. One practice round exercises
  login, logout and the last login; more repeat it.
* `forwarding_reconnect`: the property speaks only of states after which enough
  packets come to fill both queues (`Len(arrived) + Capacity + 2 <= NPackets`), so
  that it is not violated merely because the model ran out of packets.
* `MaxSends = 4` is a login, a logout, a login and a packet, or three unanswered
  logins around a change of the interval (`LoginTimes = 1`), a drop among them.
  It bounds what is written, not how often drops or resets happen. `MaxUnasked = 1`, one answer that
  nothing was sent for, may pass for that of any later packet; the violated runs do without.
* Two sessions may be of one vehicle that connects again or of two vehicles; the
  third VIN is one the compliance modes do not let through. Three packets are a login
  and another packet on one connection with a login on the other, in any order. The
  violated run needs only two: two answers to be read one after the other.
* `serial_number`: a maximum of 2 is passed and reset within three logins; with two uploaders the
  counter may reach 4, so the modulus 5 leaves what the assumption asks for and no more.
  Three days let an uploader compare a day with one that is neither its own nor today.
  The theorems have no such bounds, but the same assumption: the configured maximum of 65531 leaves
  room for four uploaders, while `Constant::maxUploadChannelNum` is 100. With more, the counter
  may wrap to 0, which the assumption excludes and nothing in the code does.
* `data_unit`: every type code, a code there is none of, and counts of 0, 1, 2, too many, abnormal
  and invalid, in one piece or two in a row; each such unit with up to one piece also cut at
  every length and with each byte behind the time changed to a value the parser treats
  apart; one unit of more than 255 bytes for the second byte of the length, and one of 495, which
  `m_packetRef` has no room for. Each comes with the start code "##" and with one of two different
  bytes, and as a realtime and a reissue upload.

### Fairness

* `BlockQueue`: weak fairness of each thread's `Put` and `Take`: a thread
  contending for the mutex gets it. Critical sections are short and none blocks
  inside. Nobody has to call, or to wake spuriously.
* `Forwarding`: weak fairness of the TCP thread and of each uploader's own steps:
  threads are scheduled. For `put` and `take` this needs more than scheduling: a
  caller whose operation stays possible completes it. With one uploader it is
  the only thread that waits for its condition, and the lemma `NoLostWakeup`
  gives that; so liveness is checked with one uploader. The platform and the
  network are not fair. `BusySpec` adds that vehicles go on sending.
* `Service` (`FairService`): the same while the process lives, and weak fairness of `main`'s
  own steps. Nobody has to send a signal, so `StopCompletes` begins where `main` was woken.
* `PlatformLogin`: weak fairness of both threads and of the timer. Acquiring the mutex is only
  weakly fair too: while there is no connection the reader frees the mutex only to take it again,
  and neither boost nor the standard promises that the uploader gets it in between.
  `ReadFails`, `Read` and `ReadThrows` are not fair: a silent connection may stay so.
* `VehicleSessions`: weak fairness of the handlers that are queued, while the process lives, for the
  `io_service` runs them in turn. This takes for granted that the TCP thread does not
  wait for ever in `put` (see `Forwarding`). Vehicles, timers and the reader are not
  fair: nobody has to send, and no timer has to expire.

`CHECK_DEADLOCK FALSE`: in `BlockQueue` every thread may rightly sleep for ever; the
other models stop at their bounds, or when the one packet of `DataUnit` is written or refused or overran its buffer.
`SerialNumber` is checked for deadlocks: it may always restart. The program itself
may also come to a stop, with the TCP thread waiting to put into a full reissue
queue while every uploader waits in the realtime queue or to put a packet back.

## 4. Proofs

All proofs are for every value of the constants that the modules' assumptions
allow, `NPackets` and `MaxSends` included.

**BlockQueueProofs.** `TypeCorrect`; `CapacityIsRespected` (inductive with the type:
each insertion is guarded by `# Capacity`, so `<= Capacity` is needed before it);
`NoWakeupIsLost` (its two conjuncts are inductive, with lemmas on how the
cardinality of the awake callers changes when one leaves, one sleeps or one is
woken); `ImplementsBoundedQueue`: waiting and waking are stutters of
`BoundedQueue`, the critical sections that insert or remove are its `Put` and `Take`.

**ForwardingProofs.** `TypeCorrect`, which also says that a thread holds a packet
exactly between taking it over and handing it on, or the end of its thread; `DataOnlyAfterLogin`, whose
inductive invariant is that an uploader past its login, and still connected, has
`loggedIn`: every step that breaks a connection withdraws both;
`ImplementsUplink`: every action maps to one of `Uplink` or a stutter. It needs one invariant
more, `AsleepInv`: an uploader that SIGUSR1 put to sleep has no connection, so its next login is one
that `Uplink` allows.

**ForwardingPackets.** `PacketsAreConserved`. `Held` maps each holder (queue,
hand, `sent`) to the sequence of what it holds. The inductive invariant
`ConservationInv` has three parts: every packet that arrived is held (`Complete`), in
one place (`Distinct`), and nothing is held that did not arrive (`Within`); without the
last a new arrival could be a packet that is there already. Every action is an instance
of a few moves, each with its lemma: a packet arrives (`Received`), goes from the front
of one holder to the front or the back of another (`Moved`), or nothing moves
(`Unmoved`).

`ImplementsRelay`: `Receive` is `Accept` of `Relay`, a put into the reissue queue makes a packet late,
a successful write forwards, all else is a stutter. That a write is a step of `Relay` needs
three invariants: the packet was not written before (`ConservationInv`); its command is its stamp
(`StampInv`, which knows what command a packet has at each place: in the reissue queue it may
still be a realtime upload, or have its stamp already after a failed write); and if it
never was late, everything that went out before it on its channel and never was late has a
lower number (`OrderInv`, along `sent`, the uploader's hands, the realtime queue and the TCP
thread's hands). `StampedInOrder` states the last two. Each is kept only with the
others: a packet that an uploader takes is ahead of the queue because `Conservation` says that no
other place has its number.

`SeenIsAlwaysTaken`: a packet leaves the reissue queue only into the hand of an uploader that takes it
(`ReissueOnlyGrows` for all other steps, `TakenIsInHand`), and from there it goes into `sent` or back into
the queue (`TakenStaysTaken`); the uploader that saw it takes nothing meanwhile
(`WaitsForWhatItSaw`).

**ServiceProofs.** `ServiceTypeCorrect`, `StoppingConserves` (`ConservedUntilExit`), `ServiceSeenIsTaken`,
`ServiceDataAfterLogin`, `ServiceRelays`: the invariants of `Forwarding` carry over, for a step of
`Service` is a step of `Forwarding`, leaves its variables alone, or is the end of the process. Of the last,
one lemma for each invariant that it keeps says so; conservation it does not keep, so the
invariants of the relay are shown until the exit, after which there is no step (`RelayUntilExit`,
`ExitIsFinal`).

**PlatformLoginProofs.** `TypeCorrect`; `LoginIsOneStep`, that a login with all its waits is one step of
`Uplink`, from the type invariant, which knows at which places the uploader is still logging in; `SwitchAlwaysKnows`, from: what is about
to be published is not `init`, and the switch never finds `init`, since only the
reader itself sets it; `OkIsAlwaysFresh`, from: a thread that was notified, or looks
at the status without having been woken for no reason, finds `responseOk` only if
one was published since the wait began; `IntervalIsRight`, from the value of `i`,
`unanswered` and the interval at each place of the loop.

**VehicleSessionsProofs.** `TypeCorrect`; `EntriesHaveTheirSessions`, whose inductive
invariant adds that a session whose header was accepted has a VIN that is let through;
`AnswersAreForTheirVehicle`, from `AnswerInv`: as long as the entry the reader found is not erased it
is the table's entry for the VIN in the buffer, so its session has that VIN; and it stays true
of what was written because a session never changes its VIN.

**SerialNumberProofs.** `TypeCorrect` (the counter does not overflow) and `NumbersAreInRange`, from
`CountInv`: the counter plus the uploaders that are past the reset and not yet at the increment is
at most `MaxSerialNumber` plus the number of uploaders. The type alone is not inductive, as the
increment needs room below the modulus. `AloneAlwaysCountsUp`, whose invariant relates counter,
time of the last login and buffer at each place of the loop while only the first uploader runs.

**DataUnitProofs.** For every data unit of up to 65536 bytes, of which those that do not fit
`m_packetRef` end in `Overrun`, and for every start code. The invariants need no induction over
bytes, for each round of the parser is a step of the model, and the check code counts bytes.

* `TypeCorrect`: for a unit that fits, the cursor stays in it, and `rtData` gets fewer bytes than the cursor
  has passed, so there is room for the check code.
* `WrittenIsAlwaysSound`, from `SoundInv`: length and check code are right from the parser on; the
  command is settled only when an uploader takes the packet. `Uploader.cpp:130` computes the check
  code over a range that starts with the start code; `PairDoesNotCount` says that two equal bytes, as
  in "##", change no bit of it. For different ones nothing is claimed of a code computed there.
* `ParserAcceptsTheFormat`, that is `[]AcceptsTheFormat`: a unit that was let through can be read as a
  time, pieces and one byte more, and what is handed on has the bytes of the time and of the kept
  pieces, each once and in their order; a refused unit cannot be read. Two invariants: `ReadInv` (what
  the parser has gone through can be read, the systems of an unfinished piece included, and `rtData` is
  the selection of the kept bytes so far) and `LeadInv` (every reading of the whole unit has a cut
  where the cursor is, or its systems still to come end at one, so nothing that can be read is
  refused). Under them lies one lemma per operation of the parser, in both directions: it gets to the
  position where the format says the piece ends, and throws only if there is none within the unit
  (`PutReaches`, `FaultsReach`, `AlarmReaches`, `CellsReach`, `ProbesReach`, `PlainReaches`,
  `RoundFollows`, `RoundFinds`). The invariants speak of readings and chains of systems that exist
  (`IsReading`, `IsChain`); that these are what the recursive functions of `DataUnitFormat` compute is
  proved last: what exists satisfies the recursive equation (`ChainEndsAreEnds`,
  `ReadingsFromAreReadings`), and nothing else does (`EndsAreUnique`, `ReadingsAreUnique`, by the
  smallest counterexample, `Smallest`). `SelectionIsJust` then counts the kept positions.

**Only model-checked:** every liveness property (liveness under fairness is out of
the prover's reach); that `BlockCheck` is the loop of exclusive ors, on the pieces of `MCDataUnit`,
because `Bitwise` defines it by recursion the prover cannot unfold; and the five violations.

## 5. External code

`gsocket`, `bytebuf::ByteBuffer` and `gavin::thread` are not in the repository;
Boost and the platform are not either. Assumed: a read or write on a broken
connection throws `SocketException` and leaves the socket not connected; a failed
write leaves the buffer as it was (the code puts it back and sends it again); uploader
and reader share one socket object that can be connected again; starting a thread
object runs `run` once; `put`, `get` and `movePosition` of `bytebuf` throw beyond the
limit, and `getShort` leaves the order of the bytes to the `ntohs` around it; a mutex and a condition variable are as in the C++
standard. `Connect`, `LoginOk`, `LogoutOk`, `Quit` (in part) and `Drop` are the
platform's and the network's choices.

## 6. Plan

In order:

1. Done: `BlockQueue`, `Forwarding`, `PlatformLogin`, `VehicleSessions`, `Service`,
   `SerialNumber` and `DataUnit`, with their abstractions, and a proof of every safety property the
   runs check.
2. In `VehicleSessions`: the released buffer of a heartbeat's answer
   (`TcpSession.cpp:337`), and writes on one socket that interleave (`TcpSession.cpp:176`).

Not modelled, and not planned: configuration parsing, logging, `outputMsg`, constants
and scripts, which only read or print; `take(seconds)`, `wait` and `clear` of `BlockQueue`, which
nothing calls; undefined behaviour of a vector or map that is searched while it changes, and
of a signal handler that interrupts an allocation; what the program does after it wrote beyond a buffer.
