# A TLA+ development for gomodbus

gomodbus is a Go client library for Modbus over TCP, serial RTU and ASCII. On top of a client for single requests
it has an *enhancement* layer that groups device registers, reads groups concurrently, and delivers the results
through queues and callbacks; a second, independent protocol stack (`ModbusHandler`) sits beside it.

The specifications here are translated from the Go code, and every definition that stands for code is listed in
`PROJECT.json` under `map` with the lines it stands for. Tests and documents of the repository were used to learn
what the code promises.

## 1. Inventory

| Component (source) | State | Operations | Interacts with |
|---|---|---|---|
| Register manager (`enhancement-register-manager.go`) | mutex, `closed`, `dataQueue` (bounded), `exitSignal`, `groupedRegisters`, two callbacks | `LoadRegisters`, `ReadGroupedData`, `Start` (spawns the consumer), `Stop`, the setters | grouping, grouped reading, user callbacks |
| Grouped reading (`enhancement-group.go` 90-211) | result slice, error channel, WaitGroup, **the slave id inside the shared client handler** | `readGroup`, `ReadGroupedDataConcurrently`, `ReadGroupedDataSequential` | client, packager |
| Register grouping (`enhancement-group.go` 12-87) | none | sort by slave and address, cut into continuous runs | manager, poller |
| Poller stack (`enhancement-poller.go`) | scheduler mutex and groups; stream channel, stop channel, callbacks; poller's managers, stop channel, WaitGroup | `Load`, `ReadGrouped`, `Push`, `Start`, `Stop`, `AddManager` | grouped reading, user callbacks |
| TCP packager and transporter (`tcpclient.go`) | transaction counter, slave id; mutex, connection, idle timer, last activity | `Encode`, `Verify`, `Send`, `SendRawBytes`, `Connect`, `Close`, `closeIdle` | server, idle timer goroutine |
| Serial port, RTU and ASCII clients (`serial.go`, `rtuclient.go`, `asciiclient.go`, `*_over_tcp_client.go`) | mutex, port, idle timer | `Encode`, `Verify`, `Decode`, `Send`, `SendRawBytes`, `Close` | serial device or TCP gateway |
| Client (`client.go`) | none of its own; the locals of a running `ReadDeviceIdentification` | the thirteen Modbus functions, reply checks | packager, transporter |
| Modbus handler (`enhancement_handler.go`, `enhancement-*_transporter.go`, `enhancement-*_packager.go`) | transmission id, connection; no lock | the Modbus functions, `ScanSlaves`, `ReadRawDeviceIdentity` | its own transporters |
| Decoding, checksums (`enhancement-register.go`, `crc.go`, `lrc.go`, `enhancement-utils.go`) | none | pure conversions | |
| Logger (`enhancement-logger.go`) | level, output, mutex | `Write`, `SetLevel`, `Close` | |
| Declarations (`modbus.go`, `api.go`, `enhancement-types.go`) | none | | |

How the parts interact: a manager (or the poller's scheduler) holds its mutex while it calls grouped reading; grouped
reading starts a goroutine per group, each of which sets the slave id on the one shared handler, then calls
the client, whose `send` encodes (packager), exchanges (transporter, under the transporter's own mutex) and verifies.
Results come back as slices that share their arrays with the manager's groups; they are queued by reference, and a
consumer goroutine hands them to the user's callback.

What is hard here, and what correctness means for each part:

- **Manager.** Three kinds of goroutine meet at one mutex and two channels, and the reader keeps the mutex while it
  waits for a channel. Correct: no panic on a closed channel whatever the calls; nothing read or queued after `Stop`;
  what the callback looks at is not rewritten under it; groups arrive in order and show no data older than was queued
  except behind a register marked invalid; `Stop` returns and the consumer ends.
- **Grouped reading.** Correct: a register marked valid holds data of its own slave; the errors returned name exactly
  the groups that failed; the call returns, and leaves no goroutine behind that could still touch the result.
- **TCP exchange.** Timeouts, late and malformed replies, a peer that goes away, two timers' worth of races. Correct:
  an accepted reply answers the request it is accepted for; exchanges do not overlap; the idle timer does not close
  a connection in use but does close an unused one; a failed exchange does not spoil the following ones.
- **Serial and RTU exchange.** The same without a transaction id, with the length of the reply predicted.
- **Poller stack.** As the manager, without the lock around the callback.
- **Handler.** As the TCP exchange, without any lock.
- **Grouping.** Correct: every register is in exactly one group, and a group is what one request can read.
- **Client functions.** The reply of a write names what was executed; a reply that is late, of another call or of
  another length must not pass for a result. Correct: a reported write happened, returned data is whole, every call ends.
- **Reading a group, decoding, checksums.** Five pieces of arithmetic (the sum asked for, the byte count of the reply, the
  offsets in it, the byte order, the checksum of either framing) that each look right alone. Correct: a register marked valid
  has its own device's bytes, and its value has the bytes the device meant.

`PROJECT.json` lists every component with its status, and under `hazards` what is hard to test, at its line.

## 2. Plan

| # | Module | Models; composes or refines | State |
|---|---|---|---|
| 1 | `RegisterManager` | the manager and its consumer; refines `DeliveryQueue` | checked, safety and refinement proved |
| 2 | `DeliveryQueue` | abstract ordered delivery | written |
| 3 | `GroupedRead` | goroutines of one read over the packager's shared slave id and the client | checked, safety proved |
| 4 | `TCPClient` | packager, transporter, idle timer, `client.send`, server | checked, safety proved |
| 5 | `PollerStack` | scheduler, stream, manager and poller with their goroutines; its streams refine `DeliveryQueue` | checked, safety and refinement proved |
| 6 | `SerialExchange` | RTU and ASCII framing without a transaction id, over a serial port or TCP | checked, safety proved |
| 7 | `HandlerExchange` | the lock-free second stack over its TCP and RTU transporters | checked, safety proved |
| 8 | `Grouping` | `GroupDeviceRegisterWithLogicalContinuity`, one register a step | checked, proved |
| 9 | `ClientOperations` | the functions of `client.go` over a line that loses, delays and refuses | checked, safety proved |
| 10 | `Decoding` | `DecodeValue`: operators | checked through 13, proved |
| 11 | `GroupReading` | composes 8, 9 and 10: from loaded registers to decoded values, over a line that alters nothing | checked through 13, safety proved |
| 12 | `WireFrames`, `RTUFrames` | LRC and CRC with the frames they end: operators | checked through 13, proved |
| 13 | `RegisterRead` | 11 with the frames of 12 in between; refines `GroupReading` | checked, safety proved, refinement proved, over RTU but for one kind of step |

The order is that of importance: first the part whose goroutines, mutex and channels meet, then what it reads through, then the
variants of both, last what is computed from the bytes.

Every safety invariant the runs check is stated by a theorem. What is left to state is an abstract exchange that `TCPClient`, `SerialExchange` and
`HandlerExchange` all implement, as `RegisterManager` and `PollerStack` both implement `DeliveryQueue`.

## 3. Modules

### RegisterManager

One variable per field (`mu`, `closed`, `queue`/`queueClosed` for `dataQueue`, `exitClosed` for `exitSignal`, `grouped`,
`onRead`, `onError`), `mem` for the contents of the group arrays and a program counter per goroutine.
A method whose critical section nobody can observe midway is one action, taken while the mutex is free (`LoadRegisters`, the
setters, the early returns); `Stop` is three (mark closed, close `exitSignal`, close `dataQueue`) and `ReadGroupedData`
a read followed by one `PushGroup` per result, because the channels are visible without the mutex. `PushGroup` is the
`select`; its arms "the queue is closed: panic" and "`exitSignal` is closed: give up" are there because the code has them
and the theorem `PushingIsProtected` shows that they are never reached. `HandOver` is the rendezvous of an unbuffered queue.
The consumer receives **before** it locks, as in the code.

`mem` records, for each register of each group array, the read that last wrote it and with what status. `readGroup` rewrites arrays in place, so queue items
are references. What `GroupedRead` does inside is here one nondeterministic outcome per group: nil for an unusable one, a failed call, which marks
every register INVALID, or a reply that covers the first `valid` registers. A short reply (group.go:134-138) marks only the first register it does not cover: the ones behind keep value and `VALID:OK`
of whatever read wrote them before, and the group is queued all the same. So `OlderOnlyBehindInvalid` says no more than that an older register stands behind one marked INVALID.

### DeliveryQueue

What a consumer of the library may expect of a delivery channel: items come out in the order they went in, each at most once, and
nothing goes in after it is closed. `RegisterManager!DeliversInOrder` is this specification under the mapping
`sent <- pushed`, `got <- ` the items whose callback step is over, `open <- ~closed`. `ManagerDelivers` proves it for every manager with one consumer;
with two, whichever takes the lock first calls back first, and the order is lost. `PollerStack!Stream(m)` is the same specification under `sent <- pushed[m]`, `open <- ~streamStopped[m]`; it holds of streams that were started once
and are polled by loops only (`PolledOnly`). Of one that is also used directly it does not: `Push` may send although the stream is stopped, as its `select` may take either arm.

### GroupedRead

One call of `ReadGroupedDataConcurrently` (or `Sequential`: `PreviousOver` then orders the groups), repeated `MaxCalls` times, over one client.
A goroutine per group goes through SetSlaveId, Encode (which reads the shared slave id), the exchange, storing registers one by one and
reporting its error; the caller closes `errChan` after `wg.Wait` and collects. The slave id is the packager's field
(`tcpclient.go`), which all goroutines share.

### TCPClient

Packager, transporter and idle timer over one byte stream, seen as a sequence of frames. The server is the environment: it answers pending
requests in any order, late, malformed, or not at all, and may close. `Encode` draws the id outside the mutex. `Send` is: take the
mutex (dial if there is no connection, arm the timer), write, then read a whole frame, a malformed one, a torn one (deadline in
mid-frame), time out, or fail. After a malformed header `flush` reads once, under a deadline that has passed already: `Flush` drops nothing or the beginning of what has arrived, and in general leaves the
stream `torn`, that is, out of step with the frames, as does a deadline in mid-frame; what is read from a torn stream is whatever its bytes happen to say. Timers are goroutines: a fired one waits for the mutex and then runs `closeIdle`, which closes only if
the connection has been idle long enough *now*. `idleFor` counts time since the last activity, capped at the idle timeout.

### PollerStack

A `ModbusDevicePoller` with its loops (one per `Start`), the schedulers' mutexes, the streams and their goroutines, and a goroutine that uses the
managers directly. `ReadGrouped` writes register by register (`WriteRegister`) under the scheduler's mutex, as far as the reply reaches (`Reaches`): a short one leaves the
registers behind the first it does not cover, and a group with an unsupported function code is not read at all and arrives as an empty slice. The callback runs under no lock, so `Callback` may see registers of several polls. An item in the stream carries how many registers its poll wrote. `Push` and `PushDropped` are the arms of one
`select`, `LoopSeesStop` and `LoopSeesTick` of the other. The poller's `Stop` is three steps, in the code's order: close `stopCh`, wait for the loops,
stop every manager.

### SerialExchange

Exchanges of one client, RTU or ASCII, over a serial port or TCP. The line is a sequence of bytes named by the frame they belong to, so that a read can end anywhere: `ReadFirst`
is `io.ReadAtLeast` of four bytes, `ReadRest` the `io.ReadFull` of what `calculateResponseLength` predicts (for FIFO queues, identification and custom functions no more than those four: their replies are passed on as far as the first read got), `ReadChunk`
the loop of the ASCII transporter. A checksum fits a whole frame and nothing else. `port` distinguishes nil, open and *closed but not nil*, which is where `serialPort.Close` and
`tcpTransporter.close` differ. A reply's function code that is out of step may be anything (`FunctionByte`).

### HandlerExchange

Goroutines share a `ModbusHandler`: there is no lock, so `ReadField` lets them take each other's fields, and the transaction id is
always 0. Slaves and function codes are the `uint16` arguments of the methods; what goes on the wire and is compared with the reply is a byte of each (`Unit`, `Function`), so that a call for slave 257 is one to slave 1. A read of something that is no frame's beginning may be taken for
anything (`OfGarbage`); over TCP also for a reply with an empty PDU, on whose first byte all methods but `ReadRawDeviceIdentity` panic (`EmptyReply`). A read ends by the deadline of `TCPTransporter`; `RTUTransporter` sets none, and whether the
port given to it ends reads by itself (`portTimesOut`) is chosen with the mode. `ScanSlaves` is a sequence of identity exchanges by one
goroutine while others go on. All methods of one kind of reply are one kind of request.

### Grouping

The two loops of `GroupDeviceRegisterWithLogicalContinuity` (over slaves, then over the sorted registers of one) with `groups`, `current` and
the position as variables, so that a step is an iteration: `TakeSlave`, `Extend`, `Cut`, `LastGroup`. Slaves are taken in any
order, as Go's map iteration does. Registers come in any order: `Sorted` is the order of `sort.Slice` by address, and where addresses are equal, which
that sort may leave in any order, every order. Addresses have `AddressSpace` values, and the sum of address
and quantity wraps as the code's `uint16` does.

### ClientOperations

`client.go` over a line without transaction ids. A call is an operation, its `uint16` arguments in the order of the request and the bytes of a bulk write; the functions share
`Begin`, `Refuse` and `Accept`, and differ in `InBounds`, `Data`, `Confirms` and `Results`, each of which has one conjunct per kind of function.
`ident` holds the locals of `ReadDeviceIdentification`, whose loops are steps of `Identify`: ask again, fail or return. Everything that
happens between (`SerialExchange` has the details) is a reply, an unusable frame or a timeout. After a timeout the request stays on the line: it may still be executed and
answered, and the next call may take that answer. The devices are the environment: `Response` answers what it can execute from a memory in which each
cell's word names its slave, table and address, so that a value says where it came from.

### Decoding

Operators: `DecodeValue` to the bytes of the number, which is what `reorderBytes`, the length tests, `CheckBit` and the mask do to them.

### GroupReading

The whole way of a reading: `Group` steps, then for each group `StartGroup` (the request that `readGroup` makes of its first register and `totalQuantity`), the exchange, and
`FinishGroup`, which cuts the data up (`Slices`) or marks the group's registers invalid. Without registers, `CallClient` makes any call of the client instead. Groups are read one after another
(`ReadGroupedDataSequential`); what concurrent reading adds is in `GroupedRead`. The line may lose, delay and refuse, and hand over something unusable, but what it hands over as a reply is one. In `ReadsDevice`,
`own` says that the line was empty when the group's read began: on another one a late reply of the same slave and function is accepted, as `SerialExchange` shows.

### WireFrames, RTUFrames

Operators. `ASCIIEncode`, `ASCIIIntact` and `ASCIIDecode` are the ASCII packager with its LRC, `RTUEncode`, `RTUIntact` and `RTUDecode` the RTU one, `Pack` that of the handler. `TableCRC` and `CRC16` are the two implementations of the repository,
the one by the table of `crc.go` and the one bit by bit of `enhancement-utils.go`. Exclusive or is written out bit by bit (`ByteXor`, a table over bytes), since a module with proofs cannot use `Bitwise`, which is recursive.

### RegisterRead

`GroupReading` over frames. `ReceiveFrame` encodes the answer on the line, may change one byte of the frame, and does what `Decode` and `client.send` make of it; `CallOverLink` adds the one thing a packager refuses (`TooLong`). That
`RegisterRead` implements `GroupReading` is what framing is for: a changed frame is a lost one. Over RTU this has one exception, which `FramesAreFaithful` names (`Misread`): a reply whose changed function code or byte count makes `Decode` look for the CRC in another place, where it fits.

## 4. Runs

| Run | What it shows |
|---|---|
| `manager` | two callers, one consumer, a queue with room for all: no channel closed under a reader, arrays stable under a callback, no data older than queued but behind a register marked invalid, refinement of `DeliveryQueue`; `Stop` returns, the consumer ends, queued groups arrive |
| `manager_gridlock` (violation) | finding 1 |
| `grouped_joined` | concurrent and sequential reads of groups of two slaves, by a manager that has the client for itself: the call returns, leaves nothing running, uses no closed channel, reports exactly the failed groups, and reads each slave's own data where slave ids were not set concurrently |
| `grouped_two_slaves` (violation) | finding 2 |
| `tcp` | two goroutines that exchange at the same time, `Connect`, `Close`, fired timers, late, reordered, malformed and torn replies and the wrap of both counters: an exchange owns the connection; an accepted reply is the caller's own; every call returns; an unused connection is closed |
| `poller` | polls, direct use, two starts and `Stop`: all loops are over before a stream stops, groups in order, refinement of `DeliveryQueue`, no register that its poll reached older than that poll; `Stop` returns and no consumer stays behind |
| `line_exchange` | RTU and ASCII, serial and TCP, replies of predicted and of unknown length: accepted data is of the slave and function asked, and of this request as long as nothing failed before; the port is held; calls return |
| `line_exception` (violation) | finding 3 |
| `line_idle_close` (violation) | finding 4 |
| `handler` | two goroutines and one scan over either transporter, with slaves and function codes that share their low byte, over RTU with and without a port that ends its reads: accepted frames fit the bytes that were sent, callers who take turns get their own replies and no panic, the scan lists whom it should, calls return where a read has a deadline |
| `registers` | every set of up to three of ten registers grouped, read and decoded, and without registers two calls of any function, over RTU and ASCII frames one byte of which may change: groups partition the registers and are continuous, valid registers have their own device's bytes, decoded values the bytes that were meant, reported writes happened, results are whole; refinement of `GroupReading`, so that framing hides nothing but losses, except for misread RTU frames; the read ends |
| `identification` (violation) | finding 5 |

Deadlock is not checked where the model ends because its bounded calls are used up. Properties that a theorem states for every instance (the type invariants
of `RegisterManager`, `PollerStack`, `TCPClient` and `SerialExchange`, `CallbackExclusion`, `PushingKeepsOpen`, `StopIsFinal`) are not model-checked again.

### Bounds

Two callers are enough for any race between two methods, and a third kind of goroutine is the consumer; two reads are enough for an array
to be rewritten while queued. The gridlock needs a queue that holds one whole read and a second read; in `manager` the queue has room for all that is read, so `StopReturns` and `QueuedIsDelivered` there say nothing of it. Neither does `StopReturns` of `poller`
speak of a stream without a consumer: its premise is that every manager of the poller was started. Two groups of two registers in `GroupedRead` let
one goroutine be between two steps of another and a reply end within a group; two polls let the second see what the first left.
In `TCPClient` two goroutines make exchanges, each of which may draw its id while the other reads; the id has 3 values and so has the counter, which makes both wrap (in the code 2^16 and 2^32; the theorem covers any widths, also a counter wider than the id). Groups have two registers in `RegisterManager` and
`PollerStack`, so that a short reply leaves one of them. `PollerStack` has one
manager, two starts, two polls and a stream that holds one group, so that `Push` blocks. In `SerialExchange` two requests and two replies
on the line are enough for a late reply to meet the next request in any position, with replies of 5, 6 and 8 bytes so that each of the lengths read first, predicted and
exceptional occurs, and one function whose length is not predicted. In `HandlerExchange` two exchanges make one late reply or one overlap; its calls (`MCHandlerExchange`) are reads of the slaves 1 and 257, writes of two points, a custom function whose code has the byte of the read's, and the scan's identity requests, which
between them reach every check (a status request differs from a read in nothing that is compared).
In `registers` three registers are the fewest that make a run of three, a run after a cut, and a cut by slave; the ten among which they are chosen have gaps, overlaps, an empty one, coils, an unsupported function code, quantities
whose double wraps (`AddressSpace` is 8) and one that ends where the address space does. Two client calls let a late reply to the first meet the second. A garbled byte becomes 0 or 3: a shorter byte count, another function code, and in ASCII no digit. One of the writes has a reply,
`<<1, 6, 0, 32, 240, 0>>` and its CRC, that with a 3 for the 6 reads as an intact reply `<<1, 3, 0>>`; when it is late, a read takes it and reports success without data. No *timely* reply in the run can be misread, or `ResultsAreWhole` would fail over RTU. The limits of the functions are small enough to be exceeded, each by some call of `MCCalls`; `MaxData` is exceeded by a write whose bytes are more than its quantity.
Every bound is a CONSTANT named in its module, used only in guards that stop new calls.

### Fairness

A goroutine that can step does (Go schedules fairly: WF); one that waits for a mutex that is free again and again gets
it (SF: `sync.Mutex` switches to starvation mode after 1 ms and hands the lock over in order); a `select` with two ready arms picks at random, so it
takes each again and again (SF, `PollerStack`); a user's callback returns; a device read ends because each TCP exchange sets a deadline and a serial port is opened with a
timeout (`NewRTUClientHandler` and the others set one). `RTUTransporter` of the handler never uses its own: `HandlerCallsReturn` speaks of TCP and of ports that end reads by themselves, and of no other. Nobody is
assumed to call anything, and neither the server nor the network is assumed to do anything. `RegisterRead` asks that the reader's steps are taken, that what is on the line is in the end answered and read, and that a call for which nothing is on the line times out; it asks of
`Receive` (the frame as it was sent), not of `ReceiveFrame`, since that may take a changed frame each time and `Receive` is one of its steps. The counterexample of
`identification` needs no more: every request is answered, and the loop does not end. Where one conjunct covers the goroutines of a kind
together, it assumes less than each of them may expect.

## 5. Proofs

`RegisterManagerProofs`, `PollerStackProofs`, `TCPClientProofs`, `SerialExchangeProofs`, `HandlerExchangeProofs`, `GroupedReadProofs`, `FramesProofs` (the operators of `WireFrames` and `RTUFrames`) and `RegisterReadProofs` (`Grouping`, `ClientOperations`, `Decoding`, `GroupReading` and `RegisterRead`),
from the ASSUMEs in the modules alone, for every number of goroutines, loads, reads and any queue size,
counter width, reply length and number of frames on the line, any finite set of registers and any set of client calls. TLC has checked the inductive
invariants on the runs' instances and on larger ones before they were proved.

**RegisterManager.** None of the safety invariants is inductive by itself. The strengthening says who holds the mutex: `mu` is the caller that is between
its lock and unlock, or the consumer in its callback, and nobody else is at such a point; a caller in `closeExit` or `closeQueue` has
marked the manager closed and not yet closed what it is about to close; an open manager has both channels open. From it
`CallbackExclusion`, `NoChannelPanic` and `PushingKeepsOpen` follow at once, and the action properties `StopIsFinal` and
`CallbackSeesStableData` because a step that reads the device needs a free mutex. `OlderOnlyBehindInvalid` needs that in the array
of every group in a queue, in a consumer's hand or still to push, each register was written no earlier than the read recorded with it or stands behind one that such a read marked INVALID, and that rewriting keeps this whatever the reply covers. The refinement of
`DeliveryQueue` needs, for a single consumer, where everything that was sent is now (`OrderInv`): what was called back, then what the
consumer holds, then the queue, each item at the place it was sent. A send and a hand-over then are `Send` (whoever pushes keeps the
manager open), the callback is `Deliver`, the mark of `Stop` is `Close`, and every other step is a stutter.

**TCPClient.** `ExchangeOwnsConnection` rests on the holder of the mutex as above. `OwnReply`, about the step that accepts a frame from a stream in step, rests on a lemma on congruent counters (two values of the counter whose ids agree are
equal or at least an id range apart).

**PollerStack.** `QuietAfterStop` needs that `wg` is the number of loops that run (`WaitInv`), also after several starts; then `wg = 0` is what
`Stop` waits for. `NeverOlderThanPushed` needs more than the scheduler's mutex. The mutex keeps `groups` in place during a read, so a register that the reply reaches is either still to be written
or carries the number of this poll (`ReadInv`), and a read that ends has written all it is about to push; from then on every item, wherever it is (still to push, in the channel, in a hand,
called back), refers to an array of which no register that its poll reached is older than the item (`FreshInv`), because what a later poll writes is newer. `DeliveredInOrder` is again about where everything is that was pushed
(`OrderInv`): called back, held by the consumer, in the channel. It has the premise that the stream was started once, and that premise, once false, stays false. `StreamsDeliver` adds that nothing is sent on a stopped stream, for which no line of `Push` provides. The invariant
(`StopInv`) is that loops poll managers of the poller only, and that those are stopped by the poller's Stop only; with `QuietAfterStop`, no loop is left to push. `StreamIsQueue` is the refinement itself, for a behaviour in which the premise stays true. The type invariant is the laborious part: that `polls` stays within its bound
counts the ticks that wait, the rounds begun and the managers in them (`CountInv`).

**SerialExchange.** `DataIsAddressed` holds wherever reads cut the frames because of two checks together: what passes the checksum begins with the first
byte of a frame (`IntactBegins`), and there `Verify` compares the slave id of the reply itself. The invariant adds that every byte on the line or
in the buffer belongs to a request that was made, that the first read of an RTU reply starts from nothing, and that the second is for
more than what was read. No induction over the line is needed: each read is a `SubSeq` and each answer a concatenation. `PortHeld` is inductive as it stands.
`CleanLineIsTrusted` needs a picture of the line on a port where nothing has failed (`CleanInv`): between exchanges it is empty and the device owes nothing; during one, either the request is unanswered and nothing has come,
or buffer and line together are one whole reply to it, cut anywhere (`Split`). A read moves the cut (`TakeSplits`). What is delivered is then all of that
reply, or too little of it, which the checksum turns into a failure (`SplitDelivered`): so reading an exception short (finding 3) costs an error, never a wrong answer.

**HandlerExchange.** Nothing excludes callers from each other, so the invariant is about the fields themselves: each, on the line or in a buffer, answers a request that was made (`CameInv`); a frame that was
judged in step is one reply, whoever read it, and `ReplyIsAddressed` is what the checks leave of it: unit and function as bytes, for any 16-bit arguments. `TurnsAreSafe` is the same picture as `CleanInv` above, with one caller in an exchange at a time and a frame split between its
buffer and the stream (`QuietInv`, `SplitTaken`); a frame that is in step is never an empty PDU, so nobody panics. `ScanIsRight` adds accounts of the scan: every id it is past is listed, has refused, or is the one being asked (`PastOrToCome`), and no id is listed
that did not answer.

**Grouping.** `GroupsContiguous` looks like the comparison in the code but is not: that comparison is of sums that wrap. What saves it is the sort. A sum of two
numbers below the width either is exact or comes out smaller than both (`WrappedSumIsSmaller`), and a register after one that it "continues" around the end would lie before it; so the invariant carries
that the registers not yet looked at are in ascending order, not below the current one. `GroupsPartition` needs the registers counted: every register of the slaves already taken is at
exactly one place of the groups, the current group and the rest together, where a place is a pair of indices, and each of the four steps moves places without making or losing one (`OneMore`).

**ClientOperations.** `WriteIsConfirmed` speaks of one moment, the end of a call, but a reply may be older than the call that takes it. The invariant therefore is about the line: every answer with the code of a write, whenever it was asked
for, vouches for a request in `executed`, and that set only grows. The step that ends a call then needs only the comparisons in the code, function by function. It rests on one assumption: the code that
`ReadWithCustomFunction` is given is not one of the writes, whose replies would then mean something else.
`ResultsAreWhole` has two parts. A read of words on an empty line finds there nothing but its own request or the answer to it (`ReadsAlone`), and that answer has the quantity that was asked for because the devices of the model give no other: `client.go` compares the byte count with the data and not with the request. The rest is bytes: `dataBlock` puts words in that a
device takes out again (`WordsCarried`), and the count and the words it answers are what `Results` cuts off and returns. An identification may take replies of earlier ones, so its part is about the line like the first invariant: every
reply to an identification is a page of that device (`SendsPage`), what has been put together are objects of it (`GotIsTheirs`), and three objects of a device that has no regular ones are all it has; of a device that has, the call never returns well (finding 5).
The offsets of objects in a page are a recursive function, proved for pages of at most two objects, the device's `PageSize`. `ClientAssumption` says, among others, that arguments are unsigned and that a custom code is not that of another function with other data.

**GroupedRead.** All four invariants follow from one (`ReadInv`). `Counting` says that the WaitGroup is the number of goroutines that run, and that the groups begun are those up to `next`: so the counter is zero after the
loop only when all are over, which is what closing errChan and returning wait for. `Stage` says what each point of `readGroup` means for its group: named among the errors (collected, or still in errChan) exactly from `Report` on, with an
invalid register or no result to show for it. `Addressed` carries the slave id from SetSlaveId to the stored value, under the premise that nobody disturbs it; in the sequential case that is so because at most one group runs. It needs the number of managers to be finite, to speak of one.

**Recursive functions.** The library's induction theorems take an operator as a parameter, which the provers cannot instantiate. The recursive functions of these modules (sums of quantities, offsets, checksums) are therefore
handled by the least counterexample: `WFMin` gives every nonempty set of numbers a smallest element (`Least`), from which follow that a recursion over a sequence defines a function (`Recursion`) and each of the inductions.

**GroupReading.** `ReadsDevice` is about the table of a group's *first* register, since the code groups registers of different function codes together and reads them all with the first one's; a register of another code gets bytes of the wrong table, VALID. With that, it joins four computations: a group is a run, so the address of a register is that of the first plus the quantities between; `totalQuantity` is their sum; the reply, on an empty line, is the device's memory from the first
address on (`WholeInv`); and the offset of a register in it is twice the sum before it. The first and last are inductions over the registers of a group. What wraps does not matter: if the sum of the quantities is not the `uint16` the request carries, the reply is too short for the
registers it does not reach. But a register whose *doubled* quantity wraps moves the offsets of those after it, which are then marked valid with bytes of other addresses. `ReadsDevice` says so in its premise; without it, or with it for the register itself
only, TLC finds the counterexample. `DecodedAsMeant` holds because each of the byte orders is its own inverse (the device's arrangement and the client's are the same permutation), order by order; an order that was not would fail here.
`ReadingKeepsParts` says that the composition is an execution of the grouping and makes only calls the client allows, so that what was proved of `Grouping` and `ClientOperations` holds in it: reading disturbs neither.

**Frames.** An ASCII frame is decoded to what was encoded (`FrameIsCarried`), and after a change of one character it is refused or unchanged (`ChangeIsFound`): the LRC is a sum modulo 256, in which one changed digit shows; the colon, CR and LF are compared.
For the CRC, exclusive or is shown to be a group operation, bit by bit (`XorFacts`), and eight shifts to be linear in it (`ShiftedOfXor`). The entries for 0 and the powers of two are evaluated (`PowerEntries`), and every other entry of both tables is the exclusive or of two of them before it (`FirstEntries`, `RowEntries`, `AllEntries`), so that all 256 are eight shifts of their
index (`TableIsRight`); then the two loops carry the same sum, bytes swapped, at every step (`CRCsAgree`), and `EncodersAreOne` says that both encoders send the same frame for *every* content. A shift is injective, hence two sums that differ at one byte stay different to the end (`CRCFindsChange`),
and `RTUChangeIsFound` says that a changed byte is found if it did not change where the frame is thought to end.

**RegisterRead.** `LinkInv` says that what is on the line are contents a frame can carry: bytes, in number no more than a byte counts where it must. Over ASCII every step is then a step of `GroupReading` (`ASCIIIsFaithful`), and so `ReadsDevice` and the rest hold over ASCII frames that the line changes
(`ASCIIReadsTheDevices`). Over RTU this is not true of every instance. `rtuclient.go:105-120` takes the end of the frame, below function code 5, from the byte count, before the CRC is checked and without comparing the end with what was received; a changed byte count, or a change of
the function code to one below 5, therefore moves the CRC itself to two bytes of the data, and data can be chosen that fit. `FramesFaithful` proves that nothing else goes wrong: over either link every step is one of `GroupReading` or a `Misread`, for a frame that passes in the length it has is the one that was sent (`WholeIsSent`) and
one that passes in another has a function code below 5 (`MisreadCode`). That suffices for writes, whose codes are above: `FramesKeepParts` proves over both links, whatever byte changes, that a reported write happened, that the groups are what they are without frames, and that the encoders agree. Its invariant (`FrameInv`) does not
need to know what was read.

Only model-checked: all liveness (fairness and ENABLED are out of the prover's reach), and `ReadsDevice`, `ResultsAreWhole` and `DecodedIsMeant` over RTU with changed bytes, which are not theorems there: in the instance of `MCRegisterRead` they hold because no timely reply to a read can be misread in it.

## 6. Findings

1. **The manager can stop for good** (`manager_gridlock`). `ReadGroupedData` holds the mutex while it waits for room in `dataQueue` (line 127); the consumer locks
   the same mutex between receiving and calling back (67), and `Stop` locks it before it closes `exitSignal` (96). Once the queue is full and the consumer holds
   a received group, reader, consumer and `Stop` wait for each other. The `exitSignal` arm of the reader's `select` cannot help: it is proved unreachable. One read of more than `QueueSize + 1` groups is enough. The repository's
   `Test_RegisterManager_Decode_bool_concurrent` uses a queue of 10 with 16 slaves, that is, 16 groups.
2. **Concurrent groups of different slaves read each other's slave** (`grouped_two_slaves`), since the slave id is a field of the shared packager (group.go:95, tcpclient.go:90). The same holds for several managers over one client.
3. **An RTU exception that arrives in pieces becomes a checksum error** (`line_exception`): `functionFail` is `function & 0x80` where `function | 0x80` was meant (rtuclient.go:186, and the same line in the RTU-over-TCP client).
4. **An idle serial port is never opened again** (`line_idle_close`): `Close` does not set `mb.port` to nil (serial.go:61), so `connect` keeps the closed port.
5. **`ReadDeviceIdentification` does not end for a device with regular objects** (`identification`): the loop of client.go:670 is entered if the conformity level has such objects, asks for them, and never changes the condition. The
branch for extended objects (line 674) comes after a weaker condition and is dead. `api.go` promises the basic and the regular strings.

The models also show behaviour that no document excludes, and which is therefore listed as a hazard with a note and is not a finding: groups whose read failed or was cut short are
queued like the others and reach the callback (which `SetOnReadCallback` documents for successful reads), the latter with registers that still say `VALID:OK` of an earlier read; after one timeout the late reply on a TCP connection makes the next exchange fail, whose own reply then
is late for the one after it; a lost peer is not noticed by a client that polls within the idle timeout; a late RTU or ASCII reply of the same slave and
function answers the next request; a late reply to a bulk write, which does not repeat the values, confirms the next bulk write to the same place; `ReadFIFOQueue` counts one byte too many and refuses well-formed replies; a register of 2^15 words or more, whose doubled length wraps, is
marked valid with fewer bytes than it has, and the registers after it in its group with bytes of other addresses; an RTU reply to a read whose byte count is changed on the line is checked at the place the changed count says (rtuclient.go:105-120), so that one
changed byte can pass a CRC that would find it (`Misread`; it happens in `registers`); the reply to a FIFO, identification or custom request over RTU is cut where the first read ended, and fails its checksum; a manager added to a running poller has no consumer and blocks its loop, and with it `Stop`; over RTU the handler
understands neither exceptions nor replies to 0x11, so that `ScanSlaves` finds nobody, and waits for ever where the port does not end the read; a handler's call for slave 257 reads slave 1, and a torn TCP stream can bring it to index an empty PDU; a group may mix function codes and is read with its first register's.

## 7. Not modelled, and why

Wording of logs and errors; payload bytes and register values, of which only the origin and the order matter, and so `Weight`, floating-point formats and JSON. `SendRawBytes` of the clients, which returns whatever arrives within its buffer and whose
use of an unopened connection is plain from the line; the packagers' `Unpack`, which nothing in the repository calls. Identification replies shorter than the objects they announce (an index out of range in `client.go:737`) are not sent
by the model's devices. TCP framing is in `TCPClient`, not in `RegisterRead`. The logger (`enhancement-logger.go`) writes under one mutex and has no behaviour that another component depends on.
The poller's callbacks are always set; a second `Stop` of a poller or stream, which panics, is not a call the model makes. Frames without a function code are not sent by the devices of `HandlerExchange`: there an empty PDU comes of a torn stream only. Declarations (`modbus.go`, `api.go`, `enhancement-types.go`) have no behaviour.
