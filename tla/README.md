# Verification of the IoT-LAB training code

The repository holds the exercises of the IoT-LAB training: small embedded
programs for RIOT, Contiki-NG and Ariel OS, each in a directory with a notebook
that explains it. Operating systems and protocol stacks are git submodules and
not part of the tree, so the programs under study are the exercises themselves;
what they ask of their engine (Contiki-NG's CoAP engine, RIOT's gcoap, nimble)
is modelled from how they use it and marked external in `PROJECT.json`.

Several RIOT exercises are skeletons whose missing lines are given in the
notebook beside them; their behaviour is only defined by both together. Where a
model needs such lines (`Lwm2mClient`, `LsmThread`, the packet of `LoraSender`) it
translates the code the notebook gives, and the map names its lines.

## 1. Inventory

| Part | Source | State | Operations | Status |
|---|---|---|---|---|
| Separate response and button loop | `contiki-ng/networking/coap/coap-example-server/resources/res-separate.c`, `coap-example-server.c` | `separate_active`, `separate_store[]` | GET (accept or reject), button event (trigger, resume) | `CoapSeparate`, `SeparateMailbox` |
| Observable temperature | `resources/res-temperature.c` | `interval_counter`, `temperature_old` | periodic handler, GET, registration | `CoapTemperature` |
| Chunk-wise resource | `resources/res-chunks.c` | none (offset in and out) | GET of a block | `CoapChunks` |
| Block1 in, Block2 out | `resources/res-b1-sep-b2.c` | `big_msg[]`, `big_msg_len`, `request_metadata` | POST of a block, fetch of a block | `CoapBlock1Separate`, `EchoService` |
| Event and push resources | `resources/res-event.c`, `res-push.c` | event counters | trigger, periodic handler, GET | `CoapObserve`, `ObservedCounter` |
| Getters and actuators | `res-hello.c`, `res-mirror.c`, `res-light.c`, `res-leds.c`, `res-toggle.c`, `res-battery.c`, `res-radio.c`, `res-sht11.c`, `res-sub.c`, `res-accel.c` | LEDs | GET, POST, PUT with content negotiation | `CoapGetters`, but for the last two |
| gcoap command line client | `riot/networking/coap/gcoap_cli.c`, `Makefile` | `_last_req_path`, `req_count` | command, response handler | `GcoapCli`, `BlockwiseTransfer` |
| gcoap server | `riot/networking/coap/main.c` | none | GET of a constant; three empty handlers | not modelled |
| BLE scanner and advertiser | `riot/ble/ble_scan` | name, manufacturer data, what is on the air, scan list | start, stop, rename, set data, scan | `BleRss` |
| Firmware update | `riot/security/ota` | SUIT worker, slots | trigger by CoAP or button, slots, slot dump | `SuitNode` |
| LwM2M client | `riot/networking/lwm2m` | object list, instance, reader thread | init, start, read, discover, delete | `Lwm2mClient` |
| Threads, mutexes, messages | `riot/basics/{sensors,uart,rtc,threading-*}` | a mutex | start, stop, read | `LsmThread`, sensors only |
| LoRaWAN senders | `riot/lorawan/*` | the round's readings, a buffer | join, read, send | `LoraSender` |
| UDP client and servers | `riot/networking/{udp,udp-sock}` | one socket | receive with a timeout | not modelled |
| Security exercises, notebooks, containers | `riot/security/{hash,encryption,signature}`, `*.md`, `Dockerfile` | none | none | not modelled |

How the parts meet. In the Contiki-NG server all resources share one engine: a
pool of `COAP_MAX_OPEN_TRANSACTIONS` transactions that responses and
notifications both draw from, and a list of observers. The engine and the
server process run cooperatively, so a handler or an event runs to completion;
interleaving happens between handlers, and between the handlers and the network
(loss, reordering, repetition by clients; the engine does not deduplicate
requests). In the RIOT client two threads, the shell and gcoap, share
`_last_req_path` without a lock and gcoap has the higher priority, so its
handler may run between any two writes of the shell's command. The BLE board's
shell shares the advertisement with the nimble host, which accepts connections
and restarts advertising by itself; the LwM2M client's three threads share the
temperature instance; the sensors exercise has two threads and one mutex.

What is hard to test, with the lines, is in `PROJECT.json` under `hazards`:
requests of two clients around one slot, lost acknowledgements, a pool that is
empty when the button is pressed, values that change between a decision and its
message, transfers that end exactly on a block boundary, commands typed while a
transfer runs, a name set during a connection, an instance deleted under the
thread that writes to it, conversions at their edges.

## 2. Modules

Every module of the system is written the same way: constants with named
assumptions, one action per handler or event, engine, network and clients in a
section apart, properties last. An operator whose comment begins with *Fault*
is a variant of the definition beside it with one plausible mistake. It is not
used by the specification; `PROJECT.json` (`mutants`) pairs each property with
the fault it notices.

### CoapSeparate and SeparateMailbox

`res_get_handler` is `SeparateReject` (the counter is at its limit) or
`SeparateAccept` (count, save the metadata in the first slot, acknowledge). The
event loop calls `res_event.trigger()` and then `res_separate.resume()` in one
event; `ButtonPress` is that event: the notifications take some transactions,
and resume answers from the first slot and resets the counter
(`ButtonAnswers`), or finds nothing open or no transaction and leaves
everything as it is (`ButtonWaits`). `open`, `responded` and `abandoned` are
history variables.

`SeparateMailbox` says what clients get: exchanges queue up to a capacity, and
one press answers the newest and forgets the others. `CoapSeparate` implements
it with `pending <- open, answered <- responded`.

### CoapTemperature

`Tick` is `res_periodic_handler`, once a second. Whether to notify is decided
from one reading of the sensor; each observer's payload comes from another, by
`res_get_handler`, which the engine calls per observer. The sensor may have
moved in between, so each observer gets the earlier or the later value. The
first comparison subtracts `INT_MIN`; where that overflows the outcome is
undefined and `Changed` allows both. `quiet`, the seconds since the last
notification, and `steady`, those since the sensor last moved, are histories that
stop counting at `MAX_AGE`; `gap` is the time between the last two notifications,
as far as `INTERVAL_MIN`. A notification that is lost, or finds no transaction,
leaves its observer with what it had: `FreshWithinMaxAge` and `ValueSettles` are
about observers that heard their last one (`heard`).

### CoapChunks

`ResGetHandler` is the handler as an operator from offset and preferred size to
code, length and next offset. A client follows the More flag and may change to
a smaller block size that divides its offset, as a client may in RFC 7959.

### CoapBlock1Separate and EchoService

A byte of `big_msg` is represented by the client that wrote it. The handler's
branches are `PostTooLarge`, `PostContinue`, `PostLast`,
`PostLastNoTransaction`, `BlockOutOfScope` and `ServeBlock`. `COPIED` is the
constant 32 of the `memcpy`: bytes of a block behind it are whatever the
engine's buffer held, represented by `Blank`. The code's comment says "There are
no checks for multiply access"; a client whose message another request wrote over
(`disturbed`), or whose response found no transaction (`starved`), is modelled and
promised nothing.

`EchoService` says what a client gets that is alone with the buffer: its message
comes back from the first byte on, and the exchange is done when all of it came
back, or fails. `CoapBlock1Separate` implements it with
`message <- Promised(Message(c))`, `phase <- Exchange(c)` and, of clients nobody
disturbed, `returned <- Promised(echo[c])`, where `Promised` blanks the bytes
that are not copied. `Forget` is another request that stores a block: it spoils
the exchange of everyone else.

### GcoapCli and BlockwiseTransfer

`gcoap_cli_cmd` is cut where gcoap's thread can see a difference: after the
path is cleared, in the middle of the copy and after it. `_resp_handler` runs
to completion, since its thread has the higher priority. `Blocks` is the
server's number of blocks for each path. A path that is torn or empty names no
resource, so no more blocks follow it. `CanSend` is gcoap's refusal when the
memos, or for a CON request the resend buffers, are taken; the request being
answered still holds its own while the handler runs. `_resp_handler` asks for
the next block as CON when the response was an acknowledgement, and always by
GET; the method is not modelled.

`BlockwiseTransfer` says what a transfer is to the user who typed it: it asks
for the blocks of one resource, each once and in order, is complete when it has
asked for all of them, or fails, and asks for nothing after its end. A new
command ends what is promised of the open ones (`Forget`). `GcoapCli`
implements it with `phase <- Phase(t)` and `asked <- Asked(t)`: both hide a
transfer that was typed over while it was open, and `Asked` a command whose
request was never sent.

### BleRss

The library's functions are actions of a board's shell. `AutoadvStart` is
`ble_rss_autoadv_start`, with the asserts on fields that do not fit
(`"panicked"`). A rename and new manufacturer data restart the advertising in
two steps, `RestartIfActive` and `Restart`, because the host, of higher
priority, may accept a connection in between. nimble is modelled from its use:
a connection ends the advertising, after it the stack may start again with the
data it was given last, and a stack that is advertising may ignore a start.
`resumed` records those two cases. `elapsed` counts time on the air since the
last start up to `MaxTime`. The scanner is `CmdScan`, `BeginCycle`, `Hear` and
`EndCycle`; its list has `LIST_SIZE` entries. `ScanCycles` is the conversion of
the number typed to `uint16_t`, and `cycles` the history of what was typed and how
many cycles ran. The scan time is abstracted, since the timer may run out at any
step. Manufacturer data above `MAX_VENDOR_DATA_SIZE` are refused without a change,
so that their action is not enabled. `OnAirIsCurrent` says nothing of a board whose
stack resumed by itself, because that depends on nimble.

### Exercises

The smaller programs are modules of their own, put together as alternatives:
`firmware` is the one a board is flashed with, and the state space is the sum
of theirs. They share nothing else.

- `CoapObserve`: `res-event.c` and `res-push.c`. `Handler` increments the
  counter and notifies; `CoapNotifyObservers` is the engine's, with its
  confirmable notification every `COAP_OBSERVE_REFRESH_INTERVAL` and its
  transaction pool. A registration begins a new series of notifications, and
  what is left of an earlier one has another token. `ObservedCounter` says what
  that comes to for clients: a counter goes up by one, and what a client has
  seen of it moves forward within what has happened. `Exercises` instantiates
  it with `counter <- event_counter` and the counts of `view` as `seen`.
- `CoapGetters`: one operator per handler, from the request's Accept option,
  query and reading to code, format and value, with C's division and its
  conversions to 16 and 8 bits. Of a request to mirror each `snprintf` is a write:
  a guarded one looks at `strpos` first, the others, inside the token's and the
  ETag's line, are made when the line was begun (`Made`). `Advance` is one write's
  effect on `strpos`; a size below zero is a huge `size_t`, with which a library
  counts as ever or fails with -1 (`counts`). What such a write does to the memory
  behind the buffer is left out. `StrPos` is the outcome, and `Written` tells
  beside it what all the writes would have come to. The LEDs are the only state.
- `Lwm2mClient`: the shell's thread (`Lwm2mCliInit`, `StartClient`,
  `InitSensor`, `CreateReader`), the reader's (`Sample`) and wakaama's, which runs
  the object's functions for the server. The reader has the highest priority: it
  writes the value and marks it without being interrupted, and may itself interrupt
  wakaama between reading a changed value and sending it (`ReadChanged`,
  `SendNotification`), in which case its mark is lost. A deleted instance is off
  the list, and the reader goes on writing to it.
- `SuitNode`: the CoAP handlers, the button, and the shell command that prints
  a storage, as `ToPrint` over `SIZE_BITS` bits. A worker that is busy ignores
  a trigger or takes it; the code does not depend on which. It installs a newer
  image and reboots in two steps, between which the handlers still run in the old
  slot and the user may reset the board; an update that fails may leave the other
  slot without an image. A storage that does not exist, or cannot be read, prints
  nothing.
- `LoraSender`: the three senders differ in the format, so `format` chooses.
  Each set-up step may fail and end `main`; in the loop each call may fail, and
  the loop goes on. A text has both readings to a tenth (`Decimal`); Cayenne LPP
  has tenths of a degree and half percents in one byte (`LppPacket`). `measured` is
  the history of what the sensor had and which readings succeeded.
- `LsmThread`: the sensor thread, the commands `lsm` and `lps`. The thread has
  the higher priority, so the shell runs only where the thread waits.

## 3. Runs, bounds and what they show

| Run | Instance | States | Shows |
|---|---|---|---|
| `separate_safety` | a CON and two NON requests, 2 open exchanges, 2 transactions, 1 observer, 1 repetition of a request, none of a response, 1 loss | 811k | `SlotHoldsLatest`, `NeverAnsweredTwice`, `SilenceNeedsLoss`, `ReleaseAnswers`, `ImplementsMailbox` |
| `separate_liveness` | 2 CON requests, not repeated; 1 repetition of a response, 2 losses | 88k | `AckedIsServed`, `ServesMailbox` |
| `temperature` | 2 observers, temperatures -1, 0, 1, `MAX_AGE` 6, `INTERVAL_MIN` 3 | 179k | `FreshWithinMaxAge`, `RateLimited`, `ChangeRecorded`, `ValueSettles`, `FirstValueRecorded` |
| `chunks` | 18 bytes, block sizes 2, 4, 8 | 3k | `EndSignalled`, `WholeTransferred`, `TransferEnds` |
| `b1sepb2` | 2 clients, every length from 1 to one above the buffer's 4, blocks of 2 of which 1 is copied, 1 repetition | 291k | `MessageWritten`, `AckedIsAnswered`, `ImplementsEcho`, `ExchangeEnds` |
| `b1sepb2_end` | 1 client, buffer of 5 | | finding: a full last block announces another |
| `gcoap` | paths of 1, 3 and 2 blocks, the last too long; 3 commands, 2 memos, 2 resend buffers | 342k | `OneRequestEach`, `OutcomeTold`, `ImplementsTransfer`, `TransfersReported` |
| `gcoap_path_retained` | the same | | finding: a refused command takes the path |
| `ble` | 1 board with 2 names and data that fit or do not, another device, a list of 1 entry, 0, 1 or 2 cycles | 83k | `OnAirIsCurrent`, `OffAirIsAsked`, `ReportOfThisCycle`, `ScanEnds` |
| `ble_lifetime` | the same | | finding: the lifetime is not honoured |
| `exercises` | see below | 97k | the properties of the six smaller programs |
| `lwm2m_deleted` | the same | | finding: a write to a deleted instance |

`exercises` checks, of `CoapObserve`, that an observer is up to date, about to
be, or missed its notification (`UpToDateOrMissed`) and sees an
`ObservedCounter`, which never goes back (`ImplementsCounter`); of
`CoapGetters`, the mark of truncation (`CutIsMarked`), the SHT11 conversion
from -0.90 degrees up (`Sht11WithinADegree`) and the one-byte ETag
(`EtagIdentifies`); of `Lwm2mClient`, one reader on one stack (`OneReader`), a
deletion that stays (`DeletedIsGone`) and an observing server that catches up
in spite of lost marks (`ServerCatchesUp`); of `SuitNode`, that an update
writes to the slot it reported inactive (`SlotsReported`), and the bytes it
prints (`PrintsOnlyRange`); of `LoraSender`, that a message tells this round's
readings as exactly as its format can, and 0 for one that failed
(`SentIsMeasured`), and that failures do not end the loop (`GoesOn`); of
`LsmThread`, that a stopped sensor is silent (`StoppedIsSilent`). Its instance
has 2 observers of the event and 1 of the push resource, 1 transaction, every
second notification confirmable, 1 repetition and 3 steps of the two counters
together (`MaxEvents`); 5 Accept options, the words the handlers compare with,
SHT11 readings around every whole degree between -1 and 1 and at both ends,
mirrored texts of up to 4 writes, guarded or not, that end before, at and after
a payload of 64 bytes, with a library that counts on and one that fails;
humidities that are a multiple of half a percent and one that is not; 3
temperatures and the lists of up to 2 resource ids; a storage of 4 bytes and a
`size_t` of 16 bits; 3 firmware versions (`MaxVersion`). `PrintsOnlyRange` is
about ranges whose end, a `size_t`, does not wrap around; the instance has one
that does.

Why the bounds suffice. `COAP_MAX_OPEN_SEPARATE` has its value from the source.
Two requests overwrite a slot, a third one is refused, and a repeated one may
be accepted twice; NON requests are interchangeable, which the safety run uses
as a symmetry. Two transactions let a notification take the last one. Losses
exceed the repetitions of a response, so that a response is lost for good.
`MAX_AGE` 6 keeps the order `INTERVAL_MIN < INTERVAL_MAX < MAX_AGE` of the
source and leaves a second between; three temperatures give a change up, a
change back, and both outcomes of the undefined comparison. The 2050 bytes of
`res-chunks.c` end with a short block at any size CoAP has; 18 does so for 4
and 8, and a client that changes to blocks of 2 meets the other case, a last
block that is full. A message of `b1sepb2` of up to five bytes in blocks of two
is shorter than a block, exactly one, one and a rest, an exact multiple, or one
byte too long. Two memos are the Makefile's resend buffers; a third command
finds the pool empty. Of a board's names one fits beside the data and one fits
only alone; a list of one entry is full with the first device heard; -65534, 1
and 65536 cycles are two, one and none. `MaxTime` 2 is one more than the
duration asked for, which is all `LifetimeHonoured` needs; the other properties
do not look at the time. With one transaction and three notifications of which
every second one is confirmable, an observer is skipped, a repetition arrives
after newer ones, and the pool is full. A width of 16 bits keeps the sum of
offset and length below the wrap as in the 32 bits of the boards. Four writes
are a line's beginning that passes the buffer's end, two more inside the line
with a size below zero, and a guarded one after it. The manufacturer data are
of 2 units, or of 3 and refused; an offset beyond the storage wraps in both
widths.

The runs allow the system to stop (`CHECK_DEADLOCK FALSE`) where clients send a
bounded number of requests and are done. The separate and the temperature
resource never stop, and their runs check deadlock.

Fairness. `CoapSeparate`: what is not lost is delivered, the engine's timers
run, notifications of other resources end; strong fairness of `ButtonAnswers`
means that the button is pressed at some moment when a transaction is free and
not only at others, which is an assumption about the user. `CoapTemperature`:
the engine's timer runs the periodic handler. `CoapChunks`: the client repeats
while it waits, and the network does not lose every copy. `CoapBlock1Separate`:
clients start, the engine handles what arrives. `GcoapCli`: both threads get
the processor; gcoap's timer ends what is not answered. `BleRss`: the shell's
thread runs between cycles and its timer ends each cycle. `Exercises`: the
LwM2M reader wakes up every five seconds and wakaama's thread handles its
marks, reading a value and sending it; the LoRaWAN `main` runs whenever it does
not sleep, and each of its calls returns. Nothing is assumed of sensors, servers,
users or the network.

## 4. Findings

- `EndSignalled` of `CoapBlock1Separate`. A last block of full size is not
  recognised as the last: it is served with the offset moved to the message's end,
  not to -1, and announces a block that does not exist. A client that asks for it is
  answered 4.02 `BlockOutOfScope` although it has the whole message.
- `PathRetained`. `gcoap_cli_cmd` writes the path before it knows that it will
  send, so a refused command makes a running transfer fetch its next block from
  another resource.
- `LifetimeHonoured`. `ble_rss_scan.h:36` calls the argument of
  `ble_rss_autoadv_start` the advertisement's lifetime. The code makes it the
  interval and asks for `BLE_HS_FOREVER`, so the board stays on the air.
- `UpdatesInstance`. `lwm2m.md:322` says that the reader updates the object's
  instance. After the server has deleted it, it writes to memory that was freed.

Other behaviour is in the model as the code has it, and no property promises
anything about it:

- `res-separate.c:75` speaks of one open separate response; the code counts to
  two and stores both in the first slot, so that the earlier client is
  acknowledged and never answered. `SilenceNeedsLoss` exempts it.
- `ble_scan/main.c` hands the number of cycles to a 16-bit parameter: 65536 runs
  none. `ScanEnds` promises the number modulo 65536.
- `res-mirror.c:150` marks a text of exactly the payload's size as cut, though it
  fits, and overwrites its last byte. `CutIsMarked` is about texts that are cut.
- `res-sht11.c` prints an unsigned number: -39.60 degrees are served as 65497.
  `Sht11WithinADegree` begins at -0.90 degrees.
- A LoRaWAN round sends a reading that failed as 0, which a receiver cannot tell
  from a measured 0. `SentIsMeasured` keeps the two apart.
- `ota/main.c` takes the number of bytes as the index to stop at: 1 byte from
  offset 2 prints nothing. `PrintsOnlyRange` says that what is printed is in the
  range, not that it is all of it.
- Clients of `b1sepb2` whose message another one wrote over are answered with
  that one's bytes, and of a served block only part is copied; a client that
  finds the pool empty is not answered. `ImplementsEcho` and `AckedIsAnswered`
  exempt them.
- A transfer whose path is typed over fetches its next block from the new path;
  `ImplementsTransfer` forgets it when the path is cleared.
- A board that is on the air again by itself after a connection, during which its
  name or data was set, is exempt from `OnAirIsCurrent`.

## 5. Proofs

Each component's theorems are in a module of their own. They hold for every
value of the constants that satisfies the assumptions of the module they are
about.

`CoapSeparateProofs`, for any numbers of requests, slots, transactions,
observers, repetitions and losses (`ReqAssumption`, `SizeAssumption`: there is a
slot and a transaction, `BoundAssumption`):

- `TypeCorrect`: `TypeOK` always holds.
- `SlotCorrect`: `SlotHoldsLatest` always holds.
- `AnsweredOnce`: `NeverAnsweredTwice` always holds.
- `ReleaseCorrect`: the action property `ReleaseAnswers`.
- `SilenceExplained`: `SilenceNeedsLoss` always holds.
- `MailboxImplemented`: every behaviour of `CoapSeparate` is one of
  `SeparateMailbox`.

The argument has two invariants beside the types. `SlotHoldsLatest` is
inductive with `TypeOK`: accepting appends to `open` what it writes in the
slot, answering empties both sides. `NeverAnsweredTwice` is not inductive,
since nothing in it says that a newly accepted exchange was not answered
before. Its strengthening says that every message id in `open` and `responded`
is below `next_mid` and that the ids in `open` are distinct; ids are never
reused in the model (the engine's 16-bit counter is taken to be longer than an
exchange lives). The refinement follows from the same invariant: an accepted
exchange is new, and the slot holds the last of `open`, so resume answers
`Last(pending)`.

`SilenceNeedsLoss` says that a client told to wait is not left without an
answer unless a later exchange took its slot or more datagrams were lost than
its response has repetitions. By `PromiseInv` whoever was acknowledged has an
exchange that is open, was forgotten or was answered. In the last case the
response is repeated by its transaction, or on its way, or all its copies are
lost, and `LossInv` counts them: a
copy that was sent, is neither under way nor taken by a client that ended, is a
loss (`Missing`, a set of repetition numbers), so a response whose transaction
is gone without an acknowledgement has cost `MaxResponseRetransmit + 1` losses.
The count needs message ids to name one exchange each (`MidInv`), and an
acknowledgement to come from a client that took the response (`ContentInv`).

`CoapTemperatureProofs`, for any observers, sensor values, intervals and
threshold (`SensorAssumption`: no reading is `INT_MIN`, `IntervalAssumption`:
`0 < INTERVAL_MIN < INTERVAL_MAX`): `TypeCorrect`, `Fresh`
(`FreshWithinMaxAge`), `ChangesRecorded` (`ChangeRecorded`), `RateIsLimited`
(`RateLimited`) and `ValuesSettle` (`ValueSettles`). None of these is inductive,
since none mentions `interval_counter`, which is all the handler goes by. `Inv`
ties the histories to it: what an observer holds is no older than the counter
(`AgeInv`); the counter is at most the seconds since the last notification, so that
`gap` is `INTERVAL_MIN` at least after the next (`GapInv`); a change that is not on
record is younger than both the counter and `INTERVAL_MIN` (`ChangeInv`); and a
value read since the sensor last moved is the sensor's (`ValueInv`).

`CoapChunksProofs`, for any length and any set of block sizes
(`ChunksAssumption`): `TypeCorrect`, `EndIsSignalled` (`EndSignalled`),
`InScope` (`NeverOutOfScope`) and `Whole` (`WholeTransferred`). `Inv` says that
nobody asks beyond the end, that every block under way lies in the
representation with a correct More flag, and that the client has put together
as many bytes as the offset it asks for. `HandlerFacts` is what it needs to
know of the handler.

`CoapBlock1SeparateProofs`, for any clients, buffer, block sizes, message
lengths and repetitions (`SizeAssumption`): `TypeCorrect`, `OnlyWrittenServed`
(`MessageWritten`), `AckedAnswered` (`AckedIsAnswered`), `EchoRight`
(`EchoIsPost`: what a client ends with) and `EchoImplemented`, that every
behaviour is one of `EchoService` (`ImplementsEcho`). `MessageWritten` is
about what clients have collected and says nothing of the messages under way,
so `Inv` follows a block from its post on: every block on the wire starts
behind bytes that are in the buffer, what is in the buffer up to `big_msg_len`
is written, and bytes that are written stay so, whoever posts next
(`StoreWrites`). For `AckedIsAnswered` it adds that the acknowledgement of a
last block on the wire has its first block beside it, or an empty pool behind
it.

`EchoIsPost` is about clients whose message no other request wrote over, and
for them `BufferInv` follows the message all the way: what such a client has
posted is its own in the buffer (`Own`), a Continue on the wire says that its
block is too, and from the acknowledgement of the last block on the buffer
holds that message and nothing else (`Complete`). A repeated block may still
arrive then, but only the last one leaves a client undisturbed, and it writes
the same bytes and the same length again (`StoreOwn`, `StoreCompletes`).
`FirstBlock` and `NextBlock` say what replies carry, `EchoInv` what a client has
put together of them: full blocks while more are announced, so that the bytes
copied of a block are copied at the same place of the message (`NextMultiple`).

The refinement follows from the same invariant. A stored block is `Forget`
(`StoreForgets`); a payload that an undisturbed client takes is `Return`
(`TakeReturns`), because by `EchoInv` what it has then is the beginning of its
message (`TellsPrefix`), and the payload is not empty; taking the acknowledgement,
or anything by a client that is disturbed, stutters.

`GcoapCliProofs`, for any paths, numbers of blocks, memos, resend buffers and
commands (`PathAssumption`, `PoolAssumption`):

- `TypeCorrect`: `TypeOK` always holds.
- `OneRequest`: `OneRequestEach` always holds.
- `TransferImplemented`: every behaviour of `GcoapCli` is one of
  `BlockwiseTransfer` (`ImplementsTransfer`).
- `ToldHowItEnds`: `OutcomeTold` always holds where there are two memos and two
  resend buffers at least, as the exercise's Makefile sets (lines 13 and 14).
  With one of either it does not: the request being answered still holds its
  own when the follow-up is sent.

`Inv` ties five parts together beside the types: an open transfer has exactly
one memo; a memo of a transfer nobody typed over is for the block asked for
last, of its own path; such a transfer finds its own path in `_last_req_path`,
because a command that is between clearing and sending has marked every open
transfer as typed over; its blocks are its own and in order
(`OwnBlocksInOrder`), all of them when it is complete (`CompleteMeansAll`).

The refinement takes each action by itself. Clearing the path is `Forget`
(`ClearPathForgets`), a request that is sent `Begin` (`SendBegins`), and one
that cannot be sent stutters. A response to a transfer nobody typed over is
`AskNext`, `Complete` or `Fail` (`AskAsksNext`, `EndEnds`), where `Inv` gives
the path and the number of the block; a response to any other stutters, because
what was forgotten stays so (`ForgottenStays`).

`OutcomeTold` needs `AloneInv`: while a transfer that began alone runs and
nothing is typed, its memo is the only one, so the follow-up finds the second
(`RoomForTwo`).

`BleRssProofs`, for any boards, names, data, devices and sizes
(`FieldAssumption`, `NumberAssumption`): `TypeCorrect`, `CurrentOnAir`
(`OnAirIsCurrent`), `OwnCycleReported` (`ReportOfThisCycle`) and `OffAirAsked`
(`OffAirIsAsked`). `OnAirIsCurrent` needs to know what a board may have on the
air at all, `ReportOfThisCycle` that the list holds only what was received in
the cycle at hand.

`ExercisesServerProofs` (lemmas on `CoapObserve` and `CoapGetters`) and
`ExercisesProofs` prove the invariants and action properties of `Exercises`, for
whichever program the board is flashed with and all values of the constants.
The state space is the sum of the programs' and so is the invariant: `Inv` has
one part per program, which that program's steps preserve and the others leave
alone.

- `ObserverKnows` (`UpToDateOrMissed`), for any number of observers,
  transactions and repetitions. `ObserveInv`:
  notifications that are later in sequence do not count less, among themselves
  and against what their client knows (`OrderInv`); nobody knows of an event
  that did not happen (`CountInv`); the next sequence number is above all in
  use, and a notification of the newest event carries the one before it
  (`SeqInv`); a confirmable one its client has not seen is still repeated
  (`ConInv`).
- `CounterImplemented` (`ImplementsCounter`): every behaviour is one of
  `ObservedCounter`. A handler's step maps to `Event`; a notification taken or a
  registration maps to `Learn` or to a stutter (`ObservedStep`), since by
  `OrderInv` and `CountInv` what is taken lies between what its client knows and
  what has happened; every other step maps to a stutter.
- `TypeCorrect` (`TypeOK`) needs `PoolInv`: an observer's sequence number is at
  most one above its resource's counter, and the open transactions are a finite
  set no larger than the pool.
- `Sht11Accurate` (`Sht11WithinADegree`) from `Sht11Error`, for every reading of
  14 bits from -0.90 degrees up, and `EtagTells` (`EtagIdentifies`) from `EtagIsLength`.
- `CutIsTold` (`CutIsMarked`), for requests of any number of writes of any
  lengths, guarded or not. After every prefix of the writes `strpos` is the sum of
  their lengths, or beyond the payload's size, where it stays: a write that fails
  takes one off, but only from a `strpos` above that by two at least (`Told`,
  `NextTells`). In place of an induction over the writes the proof takes the
  shortest prefix for which that fails: `LeastNatural` gives one from the library's
  well-founded order of the naturals, and the prefix before it contradicts it
  (`WrittenTells`; `PrefixesExist` for the recursive function itself).
- `ReaderIsOne` (`OneReader`): `StartInv` adds that a start under way found the
  client unconnected, connected it, and has no reader before it.
  `DeletedStaysGone` (`DeletedIsGone`): a deleted instance is off the list
  (`DeleteInv`).
- `SlotsAreReported` (`SlotsReported`): a slot on report is the one asked for
  (`ReplyInv`), since only a reboot exchanges the slots and it ends every reply; and
  an update writes to the other slot alone (`SlotsRight`). `PrintedInRange`
  (`PrintsOnlyRange`): what was printed is what `ToPrint` gave (`PrintInv`).
- `MessageIsMeasured` (`SentIsMeasured`): the readings of a round stay until
  they are sent, and Cayenne LPP's buffer is empty at the start of a round
  (`ReadingInv`); C's quotient and remainder tell a number below zero too
  (`DecimalTells`), and 1000 tenths are 200 half percents, which fit a byte.
- `Silent` (`StoppedIsSilent`) and `MutexHeld`. The property says nothing of the
  mutex; `LockInv` says that the thread holds it exactly while it reads and that
  it is the shell's once stopped. A stop gives up a mutex that the thread holds,
  but because of the priorities it never meets one.

The assumptions are the code's: there is a finite number of observers
(`ObserveAssumption`); the payload of a response is below 256 bytes, so that
its length fits the ETag's byte, the lengths of what is written of a mirrored
request are naturals, and the SHT11 measures with 14 bits
(`GettersAssumption`); a storage is smaller than what `size_t` counts, and
offsets and lengths are of that type (`SuitAssumption`); humidity is between 0
and 100 percent and temperature an integer (`LoraAssumption`).

The type invariants are not properties of the runs: they are proved. Every
invariant, every action property and every refinement that a passing run checks
has a theorem. Only model-checked are the liveness properties `AckedIsServed`,
`ServesMailbox`, `FirstValueRecorded`, `TransferEnds`, `ExchangeEnds`,
`TransfersReported`, `ScanEnds`, `ServerCatchesUp` and `GoesOn`: they follow
from fairness, which needs `ENABLED`, out of the prover's reach. Of
`TransfersReported` the part that is safety is proved: a transfer that ends
does not end in silence (`ToldHowItEnds`); that it ends is left to TLC.

## 6. Not modelled

- Serialisation, options, tokens and textual payloads: no property is about
  them. A message id is unbounded.
- The engine's own code, which is not in the tree. Modelled of it: transactions
  and their repetition, the empty acknowledgement of `coap_separate_accept`,
  5.03 when no transaction is free, the More flag from the handler's offset,
  one GET handler call per notification, and no deduplication. The same goes
  for gcoap, nimble, wakaama, RIOT's update worker and the boot loader.
- `res-sub.c`, which echoes the path it was asked for, and `res-accel.c`, which
  prints three readings: they keep no state and compute nothing.
- The method of a follow-up request in `gcoap_cli.c:100`, always GET: no
  document says what it should be.
- The scan time of `ble_scan/main.c:41` and signal strengths.
- `riot/networking/coap/main.c`: one handler that answers with a constant, and
  three with empty bodies.
- `riot/networking/udp-sock/client/main.c`: the endpoints and the message are
  left for the reader to write. What it receives it prints, whichever request
  it answers, and all messages are the same text: no state tells a late reply
  from the right one.
- `riot/basics/{uart,rtc,threading-concurrency,threading-ipc}`: the files hold
  an empty `main`, an empty thread or an empty command. Their behaviour is in
  the notebooks alone.
- `riot/security/{hash,encryption,signature}`: shells around one library call,
  to be filled in. Notebooks, containers and build files.

## 7. What is next

The button's event and push notifications and the separate responses drawing from
one transaction pool: `CoapSeparate` counts the former as other transactions,
which covers every use `CoapObserve` makes of the pool.
