# A TLA+ model of libconbee

libconbee is a C library that talks to a ConBee Zigbee stick over a serial
line. An application thread queues a request and waits for the frame that
answers it; one worker thread per device owns the tty, writes queued requests
and queues what it reads. The program `conbeectrl` offers the library on the
command line, with an argument parser of its own. This directory models all of
these, from the command line down to the bytes on the line, checks them with TLC
and proves the central properties with TLAPS.

Run a check with `tlc -config DeviceSafety.cfg MCConbeeDevice`, a proof with
`tlapm ConbeeDevice_proofs.tla`. Paths below are relative to the repository's
root.

## Inventory

| component | state | operations | what makes it correct |
|---|---|---|---|
| queue (`src/conbee-queue.c`) | head, tail, items with next and previous | init, push, pop, delete | contents leave in push order, once; no freed item is touched |
| worker (`src/conbee-send-receive.c`) | `worker_running`, local `stop`, the frame in hand | one thread: check stop, select, read and deliver, or pop and write | no queued frame is left behind, nothing is sent twice, it ends when asked |
| enqueue and wait (`src/conbee.c` 977-1066) | `sequence_number`, `send_queue`, wake-up pipe, `receive_queue`, mutexes, condition variable | `conbee_enqueue_frame`, `conbee_wait_for_frame`, any thread | a caller gets the answer to its own request; a received answer is returned |
| connect and close (`src/conbee.c` 45-189) | `tty_status`, `fd`, `worker_stop` | `conbee_connect`, `conbee_close` | the tty outlives the worker; close returns |
| packets (`src/conbee.c` 264-357, `src/slip.c`, `src/crc16.c`) | none between calls | write and read one frame: SLIP escapes, checksum, lengths | what is written is read back; lengths never wrap |
| requests and parsers (`src/conbee.c` 367-962) | none | build a request, take a response apart | the parser accepts what the builder asks for |
| getters and setters (`src/conbee-functions.c`) | none | request, enqueue, wait, parse | errors reach the caller; the response is freed |
| `conbeectrl` (`src/conbeectrl/`) | device name, one option value | main, ten getters, five setters, one of them per run | the command named runs, on the device named, with the number given |
| argument parser (`libs/yaap/src/argparse.c`) | argument table, loop indices, argc and argv | add, parse, dispatch | the table fits its memory; a parse ends and stays inside argv; mandatory arguments are enforced |
| build files, yaap's example | none | none | nothing at run time |

They interact as follows. A client pushes to `send_queue` under one mutex and
writes two bytes to a pipe under another. The worker selects on the tty and the
pipe, tty first; a wake-up lets it pop and write one frame, input makes it read
one packet, push it to `receive_queue` and signal the condition variable. A
client searches `receive_queue` under its mutex and sleeps on the condition.
`conbee_close` sets `worker_stop`, polls `worker_running`, joins and closes the
tty. `conbeectrl` parses its command line twice, once for the command and once,
with what the first parse left, for the option of a setter; then it makes one
call at a time. Hard behaviours: two clients overtaking each other, answers out of order,
the gap between the search and the sleep, a mutex that is never released, the
start of the worker before the device is connected, close at any moment, answers
left over from an earlier connection, freed queue items, a line that changes or
loses bytes, lengths kept in three places, a parser that moves its word index
inside its loop over the table, option values nobody has written.

## Modules

| module | what it is |
|---|---|
| `QueueOps` | a queue as a sequence of items, each with the one bit of link state that matters: whether its `previous` link is set |
| `FrameQueue` | abstract specification of a queue built from these operators |
| `ConbeeQueue` | `conbee-queue.c` link by link; implements `FrameQueue` |
| `ConbeeDevice` | the device: connecting thread, clients, worker, and the stick as environment; uses `QueueOps` for both queues |
| `RequestService` | abstract specification of what a device promises its clients; `ConbeeDevice` implements it |
| `MCConbeeDevice` | symmetry of the clients for TLC |
| `Slip` | one direction of the line byte by byte: `slip_transmit_packet`, `slip_receive_packet` |
| `MCSlip` | packets made of the codes of SLIP for TLC |
| `FrameCodec` | frames as bytes: requests, `conbee_write_frame`, `conbee_read_frame`, `crc16`, response parsers (operators only) |
| `ConbeeFunctions` | getters and setters over these bytes and a stick that keeps parameters |
| `MCConbeeFunctions` | two parameters for TLC |
| `ArgParse` | `argparse.c`: the table and `argparse_parse`, a step per comparison of a word with an entry |
| `Conbeectrl` | `main` and the commands on top of `ArgParse`; the library is the environment |
| `MCConbeectrl` | command lines and number widths for TLC |
| `ConbeeDevice_proofs` | types, thread order, one wake-up per frame |
| `ConbeeAnswer_proofs` | each client gets its own answer, each request stays on its connection |
| `ConbeeCopies_proofs` | no request or answer is in two places; `ConbeeDevice` implements `RequestService` |
| `ConbeeBusy_proofs` | one request at a time meets neither the search that spins nor the dangling link |
| `ConbeeQueue_proofs` | the list's invariant, its order, the safety of popping; `ConbeeQueue` implements `FrameQueue` |
| `Slip_proofs` | the receiver's buffer, packets in order, damage confined |
| `ConbeeFunctions_proofs` | the codec on bytes, the checksum, what a return value of a getter or setter says |
| `Conbeectrl_proofs` | the table and the walk through the command line, the command and device that follow from it, what a crash needs |

### ConbeeQueue

Addresses are numbers handed out in order and never again, because in C a
pointer to a freed item stays dead even when `malloc` returns the address once
more. The first access to a freed item sets `wild`, and the machine stops: the C
program has no meaning from there on. `chain` is history, the addresses in push
order. `removal`, chosen once, is "pop" for the send queue and "delete" for the
receive queue: the library never mixes the two on one queue.
`malloc(sizeof(item))` reserves 8 bytes for a 24 byte item (line 38); glibc's
smallest chunk holds 24, so the model treats the item as whole.

### ConbeeDevice

A mutex section that never waits inside is one step. `mutex_receive_queue` is a
variable (`receive_lock`), because `conbee_wait_for_frame` can spin while it holds
the mutex: its inner loop never moves on to `item->next` (`WaitStuck`). The
unlock, lock and `pthread_cond_wait` after an unsuccessful search are the steps
`WaitEmpty` and `WaitSleep`, with room for the worker in between.
`conbee_read_frame` has four outcomes: the frame, a blank frame (wrong checksum;
two of them for a packet that the line has split with an `END`), a blank frame
without reading (device not yet connected), or blocked (a packet whose end has not
come; also what remains of an unplugged stick, because `slip_receive_packet` never
notices the error). The worker queues the frame in the first three.
`conbee_connect` is two steps, up to `pthread_create` and the setting of
`tty_status` after it, and a third for a failing `pipe()`.

The caller keeps to the API in this much: `conbee_connect` is called on a closed
device while no other thread is inside the library, `conbee_close` on a connected
one, by the same thread. Clients may call at any time after the first successful
connect, also while the device is being closed and after it. `Restart` kills the
process at any point and starts it anew: everything in memory is gone, while the
stick keeps the requests it has not answered. An answer to the killed process can
then be taken for the answer to a request of the new one, because the sequence
numbers start at 0 again; `OwnAnswer` excepts exactly these answers.

Frames carry a history number `id`, the number of the request a frame is or
answers, 0 for a frame that belongs to none. Payloads are left out: no property
here depends on them. `issued` and `base` are history too (requests numbered so
far, and at the last connect).

### RequestService

For each request `unused`, `pending`, `answered` or `over`: submitted once,
answered at most once and to one thread, and nothing of it comes back when it is
over. `ConbeeDevice` maps to it by looking for the request's number
(`ServiceState`): a client has it in `got`, or it still is in a client's hands,
in a queue, with the worker, at the stick or on the line (`Exists`), or neither.
Restarts, reconnects, damaged packets and closing a device are `End` of the
requests they lose.

### Slip

The transmitter writes one byte per step, the receiver reads one, and between
them lies a bounded stretch of line that may change or lose a byte; a write may
fail, and the stick may be pulled out for good. The four codes and one plain byte
(`Zero`, also the initial value of `c`) stand for all bytes: the code tells no
others apart. `sent`, `delivered` and `hit` are history: the packets given to the
transmitter, the packets returned by the receiver, and the packets damage has
reached. Damage to one byte reaches the next packet too in one case, a closing
`END` changed into an `ESC`, which swallows the `END` that opens the next packet
(`Reached`); a second damaged byte may do the same. A failing `read` leaves `c`
alone and is taken for a byte read, because `err` is unsigned (`ReadError`).

### FrameCodec and ConbeeFunctions

`FrameCodec` holds real bytes, because lengths, checksum and layout are what can
go wrong: the length field counts the header, the two bytes of `payload_length`
that `conbee_write_frame` puts before the payload, and the payload. `ReadFrame`
answers "undefined" where the C code has no defined result (a checksum over a
negative number of bytes, header fields never written, a payload of 65535 bytes).

`ConbeeFunctions` makes one call at a time: queue a request, let the stick answer
or refuse it, let the line change one byte of the answer or cut it with an `END`,
read, parse, return. Getters differ only in parameter and width, so `Get(p)` stands
for all, with `Width`; `StickWidth` is what the stick holds, which may differ.
A blank frame or a frame that does not match leaves the caller searching for ever
("stuck"), as in `ConbeeDevice`. `frames` counts frames allocated for the calls
and not freed; a request is freed by the worker when it has been written. `Requests` are
frames an application builds and queues by itself; the stick refuses them here.
`ParseState` takes the device state out of an answer to such a frame, as
`conbee_device_state_response` with its status predicates does; it reads one byte
at a fixed place of the payload, without a look at the status or the length.

### ArgParse and Conbeectrl

A word of the command line is a record: `-s`, `--name=value` or plain text, which
is all the parser tells apart; `--name=` has the value `"="` and `--name` none.
How long a word is matters for `maxchars`, and which number `strtol` finds in it,
from its start (an integer) or from its third character (a string, whatever the
first two are), so `Length`, `Decimal` and `Hexadecimal` are functions of the
whole word and `-m -1` is a number below zero. `parse` is where `argparse_parse`
is. One set of its variables is enough for the two parses of a setter, because the
callback is the last thing the outer one does. The variables keep what the code
keeps from one entry to the next: the word index `i` moves inside the loop over
the table, so the value of an option is compared with the entries that follow;
`strtok` cuts `--name=value` also where the name is not the entry's. `argc` and
`argv` are separate, because they no longer agree once a command is not the first
word; reading a NULL ends in "crashed". `memory` is what option values point to:
unwritten, a word, or a word `strncpy` left without a terminator. A number read
from unwritten or unterminated memory is any number `strtol` can return; a
`strtol` result becomes an `int` or the unsigned type of the parameter, with the
widths as constants.

A getter looks at none of its arguments, so the ten of them are one action. The
library call gives what `ConbeeFunctions` allows: 0, the stick's refusal, or -1,
which a getter's `uint8_t` turns into 255.

## Runs

| run | instance | what it shows |
|---|---|---|
| `queue` | 5 items, 2 values, popped or deleted | the links describe the queue in push order, popping touches nothing freed, `FrameQueue` is implemented, up to the deletion of an item whose predecessor has been freed |
| `device_safety` | 2 clients, 3 requests on 2 sequence numbers, `COMMAND_ANY` too, 1 report of the stick, 2 calls of connect | types, wake-ups match frames, no duplicates, own answers, tty outlives worker, writes only when connected and only of requests of the same connection, a client that is alone inside the library never spins and never touches a freed item |
| `device_sessions` | 2 clients, 2 requests, 2 calls of connect, 1 damaged, split or cut packet, 1 spurious wake-up, fair | `RequestService` is implemented, close returns, queued frames are written, unless the program is stuck for good or killed; wake-ups match frames and answers their requests with noise, old answers under way and a failing second connect |
| `slip_line` | 3 packets of up to 3 bytes, buffer of 2, 2 bytes damaged or lost, 3 bytes under way, unplugging | buffer never overrun, packets whole and in order, damage confined to the packets it reaches |
| `functions` | 2 calls, parameters of 2 bytes and 1 byte, a stick holding 2 bytes for both, answers refused, changed or cut | a 0 means the value was read or written, payloads arrive, damaged answers are not returned, undamaged ones never have undefined lengths, a device state is taken from one answer as a whole |
| `conbeectrl` | every command line of up to 3 of 22 words, those with `-d` first, an option twice or in both forms, numbers of 2, 3 and 6 bits, -1 among them | the first command runs, on the device of the last `-d`, where devices come in front; a setter used as documented sends what it was given, what a crash needs, every parse ends |
| `device_search`, `device_lost_wake_up`, `slip_unplugged`, `functions_join`, `functions_error`, `conbeectrl_mandatory` | smallest instance each; for the last one the instance of `conbeectrl` | what the documentation says and the code does not do, with a counterexample each; the findings in `PROJECT.json` quote the lines |

Twelve more configurations show smaller disagreements of the same kind. TLC finds
each one violated; run them by hand.

| configuration | module | property | what happens |
|---|---|---|---|
| `QueuePrevious.cfg` | `ConbeeQueue` | `PreviousLinksBack` | after two pushes and a removal the head has a previous link to the freed item (`src/conbee-queue.c:66`, `:89`) |
| `DeviceEarlyRead.cfg` | `MCConbeeDevice` | `ReadsConnectedDevice` | the worker starts before `tty_status` is set and queues a blank frame (`src/conbee.c:152`) |
| `DeviceEnqueueClosed.cfg` | `MCConbeeDevice` | `EnqueueRefusedWhenDisconnected` | after `conbee_close` a frame is queued, not refused with the documented -2 (`src/conbee.c:975`) |
| `DeviceWaitClosed.cfg` | `MCConbeeDevice` | `WaitReturnsWhenDisconnected` | after `conbee_close` a wait sleeps for ever (`src/conbee.c:1016`) |
| `FunctionsRead.cfg` | `MCConbeeFunctions` | `ReadIsDefined` | an `END` inside an answer leaves a packet of one byte, whose checksum runs over a negative length (`src/conbee.c:329`) |
| `FunctionsLeak.cfg` | `MCConbeeFunctions` | `NoFrameLeft` | a successful getter leaves its response allocated (`src/conbee-functions.c:120`) |
| `FunctionsVersion.cfg` | `MCConbeeFunctions` | `VersionIsReal` | a refused version request returns 0 (`src/conbee.c:531`) |
| `ConbeectrlExample.cfg` | `MCConbeectrl` | `ExampleIsSent` | the example of a mask has as many characters as `maxchars`, so it loses its terminator; that of a PAN id does not fit a `long` either (`src/conbeectrl/set-channel-mask.c:24`, `set-aps-ext-panid.c:39`) |
| `ConbeectrlDevice.cfg` | `MCConbeectrl` | `DeviceCanBeNamed` | `-d X set-network-mode -m 1` hands the setter an argc that is too large; it reads the NULL behind argv (`libs/yaap/src/argparse.c:355`) |
| `ConbeectrlBehind.cfg` | `MCConbeectrl` | `DeviceBehindCommand` | the usage is `<command> [<args>]` (`libs/yaap/src/argparse.c:250`), but `version -d X` opens the default device: a command is called as soon as it is met (`argparse.c:357`) |
| `ConbeectrlValue.cfg` | `MCConbeectrl` | `DeviceIsNoCommand` | `-d` takes a device name (`src/conbeectrl/main.c:52`), but `-d version` runs `version`: the value is compared with the entries behind the option's (`libs/yaap/src/argparse.c:375`) |
| `ConbeectrlLongForm.cfg` | `MCConbeectrl` | `LongFormAccepted` | `--mask=0x10` is an unknown argument, the branch for it is empty (`libs/yaap/src/argparse.h:39`, `argparse.c:364`) |

Bounds. Two clients are the fewest that overtake each other and that make a frame
arrive which is not the first one's answer. Two sequence numbers and three
requests make the numbers wrap. `PipeCapacity` 1 lets a client block on the pipe.
Five items let a queue grow to four, empty and fill again. Two connects are a
reconnect, and with three requests one can be queued after the first close and
two made on the second connection, the case `OnlyOwnConnection` is about. Command
lines of three words
are a setter with its option; two more put a device in front of it or give the
option again. The widths of numbers keep their order, so that a value can be too
large for each of them and the examples of the help texts stand where the real
ones stand: at `maxchars`, and above the greatest `long`. `MaxBacklog` bounds the blank frames queued before the device is
connected: in the program the worker makes as many as fit between
`pthread_create` and the assignment of `tty_status`. Three packets leave a
packet before, in and after the damage; a buffer of two bytes makes the longest
packet overflow; a second damaged byte is the fewest that takes two packets. Two
calls let a second one meet what the first left; the bytes 0, 1 and 255 add up
with and without a carry into the checksum's second byte. Deadlock is not checked: with
the bounds used up, and when every client sleeps or spins, the system stops; that
clients do get stuck is what `device_search`, `device_lost_wake_up` and
`DeviceWaitClosed.cfg` are about. In `slip_line`
the system stops when all packets are sent and read, in `functions` when the
calls are used up or the caller is stuck, in `conbeectrl` when the program ends.

Fairness. `FairSpec` assumes weak fairness of the connecting thread inside a
call, of the worker and of each client inside a call: the operating system runs
every thread, and `mutex_receive_queue` is either released in the same step or
never. Nothing is assumed of the stick, of the application starting a call, or
of spurious wake-ups; a process may be killed at any time, and then its close
does not return. In `conbeectrl` only the parser's loop is assumed to go on, one
thread that waits for nothing. In a bounded instance the stick falls silent eventually; a
stick that never stops sending would keep the worker from the pipe for ever,
because the tty is looked at first, so `EnqueuedIsWritten` holds for a line that
is quiet from time to time.

## Proofs

Every invariant was model-checked before it was proved; each theorem holds for
every value of the constants that meets the `ASSUME` of its module.

About the device, from `DeviceAssumption` alone (the clients are finitely many,
the special commands are distinct and are not commands of requests), for every
number of clients, sequence numbers, and every pipe capacity and bound:

- `TypeCorrect`: `TypeOK` is inductive by itself; one lemma per group of actions.
- `TtyOutlivesWorker`, `WritesWhenConnected`: `FdOutlivesWorker` and
  `WriteWhenConnected` need `ThreadOrder`, which says for each stage of the
  connecting thread what is open, who may run, and that no wake-up and no client
  exists before the device is connected. Without the last part the worker could
  write too early. `conbee_close` needs the wake-ups counted as well.
- `OneWakeUpPerFrame`: `TokensAccountForFrames` with `TypeOK` and `ThreadOrder`.
  Each action moves one unit between the pipe, the clients about to write and the
  worker about to pop, or adds a frame and a waker together.
- `EachClientItsAnswer`: `AnswerInv` follows every frame through every place it can
  be in (`Everywhere`): its number is at most `issued`, a frame without a number
  carries no request's command, and within the first `SeqMod` requests of a
  connection the sequence number is the request's place among them. A client that
  found a frame with its command and sequence number then holds its own answer.
- `NoRequestOfAnotherConnection`: `OnlyOwnConnection`. What the worker
  writes and what the send queue holds bear numbers above `base`
  (`QueuedInSession`): a client inside queues a number of this connection
  (`AnswerInv`), and a connect, which raises `base`, empties the queue and finds no
  worker (`ThreadOrder`).
- `NothingTwice`: `AtMostOneCopy`. The occurrences of a number are counted place by
  place, clients' hands, both queues, the worker, the stick and the line. A step
  keeps or loses copies (`Fades`), numbers a new request (`Numbers`) or moves one
  copy to a client (`Answers`), and no number above `issued` has a copy.
- `DeviceImplementsService`: the same count decides what a step is in
  `RequestService`. `Numbers` is `Submit`, `Answers` is `Answer`, and `Fades` is `End`
  of the requests whose last copy goes, or no change at all.
- `OneAtATime`: `OneAtATimeIsSafe`. On an undisturbed connection the frames under
  way, counted over every place from the clients to the receive queue, are never
  more than the clients that wait (`Accounted`), so two frames need two clients;
  and each belongs to a client that waits for it (`Owned`), so a client alone that
  searches finds its answer at the head, and with one thread nothing is ever
  linked behind another item (`Unlinked`). The proof
  showed the first version of the property too strong: with several threads, once
  the sequence numbers have wrapped, a caller that asks for `COMMAND_ANY` takes
  another one's answer and can leave it alone with one that does not match. The
  property now says so (`NothingTaken`).

About the queue, from `QueueAssumption` alone, for any number of items and values:

- `QueueTypeCorrect`, `PointersDescribeQueue`, `PoppingIsSafe`: `TypeOK`,
  `ListMatchesChain` and `PopNeverWild` follow from `QueueInv`. What had to be added
  to make it inductive: addresses in the queue are distinct and already handed out
  (a push then disturbs none of them), and a `previous` link leads to the
  predecessor or, at the head, nowhere or to an address handed out and freed (a
  delete through it is then exactly the access that sets `wild`).
- `ListImplementsQueue`: every step of the list is the step of `FrameQueue` with the
  same name, the abstract queue being the contents along `chain`. Two lemmas say
  what appending and dropping an address does to it.

About the line, from `SlipAssumption` alone (the four codes and the plain byte are
distinct, packets are not empty), for packets of any length, any buffer, any
stretch of line and any number of damaged bytes:

- `TypeCorrect`: the buffer of the receiver is never overrun. `Underway` is added: a
  packet is being sent while the transmitter is busy, and the second byte of an
  escape has a byte to stand for.
- `InOrder`, `DamageStaysPut`: `InOrderUntilDamage` and `DamageConfined` follow from
  `SlipInv`. It says that the line can be marked: every byte under way with the
  place of a packet it was written for (the opening `END`, the n-th byte, the code
  behind its `ESC`, the closing `END`), and every packet with the places where a
  byte was changed or is missing, so that between two bytes next to each other
  on the line only such places lie (`Marked`, `Link`). And it says what the
  receiver has made of everything before the first of these places (`Heard`): with
  no damage so far the buffer is the packet up to there, and after damage to an
  earlier packet it is back in step, for the closing `END` of a damaged packet or
  the opening one of the next ends whatever was going on. If both are to fail,
  two bytes must be damaged, or the closing `END` have become an `ESC`, and then
  `hit` has the next packet in it. `SoundPut`, `SoundDrop`, `SoundRead`, `SoundChange`
  and `SoundLose` are the five kinds of step, `ReadHeard` is the receiver.

About the calls, from `FunctionsAssumption` (parameters and values are bytes, widths
are those of the library's integers and up to 16 bytes in the stick, at most 255
calls, so that sequence numbers do not wrap), for all parameters, widths, values and
stored contents:

- `ChangeIsFound`: one changed byte makes a checksum wrong, wherever it is, for packets
  of any length. The sum is a recursive function over the packet (`Total`). That it
  exists, moves with one byte by as much as that byte, and is at most 255 a byte is
  proved by induction over a set of lengths (`SetInduction`): the library's
  well-foundedness of `Nat` ranges over sets, so the provers can use it, while its
  induction theorems range over operators.
- `TypeCorrect`, `DefinedUnlessDamaged`, `RequestsWhole`, `ChangedNeverReturned`,
  `ZeroIsDone`, `StateWhole`: the invariants of the run follow from `FunctionsInv`. It
  says stage by stage what there is of a call: the request is one that a builder
  makes, with its parameter in front of its value (`Request`), the packet is that
  request (`Asked`), what is under way is an answer of the stick to it, whole, with one
  byte changed, or cut in two (`Underway`, `FromStick`), what has arrived is an answer
  with the stick's status and payload, or a part of one that checks out (`Arrived`),
  and what has been returned was made of that (`Returned`). `WriteFrameFacts`,
  `WholeFacts` and `ReadFrameFacts` are the codec: what is written is read back, for
  every payload. No bound on calls or values is used but the 255.

Three of these theorems have a hypothesis of their own, and each is needed.
`RequestsWhole` lets the application queue no request but the one for APS data: the
builders of the others set a length that cuts the payload short (`functions_join` is
the counterexample). `ChangedNeverReturned` and `StateWhole` leave out answers cut in
two: a part of one may check out by coincidence. When a stick holds the 4 bytes 224 0
255 x as parameter 5, the answer to the first read of it with an `END` in place of x
makes such a part: 224 and all before it have the checksum 0 255. `ZeroIsDone` covers
cut answers too, as long as the stick's width is at most one byte over the library's
(`Narrow`, which the instance of the run meets). Then the part would have to be the
answer without its first byte, which puts the status, 0, where the sequence number
10 should be, or without its last, and two sums one byte apart cannot both check
out (`ButLastUnchecked`). With the stick's 4 bytes for the library's 1 it fails: the part
has the getter's length.

About `conbeectrl` and its parser, from `ArgParseAssumption`, `LengthAssumption`
and `ConbeectrlAssumption` (the words of a command line say one of `Texts` and
have lengths, `Decimal` and `Hexadecimal` give integers, the widths of the
integers divide each other), for command lines of any length, any texts, numbers
and widths, and however many entries the table grows by:

- `TypeCorrect`, `FirstCommandAlwaysRuns`, `CrashesAreExplained`: `TypeOK`,
  `FirstCommandRuns` and `CrashesExplained` follow from `CtrlInv`. The table is a
  recursive function over the entries a program adds; `TableSteps` shows that it
  exists, `TableFacts` that it holds help first, then the entries in their order,
  inside the memory it was allocated (`NextMultiple`: a table of a multiple of the
  growth has just been enlarged). `Walking` is the loop of `main`: so far no word
  names a command, the words of even index are values of `-d`, put into the device
  by the second entry and then compared with the fifteen commands behind it, so that
  the value itself may name the command that runs (`MainHere`); in front of it stands
  a `-d` (`Behind`), which a line with its devices in front does not have there.
  `Found` and `Runs` carry the command and the device from there to the connect.
  `InSetter` says of a setter that comes first that `argc` and `argv` agree and
  that the words ahead are the line's own (`CutOwn`: `strtok` cuts only where the
  parser has been), so that it reads past argv only at an integer option without a
  value. A literal text of the model, such as `"conbeectrl"`, must be one of
  `Texts` for that; the run takes all texts of its command lines.
- `LastOptionIsSent`: `GivenIsSent`. `GivenInv` follows a line that uses a setter's
  option as its usage says: between two words the loop stands before a use and the
  value is that of the last one (`BeforeUse`), after the option's entry it stands
  behind one (`BehindUse`), for it is the last entry of the setter's table, so no
  other entry looks at a value. What is left is arithmetic (`NumberPasses`): a number
  that fits the parameter fits an `int` too. The proof needed the uses of an option
  as a set of places on the line, of any length; an earlier form, with at
  most three uses, could not be reasoned about.
- `ParseComesCloser`: every step inside the loops of `argparse_parse` raises the word
  index, or keeps it and raises the entry's, and both are bounded by `TypeOK`. This is the
  half of `ParseEnds` that needs no fairness.

Counts over several places and sums over bytes are proved the same way: a predicate
names the amounts (`Sizes`, `Amounts`, `Joined`), a lemma says they exist, one step
says how an action changes each, and the arithmetic that is left mentions numbers
only (`AccountedIs`, `MovingIs`, `TotalSteps`). No leaf needs more than about half
of its prover's default time, so the proofs do not depend on a fast machine.

Only model-checked: the liveness properties, which depend on fairness and are out of
the prover's reach, and the properties the code is found to violate.

## Not modelled

Descriptors are not counted (every close leaves both ends of the pipe open),
allocations only in `ConbeeFunctions`. Errors of `select` and `pthread_create`,
which the code does not check, are left out. Byte order is that of a
little-endian machine, the only one on which the library's layout agrees with the
stick's. Of `conbeectrl` and the parser: what is printed, `argparse_free`, flags
other than `-h`, which no program here registers, and yaap's `example1.c`, which
exercises the parser in ways `conbeectrl` does not. The stick is modelled as far as
the library relies on it: its firmware is not part of the repository.

## Plan

1. Descriptors counted over connections in `ConbeeDevice`.
