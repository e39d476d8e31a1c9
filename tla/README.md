# Verification of the sim868 firmware

The firmware in `src/` runs JavaScript (Duktape) on a SIM868 GSM/GPS module and
carries the beginnings of a tracker protocol: it queues position reports, opens a
GPRS connection when enough of them are waiting, logs in to a server, sends them
and closes the connection. Beside it stand drivers for a CAN controller and an
accelerometer, an upgrade of the firmware from a file, and a console: what is typed on the
serial line or by Bluetooth is run as a script. This directory holds TLA+ models of these,
the TLC configurations that check them and proofs that TLAPS checks.

## 1. The system

| component | source | state | operations |
|---|---|---|---|
| retransmission queue | `protocol/msg_queue.c` | linked list `head`, counter `list_length` | `msg_push`, `msg_count`, `msg_resend`, `msg_ack` |
| message memory | `protocol/msg.c`, `commands.c` | heap blocks, counter `seq` | `alloc_msg`, `free_msg`, one function per command |
| senders | `protocol/socket.c` | none of their own | `eat_msg_send`, `eat_msg_send_packed`, `socket_sendDataDirectly`, `socket_sendDataWaitAck` |
| connection | `protocol/socket.c` | `socket_id`, `socket_state`; in the vendor's stack: bearer, sockets | `socket_init`, `socket_setup`, `socket_connect`, `socket_connect2IP`, `socketClose`, three notification callbacks |
| receiving | `protocol/client.c`, `receive.c` | none: one piece of the stream at a time | `client_proc`, `handle_one_msg`, `cmd_Login_rsp` |
| CAN driver | `canbus/` | the MCP2515's buffers, the statics `m_n...` | init, send, receive, masks and filters |
| accelerometer | `mma8452/`, `mma8652.c` | the chip's registers | standby, active, config, read |
| timer thread | `timer.c` | none | sets the accelerometer up at every start; would read the sensors if its timers were started |
| event loop and console | `main.c` | `heap_init`, `rx_buf`, `spp_buffer`, what is left on the engine's stack | an event to the script's `event_callback` and to its handler: modem, serial line |
| upgrade | `internal.c` | the application's flash, in two halves; the heap | read the file, erase, write, hand over to the vendor's core |
| module loader | `duk_module_node.c`, `main.c` | the require cache | `require`, resolve, load |
| other bindings | `internal.c` | nearly none | one wrapper per vendor function |
| bit-banged SPI | `spi.c` | pins | init, read, write |
| crash detection | `crash.c` | a rotation | calibration and rotation of a float vector |

Duktape (`duktape.c`), the vendor's headers (`inc/`), the JavaScript examples, the
binding generator and the older copies of two drivers in the root directory are not
the program's own logic.

**How the parts interact.** The main thread boots, runs `index.js` and then takes one event
at a time: for each it runs the script's `event_callback` and then the handler, which for
the serial line and the modem runs what was typed. Scripts call the bindings, so the
accelerometer and the upgrade are used from there. The timer thread sets the same
accelerometer up at every start, and nothing keeps the two apart. An error that no script
catches ends in `my_fatal`, which resets the module; the accelerometer keeps its registers
through that, and the flash its contents through a loss of power as well.

**How the protocol's parts interact.** Callbacks and the application's calls alternate on
one thread, and a call that has begun runs to its end.
`eat_msg_send_packed` pushes a message and returns 1 when the queue is longer than
`SEND_LIST_LENGTH` and `socket_state` is `SOC_CLOSED`; the caller is then expected
to call `socket_init` (a comment in the function says where that call would go).
`socket_init` opens the bearer, `socket_setup` creates a non-blocking socket, and
`socket_connect2IP` sends the login if `eat_soc_connect` succeeds at once. The
server's answer arrives as `SOC_READ`; `client_proc` cuts it into messages and
dispatches the login answer to `cmd_Login_rsp`, which calls `msg_resend`: that walks
the list, transmits or drops each message, and calls `socketClose`. The shared
state is the list, the two statics of `socket.c`, and the heap: the list holds
pointers to messages that `eat_msg_send` frees, and its own nodes come from the same
heap (`mem.h:13-14` makes `malloc` and `free` the vendor's functions).

**What is hard here.** The list is changed while it is walked (by drops, and by handlers that
push). Memory is freed by the sender while the queue still refers to it, and a second free may
release a node of the list. The statics describe "the" socket while the stack may have several.
Answers come late, to a socket that is no longer the current one. The stream is cut anywhere.
The unsigned count of bytes left goes below zero. A CAN controller changes its buffers between
any two of the driver's accesses. Two threads change the same registers by reading and writing
them back. A restart comes between any two steps, and chip and flash do not start afresh.
Buffers keep what earlier reads left in them. All `hazards` are in `PROJECT.json`, at their
lines.

## 2. The modules

| module | models | extends / instances |
|---|---|---|
| `RetryBuffer` | abstract: what a retransmission queue promises | |
| `MsgQueue` | `msg_queue.c` | instances `RetryBuffer` (refinement) |
| `MsgMemory` | `msg.c` over the vendor's heap | |
| `Delivery` | `MsgQueue` + `MsgMemory` + the senders and commands | extends `MsgMemory`, instances `MsgQueue` |
| `Socket` | the connection of `socket.c` | |
| `Session` | `MsgQueue` + `Socket` + the login answer + the application | extends `Socket`, instances `MsgQueue` |
| `Framing` | `client_proc` | |
| `CanBus` | the CAN driver of `canbus/` and the controller it polls | |
| `Accel` | the accelerometer's driver, one access per step, for several threads | |
| `Upgrade` | `eat_upgrade_app` and the core's copying | |
| `Firmware` | the two threads and restarts | extends `Accel`, `Upgrade` |
| `Console` | the event loop and the texts it runs | |
| `MCDelivery`, `MCSession`, `MCFraming`, `MCConsole` | symmetry sets and finite inputs for TLC | |
| `MsgQueueProofs` | theorems about `MsgQueue` | extends `MsgQueue` |
| `RefinementProofs` | `MsgQueue` implements `RetryBuffer` | extends `MsgQueueProofs` |
| `DeliveryProofs`, `SessionProofs` | theorems about `Delivery`, `Session`, which implement `RetryBuffer` too | instance `RefinementProofs` |
| `CanBusProofs`, `FirmwareProofs` | theorems about `CanBus`, `Firmware` | |
| `FramingProofs`, `ConsoleProofs` | theorems about `Framing`, `Console` | |

### MsgQueue

`head` is the list behind `LIST_HEAD(head)`, front first, each element an `MSG_NODE`
with the node's own address (`node`), the message pointer (`data`), whether there is
a handler (`pfn`) and `resend_times`. `list_length` is the static of that name.
`nodes` is what `malloc` has given out for nodes and nobody has freed. `Node` and `Data`,
the memory nodes may get and the pointers callers push, belong to one heap and may have
members in common. `iter` is the position
of the pointer `iter` of `msg_resend`, 0 outside it; `phase` says where the thread is.

`msg_resend` is several steps because its handler runs application code. The visits:
`visit_send` (the else branch), `visit_call` then `callback_return` (a spent node
with a handler), `visit_drop` (without), and `resend_end`. Dropping the node at
`iter` leaves `iter` where it is, because the sequence closes up: the next node is
the one `iter->next` named. A push inserts at the front, so a position held by the
walk moves by one. A pushed node is never visited by the walk in progress: it is
behind it.

Freeing a message may free a listed node: the block of a message that has been sent is
given out again, to a node perhaps, and the next transmission or the expiry of the message
frees it a second time. The node then is in the list but not in `nodes`. As long as nobody
writes to that memory the list works, since `eat_mem_free` leaves the bytes alone. Once
somebody is given it (`push_faults`, `list_overwritten`), or a store goes through the null
pointer of a failed `malloc`, the phase is `fault`: the program may run on for a while on
what is left, and the model says nothing of it until a reset. Two more things
that the C code leaves undefined are choices: after a drop the loop reads `iter->next` out of
the node it has freed, and a block that nobody has allocated is freed; either nothing comes of
it or the phase is `fault`.

`RetryBuffer` says the same without list, pointers and order: a set of at most
`Capacity` entries with their number of transmissions; a flush transmits or expires
every entry held when it began exactly once. The refinement mapping (`Buffer` in
`MsgQueue`) maps each listed node to its transmissions and the nodes from `iter` on
to `pending`.

### MsgMemory and Delivery

A block of the heap is a live message, a node of the list (in `nodes`) or free, and holds a
header (command and sequence number) or junk. Freeing keeps the bytes or loses them; any
later allocation, of a message or of a node, may reuse the block. `Delivery` gives the queue
such blocks as its data and as its nodes. `eat_msg_send_packed(c)`
stands for the three functions of `commands.c` that build a message and hand it to
`eat_msg_send_packed`; `eat_send_heartbeat` allocates, sends and frees;
`socket_sendDataWaitAck` pushes a message that was freed by sending it;
`passing` is a message that is sent and freed before the caller returns: if it was given
the memory of a listed node, that is the fault.
`eat_msg_send` is a transmission within `msg_resend`. `FreeIsClean` says which frees do no
harm, and `FreeIsSound` that only the others fault. `origin` is a history variable:
for each listed node what was pushed, and how.

### Socket and Session

`Socket` holds the two statics and the external state they are about: the bearer,
each socket, outstanding host name lookups, and per socket the login request and its
answer. `eat_gprs_bearer_open` says `CBM_OK` for a bearer that is up, whoever activated it,
or starts an activation and says `CBM_WOULDBLOCK`. The stack may give any answer its header
documents; the constants
`BearerResults`, `SetupResults`, `ConnectResults` and `AddrTypes` narrow them for
the runs that ask what the program does when the stack is kind. `Session` adds the
application (it queues, and opens a connection when told to, or at start-up;
`Patient` says whether it waits for the connection it has), the dispatch of the
login answer, and the queue. A piece that is read has at most one login answer, which is what
the one request asked for. `soc_read_event(s)` reads `socket_id` whatever `s` is.

### Framing

The server's messages are one stream of bytes. `SOC_READ(n)` takes the next `n` bytes
into a zeroed buffer of `BUF` bytes; `next_message` is one turn of the loop of
`client_proc`, `return` its end, `overrun` a read of the header beyond the buffer.
`leftLen` and `off` are computed modulo `SIZE_T`. `extra` is what the server's length
field counts beyond the payload: 0, as `alloc_msg` does for the program's own
messages, or 2, as the comment of the loop test says.

### CanBus

`tx` and `rx` are the MCP2515's buffers: for sending, the request bit, what is in the
registers (`what`, `rtr`) and the call that filled them last; for receiving, the frame
or none. `m` is what matters of the statics `m_n...`, which sending and receiving
share: the data, `m_nRtr`, and whether `m_nDlc` says more than eight bytes (`long`: a
received length field may, and so does the RTR bit that `mcp2515_write_canMsg` leaves in it).
A copy of that many bytes goes over what follows the caller's buffer; then `pc` is `"wild"`
until a `reset`, or nothing comes of it. A step of the driver is one access, so `transmit`
and `deliver`, the bus, come between any two: `getNextFreeTXBuf` polls one control
register per step (`found`, `busy`), and a read is `readStatus`, `read_canMsg`,
`clear_flag`. `mcp2515_setRegisterS` does not do what it says: its two
transfers are two instructions to the controller, and the second begins with the
register's address. Of the addresses the driver uses one is an instruction: 0x41, the
identifier of transmit buffer 1, which loads the bytes that follow into the data of buffer
0; whether the controller does so while buffer 0 is pending is left open. The
application may make any of the driver's calls in any order; in the repository only
`can_init_spi` has a caller so far.

### Accel, Upgrade and Firmware

`Accel` has a step for each register access of `mma8452_config`, with the accesses of
`mma8452_standby` and `mma8452_active` it makes: `at` says which access a thread is about to
make and `value` what it last read (`value`, or `cfg`). So the other thread comes between a
read and the write that depends on it. Of the registers there are the bits the driver can
move: ACTIVE and F_READ of `CTRL_REG1`, the range of `XYZ_DATA_CFG`. Any access may fail. The
driver's comment says registers can only be changed in standby; a write in active mode
may or may not take. `failed`, `stale` and `took` are history.

`Upgrade` has the steps of `eat_upgrade_app` that a failure or a restart can separate. Of an
image all that matters is whether it is whole. The core is external: told to, it copies
the storage half over the running half, starting over when power fails meanwhile, or gives up
(`copy_fails`), with the running half as it was or torn. `app_main` confirms
only if it is told that there was an update and that it succeeded (`main.c:444`). `blind`
is history: the file was not read as a whole.

`Firmware` composes them. `main` is where the main thread is, or `"core"` while the
application is not running; `timer` is how far `app_timer_thread` has come. `restart(power)`
is a reset (`my_fatal`, or the vendor's) or a loss of power, at any point.

### Console

A step is an event. `event_callback` comes first; if it or the line that follows fails,
`script_fails` resets. `uart_rx_proc(p)` overlays `rx_buf` with the piece `p`, puts a NUL on
its last byte or the one before, and runs what is in front of the first NUL. `echo_faults(p)`
is the echo of it going wrong: `exec_js` formats it into 100 bytes and gives that to
`eat_trace` as the format. `stack` counts
the values `exec_js` leaves behind, of which there is room for `Reserve`. `modem_rx_proc` is
`modem_text` and, for `+BTSPPDATA`, `spp_line` and `spp_data`: `Cuts` are the
positions its loop takes for ends of lines, `LineStart` where it believes the line began, and
`Wild` a line of negative length, which `strncpy` takes for a huge one. `Skipped` is how far
`ptr` goes, right only for a length written with one digit.

## 3. The runs

| run | question | bounds |
|---|---|---|
| `MsgQueue` | is the list counted right, bounded, fair, does it implement `RetryBuffer`, do walks end, do messages leave? | 4 nodes, 2 messages, one of them in the block of a node, `MAX_RETRY_TIME` 1, `MAX_MSG_LIST_LENGTH` 2 |
| `Delivery` | who owns the memory? | 3 blocks for messages and nodes, 2 sequence numbers, 1 retry, length 1 |
| `Session` | what can the connection do to the queue? | 2 sockets, 3 nodes, one of them also a message, 2 lookups, every answer of the stack, impatient application |
| `SessionDrains` | is a long enough queue sent, in the cases the code handles? | 1 socket, 2 nodes, 1 retry, connections made at once, bearer at once or in the background |
| `Framing` | which messages are taken out of a piece? | up to 3 messages, 3 payloads, 2 commands, buffer 25, both kinds of server |
| `CanBus` | what becomes of frames while the bus moves between accesses? | 2 transmit buffers, 3 turns of the polling loop, 3 calls, 3 frames |
| `DeliveryRetransmission` | does a retransmission send the message? (no) | 4 blocks, `MAX_RETRY_TIME` 3 |
| `DeliveryRetries` | are there at most three retransmissions? (no) | 2 blocks, `MAX_RETRY_TIME` 3 |
| `SessionConnectLater` | `Drains` for background connections (no) | connections in the background only |
| `Firmware` | what is the chip left with, what does the device boot? | 2 threads, ranges 2 and 8, 3 calls, 2 restarts, room for 1 buffer |
| `Console` | what of what arrives is run? | pieces of up to 3 characters, modem texts of up to 5, `RX_LEN` 4, `Reserve` 2, `MaxSpp` 2 |
| `ConsoleKeepsRunning` | do lines without errors leave the module running? (no) | as `Console` |

Why the bounds are enough. *MsgQueue*: three messages fill the list, the fourth node is what a
discarded push leaks, after which there is no memory; two transmissions tell counting from
comparing. The theorems of section 4 remove the bounds for all safety properties of all runs.
*Delivery*: a hazard needs a stale node and an owner of the block it points to, or a node in
that block; a third block lets the list hold a node in memory that was freed beside one that was
not, and be given to a message that passes. With two sequence numbers the counter wraps at once.
*Session*: two sockets make "the current" and "the other" differ and are soon used up; three
nodes let a push be discarded and leak, and one that is also a message lets a transmission free
a listed node. *SessionDrains*: one socket, since with it a leak is missed at once. `MaxLookups`
caps the host name questions outstanding. *Framing*: three messages have a first, a middle and a
last; payloads that look like a signature are the ones that could be mistaken for a message; 25
bytes hold all but the longest streams, so that the edge of the buffer is reached; `SIZE_T` is
2^16 so as to stay within TLC's integers, and is only assumed to exceed the buffer. *CanBus*:
two transmit buffers are a first and a last, three calls find both busy, three turns are a
first, a middle and the last one, which is lost; three frames fill both receive buffers and
refill one while the other is read. The code has three buffers and fifty turns. *Firmware*:
three calls are the opening of the bus, a configuration and either another one or an upgrade;
two restarts let an upgrade be interrupted and its copy be interrupted again, and a
configuration be cut short on two boots in a row. Ranges 2 and 8 differ in the bits that can
stray into `CTRL_REG1`. *Console*: a piece of three has every ending (CR, CR LF, neither) behind
some text, pieces of one byte reach in front of the buffer, and a text of five holds two lines,
an empty one or a line cut anywhere. `TwoDigits` is 3 so that both kinds of length occur,
`Reserve` 2 stands for 64.

What they show:

- As long as nobody writes over its nodes, the list survives being changed while it is
  walked. Its counter is right at every point where it can be read, its length exceeds the
  constant by one at most, memory is lost by a push to a full list and by nothing else, and
  an older message never stays behind a younger one that expires (`AgeOrder`).
- **`FirstSendIntact`**: although `eat_msg_send` frees memory the queue refers to, and frees it
  again and again, the first transmission of a message that `eat_msg_send_packed` queued is
  intact, up to the point where somebody writes over a listed node. What saves it is the order
  of the walk: the owner of a block is nearer the front than every stale node that points to it
  (the heart of the proof, `Ownership`), so it is sent before the stale free happens. Appending
  at the back in place of the front breaks it. A message pushed by a handler, during a walk, has
  no such protection, and the property excludes it.
- **`ListKept`**: that point is reached (with this as an invariant of `MCDelivery.cfg` TLC finds
  it). A message is sent and its block freed, a node
  is allocated in the block, the next transmission of the message frees the node while it is
  in the list, and the next message is allocated over it. It takes no failure of any
  call. `ListFreedByStaleOnly` says what must have come before: a listed node's memory is
  freed through the pointer of a message that was transmitted already or that a handler
  queued; not by a first transmission, nor by the expiry or acknowledgement of a message that
  is still to be sent.
- Retransmissions are not safe either: they send what the block holds by then
  (`DeliveryRetransmission`).
- The limit is one off (`DeliveryRetries`): four transmissions get through the test of line 84
  with `MAX_RETRY_TIME` 3, where the comment in `msg_queue.c:31` says three retransmissions. For
  a message of `eat_msg_send_packed` the first of the four is no retransmission; a message of
  `socket_sendDataWaitAck` has been sent before it is queued, and is retransmitted four times.
  `RetryBuffer` has the number the code has, as the constant `Attempts`.
- Whatever the stack answers, the walk happens on a socket whose connection was made, and a
  login is sent over such a connection only. What the connection may cost a message is part of
  `SessionRefines` (section 4): attempts and resets only.
- Queued messages are sent in the end where connections are made at once (`Drains`), on a
  bearer that comes up at once or in the background. In the second case nobody goes on to
  connect, and while `socket_state` is `SOC_CONNECTING` a full queue does not ask for it: what
  helps is a report that forces a connection. If no report does, TLC finds that the queue is
  never sent. Connections made in the background break `Drains` (`SessionConnectLater`). So do
  refused ones, whose sockets stay open until the stack has none left (with
  `ConnectResults = {"now", "refused"}` in `SessionDrains.cfg` TLC finds it), and logins that
  find no memory (`{"now", "no login"}`), for an application that waits for the connection it
  has. They are the cases the commented-out `fsm_run` calls of `socket.c` were for.
- `client_proc` never takes anything but a message for one in a piece that starts with
  one, even when `leftLen` wraps. All whole messages of such a piece are handled if the server
  counts the length as `alloc_msg` does; if it counts as the comment of line 112 says, only
  the first one is sure to be (`WholeHandled`). What stops it is the signature: the zeros behind the
  piece do not have it. It needs room for one more header behind the piece
  (`RoomSuffices`), which a piece of full buffer length does not have.
- The CAN driver keeps its buffers apart: a frame has one fate, a pending buffer is left
  alone, no frame is dropped unread, and what `can_checkReceive` announces is new. What
  goes out is another matter (`SentAsGiven`, which TLC refutes as an invariant of `CanBus.cfg`):
  length and request bit arrive, data and identifier do not. `mcp2515_setRegisterS` sends the
  write instruction in a transfer of its own (`mcp_can_spi_wrapper.c:139`) and `spi.c` raises chip
  select at the end of each, while `mcp_can.c:373` and `:379` say that data and identifier are
  written. The same goes for masks and filters.
- However two configurations of the accelerometer collide, the chip measures in the end, and
  one that nobody disturbed gets its range (`CollisionsAwake`, `ConfigTakes`). A failed read
  can leave F_READ set for good, and is the only way (`FastReadOnlyByStale`), for ranges of 2, 4
  and 8: the script's binding passes on any byte (`internal.c:1676`), and others set bits of
  their own. A reset
  between standby and active leaves the chip asleep until the timer thread of the next boot
  wakes it (`MeasuresAgain`).
- No sequence of failures and restarts makes the device boot half an application, unless the
  file was not read as a whole, which nobody checks, or the core gave up its copy
  (`BootsWhole`). An upgrade that was begun is completed and confirmed, or the core
  gave it up; then nothing is confirmed and the program does not look again (`Confirmed`).
- A line typed on the serial line runs as typed when it arrives in one read and ends in CR or
  CR LF. A single byte that is not CR misses the terminator's place and runs what an earlier
  read left behind. The modem's lines are cut soundly as long as every CR has its LF. What is
  typed by Bluetooth is emptied before it is run.
- **`ConsoleKeepsRunning`**: every line leaves a value on the engine's stack; after as many as
  there is room for, 64 in Duktape's configuration, the next script, typed or not, resets the
  module. The `event_callback` that precedes each handler pops its value; `exec_js` does not.

### Fairness

`FairSpec` of `MsgQueue`: a call that has begun runs on (`resend_step`): the processor
does not stop between two statements, and a handler returns. Nothing obliges
anybody to call; `FlushedOut` has that as its premise.

`FairSpec` of `Session`: the thread runs on (weak fairness; a fault ends in the reset
the vendor's watchdog causes). The application keeps making reports that force a connection
(`eat_msg_send_packed` has an argument for that) and opens when told, neither of the two only
while the bearer happens to be down (strong: its turn comes between callbacks). It is
patient: it opens no second connection beside the one it has. Activations and releases end,
notifications arrive, a connection that is being made fails when the bearer has gone,
and the server is not always cut off before its answer (strong, since the network may fail
any number of times in between). The bearer comes up by the program's own calls and by nothing
else. Nothing forces a connection to fail or to be
closed by the peer, and a reset may intervene at any time. The counterexample of
`SessionConnectLater` is a behaviour of the same specification.

`FairSpec` of `Firmware`: the core copies and starts what it was told to, the thread that is in
the driver goes on to its next access (each is a vendor call that returns), `app_main` gets
through its boot and the timer thread through its start. Scripts, failures and restarts are
never obliged to happen; restarts are bounded by `MaxRestarts`, without which a module reset
often enough would never measure. `MeasuresAgain` excludes failed accesses.

## 4. Proofs

Every invariant and every action property of the passing runs, and the refinement, is proved by
TLAPS for all values of the constants that their named assumptions allow: any heap, whether or
not messages and nodes share it, any sockets, limits in `Nat`, one to three transmit buffers and
any number of turns, calls and frames, any ranges among 2, 4 and 8, any number of restarts,
streams of any messages and buffers of any size, pieces and texts of any length. Two assumptions
of `Framing` say what a server sends: a length field holds 16 bits, and no command has the
number of the signature's letter (`protocol.h:33-77` has none). Without the second, the loop
could take a command and a length for a signature.

What the theorems about the queue, the delivery and the session do not say: anything of the
phase `fault` before the reset that ends it. The list may be written over after a stale
free (section 3, `ListKept`), and then the code's list is not the model's any more. Up to
that point they hold with listed nodes whose memory is free.

| module | theorem: property |
|---|---|
| `MsgQueueProofs` | `TypeCorrect`: `TypeOK`; `CountTheorem`: `CountMatches`; `BoundTheorem`: `QueueBound`; `AgeTheorem`: `AgeOrder`; `LeakTheorem`: `LeaksOnlyWhenFull` |
| `RefinementProofs` | `RefinementTheorem`: `Refines` |
| `FramingProofs` | `TypeCorrect`: `TypeOK`; `OnlyTheorem`: `OnlyMessages`; `WholeTheorem`: `WholeHandled`; `RoomTheorem`: `RoomSuffices` |
| `ConsoleProofs` | `TypeCorrect`: `TypeOK`; `LineTheorem`: `WholeLineRuns`; `StaleTheorem`: `StaleOnlyAfterOneByte`; `ReadyTheorem`: `ReadyFound`; `WildTheorem`: `WildNeedsBareCR` |
| `DeliveryProofs` | `TypeCorrect`: `TypeOK`; `FirstSendTheorem`: `FirstSendIntact`; `ListFreeTheorem`: `ListFreedByStaleOnly`; `OrphanTheorem`: `OrphansOnlyWhenFull`; `DeliveryRefines`: the queue in it implements `RetryBuffer` |
| `SessionProofs` | `TypeCorrect`: `TypeOK`; `WalkTheorem`: `WalkOnLoggedInSocket`; `LoginTheorem`: `LoginOverConnection`; `SessionRefines`: the queue in it implements `RetryBuffer` |
| `CanBusProofs` | `TypeCorrect`: `TypeOK`; `AnnouncedTheorem`: `AnnouncedIsFresh`; `PendingTheorem`: `PendingUntouched`; `LostTheorem`: `LostOnlyWhenBusy`; `NoDropTheorem`: `NoFrameDropped`; `FateTheorem`: `OneFate` |
| `FirmwareProofs` | `TypeCorrect`: `TypeOK`; `ConfigTheorem`: `ConfigTakes`; `AwakeTheorem`: `CollisionsAwake`; `StaleTheorem`: `FastReadOnlyByStale`; `BootTheorem`: `BootsWhole` |

Each module but `RefinementProofs` has a theorem `Invariance`, `Spec => []Inv`, with its own
inductive invariant `Inv` (`IInv` in `Framing` and `Console`), one lemma per action or kind of
action, a step that collects them, and the temporal step. The action properties need one more
lemma about a step from a state with `Inv`.

**MsgQueue.** `Inv` is `ListSound` (types, counter, bound, nodes: what a step does to the list)
together with `IterSound`, `TransmissionsBounded` (how far `resend_times` counts) and
`AgeOrder`. That a listed node is in `nodes` is not part of it, because a free of data may end
that. None of the last three is inductive alone. That `iter` stays inside the list needs the
list to shrink only where the walk stands. A node on the point of being transmitted is within
its bound because the visit compares first, but a node being called is one beyond, and that is
tolerable only because the walk is still at it, which is `IterSound`. `AgeOrder` says "one ahead
behind `iter`" during a walk: a transmission at `iter` keeps it because the node moves from the
side that may not be ahead to the side that may, and at the end of the walk `iter` is past the
end, so that everything is on that side, and the slack disappears again. Lemmas on sequences
(`ConsFacts`, `RemoveAtFacts`) carry the two changes of the list, a push and a removal.

**Refinement.** The mapping is `Sent` (each listed node's transmissions) and `ToVisit` (the
nodes from `iter` on). `RInv` adds `CalledSpent` to `Inv`: a node whose handler runs is
spent, without which the drop after the handler would be no expiry of `RetryBuffer`. That
nodes are listed once makes the `CHOOSE` in `Sent` find the node's own entry. One lemma per
action (`...Maps`) says which step of the abstract buffer it is. `SessionRefines` and
`DeliveryRefines` carry this through the compositions: each of their steps is one of the
queue's, which `RefinementProofs` maps, or leaves the list alone, and then the buffer
stutters. In `Delivery` a fault of the heap inside a sender is no step of `MsgQueue`, but it moves
neither the list nor the walk, so it is a stutter of `RetryBuffer` all the same; and so is the
moment in which the list's memory is written over, after which nothing moves before the reset.

**Delivery.** `Ownership` is the strengthening of `FirstSendIntact`: an untransmitted message
that was queued outside a walk has its block intact, no node in front of it points to the same
block, and a walk has not passed it. `Apart` says that no node is in the memory of a live
message. A new owner is pushed in front of everything, into a block that was free and is
therefore no other owner's, and so is its node; a node is transmitted, and its block freed,
where the walk stands, and every owner of that block is in front of that, hence already passed,
hence none. So a live block is freed by its owner or by nobody, and what else a free of data can
hit is a node or nothing (`ListFreedByStaleOnly`). The queue's part comes from `MsgQueueProofs`
by instance, since each step of `Delivery` is a step of the queue or leaves it alone.

**Session.** Likewise over `MsgQueueProofs`. `SInv` is the types, `LoginOverConnection` and
`WalkOnLoggedInSocket`: a walk is started by a login answer, which presupposes the
connection, and no callback of the connection runs before it is over.

**CanBus.** `Places` says what the buffer at hand holds at each location, `Fresh` that a
received frame is in one buffer and there only until it is given, `Patience` that a
buffer free when the polling began is still ahead of the polling. `Fates` strengthens
`OneFate`: the call being made is `Open`, every other one `Settled` in exactly one way;
cardinalities are taken at the end only.

**Firmware.** `Undisturbed(t)` follows a configuration nobody disturbs through its accesses:
in standby before the range is written, range kept, what was read is still there when it is
written back. `Clean` says that F_READ is in no thread's copy either. `Chain` follows an image
from the buffer to the half that runs. `CollisionsAwake` turns out to be inductive
together with the types, because the write of `mma8452_active` is the last of each thread,
and the ACTIVE bit can be written in either mode.

**Framing.** What one turn of the loop does depends on where `msg` is among the messages of the
stream, which `FlattenSeq` puts together by recursion. `Induction`, for sets of numbers, is
derived from the well-foundedness of `<` on `Nat`, and gives that the recursive function exists
(`BuildExists`), that each message lies whole between its `Start` and its `End`, and that one
ends where the next starts (`Layout`). With that, `Position` says that `msg` is in the piece or
at most two bytes behind it, which is exactly when `leftLen` has wrapped. `Reached` says how far
the loop has come in a piece that starts with a message. If the server counts as `alloc_msg`
does, `msg` is at the start of a message and all earlier ones were handled. If it counts the
sequence number in, then after the first message `msg` is two bytes into the next, at its
command, which is not the signature's letter. Behind the piece there are zeros, so that no
signature is found there either. `Room` needs no more than `Position`: the test is true two
bytes behind the piece at the farthest. A piece that does not start with a message is in
`Position`, `Room` and the first lines of `Ordered` as any other: the loop stays in it even on
junk.

**Console.** The five properties are inductive together, since each speaks of the last event
only; what had to be proved is what the searches find. `LeastElement` and
`GreatestElement`, again from well-foundedness, say that the `Min` and `Max` in the model
exist and are where the code's loops stop; `UpToFirst` and `RunsPrefix` what is in front of the
first NUL of `rx_buf` after a read, whatever was behind it; `FindsReady` that whole lines are cut at
their CRs only, so that each line starts right behind the LF of the last one; `WildLacksLF` that
a line has a negative length only if a CR has something other than its LF behind it.

Only model-checked: the liveness properties (`WalkEnds`, `FlushedOut`, `Drains`,
`MeasuresAgain`, `Confirmed`), which are out of the prover's reach as ENABLED and fairness are;
and the runs that expect a violation, where a counterexample is the point. Induction with a
predicate as parameter cannot be used by the provers at hand, which is why it appears as a lemma
about sets.

## 5. What is not modelled

Most of the lines under `src/` are Duktape (95,000 of 117,000), the vendor's headers and
older copies of the drivers, which are not the program's own logic; `internal.c` is 2,300
lines of wrappers that convert arguments. So the models stand for a small share of the lines,
and for nearly all of the state the program itself keeps. Left out:

- Contents of messages beyond command and sequence number; `alloc_rspMsg` (no caller);
  `userdata`, which is freed with the node; `msg_startResend` and `msg_stopResend` (no caller,
  and `timer.c` has no case for their timer). In `receive.c` every handler but the login's is
  commented out.
- The priority between JavaScript's own socket callback (`internal.c`) and the protocol's:
  nothing calls the protocol from `main.c` yet.
- The timer thread's loop: nothing starts its timers. Reading the accelerometer, which changes
  no register, and `crash.c`, which is floating point. The driver of the MMA8652 (no caller).
- CAN: bit timing, and the arithmetic of identifiers. The bits of `spi.c`, whose only trait the
  CAN driver depends on is in `CanBus`.
- The console: that `sscanf` writes an `int` to `cid`, a byte, and to `len`; lines of the modem
  or of Bluetooth that are longer than the buffers they are copied to; where the echo of a line
  overflows its buffer or takes the text for a format, only the reset is modelled; whatever a
  script does other than end or fail.
- `require`: as `main.c` wires it the resolver returns the parent's id, which is empty for a
  script, and the loader then fails for want of a file name, so no module is ever cached.
- SMS: `duk_sms_init` registers callbacks and keeps nothing.

Still open: an abstract mailbox that `CanBus` could be shown to implement, one frame in and the
same frame once out; a composition of `Session` with `Delivery` (the connection with the memory
of its messages) is a product of what each of them already checks, and was left for want of a
property that needs both; a model of the JavaScript bindings of sockets and files would follow
`Upgrade`.
