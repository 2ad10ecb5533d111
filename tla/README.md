# A verification of the CFE boot loader of the SpeedTouch 706

The repository collects what is needed to run other software on a SpeedTouch
706 router: notes on flashing it by JTAG, and the Broadcom 63xx CFE boot loader
(`src/cfe_bcm63xx`) with its build tools. The program that is verified here is
the boot loader as `build.sh` builds it: chip 6348, a ROM part that unpacks a
RAM part, the RAM part with TCP, the web server and one CFI flash, without PCI,
USB and zlib (`ram_cfe.mk`).

The boot loader is one thread of control. There are no interrupts in use: every
wait calls `POLL()`, which runs a list of background functions (timer, Ethernet
receive, TCP timers, device polling, web server) to completion, one after the
other, and those may themselves wait and poll. So what interleaves is the
*calls*, not the instructions: two hosts that talk to each other, the network
between them, the passing of time, the foreground and the background. Each
action of the models is one such call, from its entry to its return, with all
that it calls, or the part of it between two polls. Two things are finer: the
Ethernet controller works on the driver's descriptors while the driver does, so
there each store is an action; and the power may fail between two operations on
flash, so there each sector erased or written is one.

All paths below are under `src/cfe_bcm63xx/cfe/cfe/` unless they start
otherwise.

## 1. Inventory

### Modelled

**TCP modulo buffer** (`net/net_tcpbuf.c`). Two per connection. State: the
memory, the add pointer, the remove pointer, the length. Operations: init,
adjust (drop from the front), copy in, copy out, copy out without removing
(`tmb_copyout2`). Hard: the pointers are left *at* the end of the memory by
some paths and wrapped by others; a copy in two pieces; partial acceptance.
Correct: it is a bounded queue of bytes.

**TCP connections** (`net/net_tcp.c`). State of one control block: the state of
the diagram, the numbers `sendunack`, `sendnext`, `rcvnext`, the peer's window,
the two buffers, three timers, the flags that ask for output or an ack.
Operations: connect, listen, send, receive, close; the reaction to a segment;
the timers. Hard: loss, repetition and overtaking; numbers that wrap; windows
that close; the pool of packet buffers that runs out in the middle of a call;
timers that race answers; both ends closing. Correct: data is delivered intact
and in the end; nothing acknowledged is missing; control blocks are given back.

**TCP sockets and ports** (`net/net_tcp.c`). State: the list of control blocks,
the table from socket numbers to blocks, the counter of blocks, the port and
peer of each block. Operations: socket, connect, bind, listen, close; reset,
segment and the two timers that free or close a block; the end of the TCP.
Hard: a closed socket's block outlives its number, which may be given out
again; ports change by four different paths. Correct: table, list, counter and
blocks agree; a listener is unique; only the owner takes a number away.

**ARP table** (`net/net_arp.c`) **and buffer pool** (`net/net_ether.c`). State:
the table's entries with the packets that wait in them, the free list. Operations:
send to a known, unknown or asked-for hop; response; add, look up, delete by
hand; the tick of every second; the end of the network. Hard: entries are
taken over for other hops while packets wait in them; eight buffers are shared
by everything. Correct: no buffer is lost or freed twice, packets go where they
were to go, the pool recovers.

**TFTP client** (`net/net_tftp.c`). State: the block in hand, its number, the
offset, the two flags. Operations: open, read, seek, write, close, each of
which waits for answers and repeats its question. Hard: answers that are late,
repeated or from another session of the server; block numbers that wrap; a
pool that is empty in the middle; a close that still has to send. Correct: the
bytes read are the file's, the bytes stored are those written, every call ends.

**DNS resolver** (`net/net_dns.c`) **and timer** (`main/cfe_timer.c`). State:
the call with its identifier, its timer and its tries, the queue of the UDP
port; `cfe_ticks`, the remainder and the last count. Operations: look up, ask,
receive, give up; the timer task, timers set and expired. Hard: answers that
are late, repeated or to an earlier question; every branch of the receive loop
has a buffer in hand; the counter of clocks wraps and is read as a signed
number. Correct: what is returned is the address of the host asked for, in
bounded time, with all buffers given back; no clock is lost or counted twice.

**Heap** (`lib/lib_malloc.c`). State: the list of nodes in the pool. Operations:
allocate, free with compaction. Hard: alignment, splitting, the word in front
of an area, merging on both sides. Correct: blocks tile the pool, areas in use
are inside theirs and disjoint, what is freed can be had again in one piece.

**Web server** (`bcm63xx_httpd.c`) **with the command loop** (`bcm63xx_main.c`,
`bcm63xx_cmd.c`, `console_readline`). State: four sockets, the one that
listens, the lock on the staging buffer and how much is in it, three flags
between server and foreground. Hard: the server is a background task that polls
from inside and goes on in the middle of a socket; an upload ends at any point;
the foreground works with the same buffer and is told by a flag that it is to
stop. Correct: one upload at a time and none while an image waits or a command
works; one listener; what is accepted is flashed.

**Image flashing** (`bcm63xx_util.c`, `dev_bcm63xx_flash.c`, boot choice in
`bcm63xx_cmd.c`). State: the sectors, the boot line in NVRAM and in memory, the
step of `flashImage`. Hard: power losses and failed writes between any two
sector operations; the choice of the partition and the choice of the image to
boot look at different checksums. Correct: a board that had a whole image has
one, and a finished update is what boots.

**Ethernet driver** (`dev_bcm6348_eth.c`). State: two rings of descriptors, each
shared with the DMA controller, and whether each channel is enabled. Hard: a
descriptor changes hands by one bit of one store, and a channel that found no
descriptor stops. Correct: frames go through whole, once and in order, and
neither side waits for ever.

### Modelled in part

| Part | What is modelled, and where | What is not |
|---|---|---|
| Buffer pool and Ethernet portals (`net_ether.c`) | the pool with every user of it (`Arp`, `Dns`), a receive loop that needs a buffer | the table of portals, filled at start-up and only looked up later |
| UDP (`net_udp.c`) | open, close, the queue and its limit (`Dns`, `Tftp`, `Arp`), rebinding to the port that answers (`Tftp`) | the search for a free port: only one is ever open at a time |
| IP (`net_ip.c`) | a packet gets a buffer and waits for its next hop (`Arp`) | the choice of the next hop, header checks and checksums, pure functions of a packet |
| Background list (`cfe_background.c`) | its pollers, in order where it matters (`Dns`), the guard against re-entry (`Httpd`) | adding to and removing from the list, which happens at start-up only |
| Flash chip (`cfiflash.c`) | erase and write of a sector, and their failure (`FlashImage`) | command sequences and the geometry of the chip |

### Not modelled

`net_init` and its error paths (straight-line code; what it does wrong when an
allocation fails is in section 7). The device table and file handles
(`cfe_attach.c`, `cfe_devfuncs.c`, `cfe_iocb_dispatch.c`): a table filled at
start-up, with one device and one user of each kind. Command parsing, editing
and history of the console; ELF and raw loaders; the environment and the
prompts for board parameters: one command at a time, no interaction but the
console abort, which `Httpd` has. Queues and library routines (their state is
their owner's, or they have none), ICMP echo (no state), board bring-up and the
serial port (register programming), the LZMA decoder (third party), everything
the image does not build (PCI, USB, x86 emulation, DHCP, the original commands
and drivers), host tools and the toolchain. These last two are nine tenths of
the lines in the tree: the headers of a C++ library, the x86 emulator, drivers
for other boards. `PROJECT.json` lists every part with its status, and under
"hazards" the line at which each difficulty bites.

### How the parts meet

    command loop ◄── flags, staging buffer ──► web server ──► tcp_* calls
         │                                                       │
         ▼                                                       ▼
    flashImage ──► sectors              TCP sockets/connections ──► modulo buffers

    commands ──► file systems ──► TFTP client, DNS ──► UDP ports
                                     │                │
                                     ▼                ▼
                       IP ──► ARP table ──► buffer pool ──► driver

Received frames go the other way by callbacks, from `eth_poll` in the background
loop. A layer that wants to keep a frame's buffer returns `ETH_KEEP`. Time
reaches each layer by polling: `net_poll` for ARP (every second), `_tcp_poll`
for TCP, and the timeouts of the waiting calls themselves; `cfe_timer_task`,
first on the background list, makes it of the processor's counter.

## 2. Modules

| Module | Models | Uses |
|---|---|---|
| `ByteQueue` | what a modulo buffer promises (abstract) | |
| `TcpBuf` | `net_tcpbuf.c` | `ByteQueue` by refinement |
| `TcpStates` | the states and groups of states of a control block | |
| `TcpTcb` | a control block and the functions that work on one, the user's calls included | `TcpStates` |
| `TcpInput` | reaction to segments and timers | `TcpTcb` |
| `ByteStream` | what a connection promises to its applications, in one direction (abstract) | |
| `TcpConn` | two hosts and the network | `TcpInput`; `ByteStream` by refinement, twice |
| `TcpTypes` | what the fields of a control block and of a segment can hold | `TcpInput` |
| `TcpConnInv` | the inductive invariant of `TcpConn` and the constants it is proved for | `TcpConn`, `TcpTypes` |
| `TcpInputProofs` | lemmas about the operators of `TcpTcb` and `TcpInput` | |
| `TcpConnProofs` | theorems about `TcpConn` | |
| `TcpSockets` | tables of one TCP | `TcpStates` |
| `TcpTablesProofs` | theorems about `TcpBuf` and `TcpSockets` | |
| `Arp` | ARP table and buffer pool | |
| `ArpProofs` | theorems about `Arp` | |
| `Tftp` | TFTP client, its UDP port, network and server | |
| `TftpProofs` | theorems about `Tftp` | |
| `Clock` | `cfe_timer.c` | |
| `Dns` | `net_dns.c` on a UDP port and the buffer pool | `Clock` |
| `Allocator` | what callers of `KMALLOC` and `KFREE` rely on (abstract) | |
| `Heap` | `lib_malloc.c` | `Allocator` by refinement |
| `Httpd` | web server and command loop | |
| `ServicesProofs` | theorems about `Httpd`, `Clock` and `Dns` | |
| `FlashImage` | `flashImage`, sectors, the choice of the image to boot | |
| `FlashImageProofs` | theorems about `FlashImage` | |
| `FrameQueue` | a queue of frames (abstract) | |
| `EthRing` | driver and DMA controller | `FrameQueue` by refinement, twice |
| `MemoryProofs` | theorems about `EthRing` and `Heap` | |
| `MC*` | constants for TLC | |

**`TcpBuf`.** `mem`, `addptr`, `remptr`, `len` are the four fields of
`tcpmodbuf_t`; each function is one action; `ret` is what the caller gets.
`Adjust` has as guard the range test that its only caller makes.

**`TcpTcb` and `TcpInput`.** A C function that changes a control block and may
transmit is an operator on a record with the block, the segments sent so far in
this call and whether the pool has a buffer. So `_tcp_close`, which flushes,
gives up the number, changes the state and sends a FIN, is the composition of
the same four steps in the same order. The buffers are the byte queues that
`TcpBuf` is proved to implement. Kept: every test of numbers, states and flags,
and the order of all effects. Left out: checksum and addresses, the retry
counter and the counter of repeated acks (neither decides anything but a
length of time), the persist timer (never set), and the option to send without
delay (no caller sets it). A timer is set or not: how long it runs is covered
by letting it expire at any moment.

**`TcpConn`.** The network keeps segments in order in each direction and may
lose, repeat or overtake; each such fault counts against `MaxFaults`. Bytes are
numbered as they are sent, so what is read can be compared with what was sent.
A timer of a second or more that expires while a segment is still on its way is
a fault of the kind "early"; the 200 ms timer of delayed acks is always free to
expire. Restrictions: connect and listen start from a fresh socket (`TcpSockets`
has them from any state), and a simultaneous open, which the module can
express, is in no passing run (section 7).

**`TcpSockets`.** Abstracts from numbers: any arrow of the state diagram may be
taken by a segment. `TcpConn` is checked to follow the same diagram
(`FollowsDiagram`), so that the two fit together. A block is named by its
address, and a freed address may be allocated again. The search for a local
port, with its wrap, is modelled; that the search ends (a free port exists
among those that are not well known) is a guard of `Socket`.

**`Arp`.** The buffers in the pool are alike, so the one taken is fixed by
`CHOOSE`. `hop[b]`, `wire` and `told` are history: where a waiting packet is to
go, what the last step gave to the driver, and what was last learned of a hop.
`_arp_add` looks its entry up by the first four bytes of the *hardware* address,
as the code does: `AsIp` says what those bytes read as. The flag `ae_permanent`
is left out, because all it decides is whether a timer is set that
`arp_find_entry` has just set.

**`Tftp`.** The network is a set: what was once sent may be delivered any
number of times, at any time, or never. The server is external and follows the
protocol; a repeated request opens another session. A call of the client that
waits is split where the code waits and nowhere else. `udp_alloc` may fail at
each of its calls.

**`Clock`.** `clocks` counts without bound; `Getticks` is what the processor's
register shows of it, a word that wraps read as a signed number. `Elapse` lets
at most `MaxGap` clocks pass between polls. Division and remainder round as in C.

**`Dns`.** A call is at one of four places: it asks, tests its timer, polls or
looks into its queue, which is where the code can be when another part runs.
`Background` is one pass of the list: the time first, then a frame, if there is
a buffer to receive it into. `Ask` may leave its packet waiting in the ARP
table. `Taken` and `Returned` stand for every other user of the pool. What is
inside an answer is abstracted to the way the code leaves the loop with it. A
poll inside a poll takes no time of its own: the send loop of the web server
(`bcm63xx_httpd.c` 969) can hold up a resolver, like any other wait of the
foreground, for as long as its peer likes.

**`Heap`.** `node` maps the addresses of the list's nodes to their fields, and
addresses are numbers, so splitting, rounding and merging are the arithmetic of
the code. `held` is what callers were given. Freeing an area twice is outside
the model, since no caller does it; `Compact` merges with both neighbours,
which is what `kmemcompact` comes to when no two neighbours were free before
(`WellFormed`).

**`Httpd`.** `web` is where the background task is, `fg` where the foreground
is; only one of them moves at a time, and TCP's view of a socket (`tcp`)
changes only while something polls. An upload is the number of pieces that
came. The foreground's commands are those that work with the staging buffer,
those that ask questions and those that do neither.

**`FlashImage`.** A sector is erased, or holds the part of an image; a checksum
holds when the parts it covers belong together. `job` is the step `flashImage`
has reached, one step per erase and per write, so that `PowerLoss` falls
between any two of them. `sound` is history: it turns false when an update is
begun that endangers the image that boots, which the code lets happen in the
two ways of section 7.

**`EthRing`.** One action per store to a descriptor in the order of the code,
the controller between any two of them. The controller is external and does
what the driver relies on; a frame that is stored into a descriptor whose
length was not reset is cut.

## 3. Runs

Each configuration is small enough to be explored completely; the bounds were
chosen so that every branch of the code is taken (every action and disjunct
fires in some passing run).

| Run | Question | Bounds, and why they are enough |
|---|---|---|
| `tcpbuf` | Does the modulo buffer behave as a bounded queue? | Memory of 3 bytes, chunks of up to 4: each pointer position, each split, each overfull call. |
| `tcp_data` | Is data delivered intact, both ways? | 3 bytes one way and 1 back, buffers, MTU and congestion window of 2, so segments are cut, windows close and data waits; numbers modulo 16 from 14, so they wrap; 2 faults of any kind; delayed acks and retransmission. |
| `tcp_close` | Is it a stream to either application still, when both may close at any moment, with every timer? | 2 bytes, both ends may close at any time, 1 fault of any kind, all four timers. |
| `tcp_live` | Does everything arrive, is no ack forgotten, does closing end? | 2 bytes, up to 2 losses, fairness below. |
| `tcp_sockets` | Do table, list, counter and ports agree? | 2 sockets, at most 3 blocks, 4 addresses, 5 ports of which 1 is well known and one peer: blocks outlive sockets, limits are hit, ports wrap. Symmetric in the addresses. |
| `arp` | Is a buffer ever lost, doubled or stuck, a packet misdirected? | 2 entries for 3 hops, 3 buffers, 2 hardware addresses, one of which reads as an address entered by hand; all limits and timers at 1 or 2. |
| `tftp` | Is the file read or written whole, and does each call return? | Blocks of 2 bytes, 4 block numbers, 2 sessions, 3 tries, a queue of 2; files of 0, 3, 4 and 6 bytes (none, short last block, empty last block, numbers that run out); up to 5 bytes written by calls of 1 and 3. |
| `heap` | Do blocks tile the pool, and are areas disjoint? | A pool of 44 bytes with nodes of 4, sizes of 0, 3 and 8, alignments of 0 and 8: up to four areas, every split, every merge, a block taken whole, a full pool (30 000 states). |
| `flash` | Does the board boot after any cut-off update? | Six sectors, two in each half for images, images of two sectors, one that fits a half only without its tag, one for the whole flash and one too big; three updates, which is enough for two partitions to change places twice (1.6 million states; four updates, tried once, show nothing new). |
| `httpd` | One upload, one listener, accepted images flashed? | Two sockets of the four, so that one uploads and one listens, uploads of nothing and of two pieces, every command (300 000 states). |
| `eth` | Do frames survive, does anything wait for ever? | Three receive and two transmit descriptors, two frames: each ring wraps, fills and empties, and the controller is anywhere while the driver stores (53 000 states). |
| `dns` | Is the right answer returned, in time, and are buffers given back? | A counter of four bits that starts in the middle of its turn and wraps in the run, two clocks a tick, up to two clocks between polls, two hosts, two tries of one tick, two ports and four identifiers (so numbers return), two buffers, 19 clocks (3.6 million states). |

What the properties say, and why a test would hardly reach them:

* `StreamIntact`: received data is the front of what was sent. Violating it
  takes a loss, an ack in the wrong place and a rewind, in that order.
* `OffersStreams` (in `tcp_close`): the same as a refinement. Each call that an
  application makes is a step of an abstract stream, and everything that
  `net_tcp.c` and the network do in between is invisible.
* `AckedIsReceived`: a byte leaves the transmit buffer only when the peer has it.
* `InStep`: the ends agree on the numbering, modulo the circle.
* `UnackedIsTimed`: whatever is outstanding has a running timer, on all paths
  that clear or set it.
* `AckIsOwed`: whatever is received and not acknowledged is remembered as owed
  (in `tcp_live`, where the pool does not run out; with an empty pool the code
  forgets it, and the sender's timer has to help).
* `FollowsDiagram`: no segment, whatever its numbers, moves a block off the
  diagram.
* `EverythingArrives`, `CloseCompletes`: liveness. The first for a connection
  that stays established, the second for a run without faults.
* `ListAgrees`, `TableAgrees`, `ClosingIsOrphaned`, `OneListener`,
  `HandlesStay`: the tables of the TCP.
* `OneHome`, `WaitsForItsHop`, `OneEntryPerHop`, `SentWhereTold`,
  `PoolRefills`: buffers and addresses in the ARP table.
* `ReadsTheFile`, `EofUnlessStarved`, `WritesTheFile`, `FlushedIsStored`,
  `CallsReturn`: the TFTP client.
* `TimeIsKept`: the ticks and the remainder together are the clocks of the
  counter at the last poll. Where the counter passes from its largest to its
  smallest signed value, the code takes the difference the wrong way round and
  time goes back; the property says by how much at most.
* `AnswersTheQuestion`: the address that is returned belongs to the host asked
  for, unless two questions for different hosts had the same port number and
  the same identifier (the tick), when nothing in an answer tells them apart.
* `BuffersAccounted`, `LookupInTime`: no way out of the receive loop keeps a
  buffer; no stream of wrong answers keeps a lookup from ending.
* `WellFormed`, `IsAnAllocator`: the list of blocks, and what callers rely on.
* `AlwaysBoots`, `TakesEffect`: what a board boots after power losses, failed
  writes and updates that succeed.
* `OneUpload`, `OneListens`, `ReadyIsFlashed`: the web server and the command
  loop. The last needs an interleaving of both over several polls to fail.
* `RingsAreQueues`, `KeepsReceiving`, `WritesReturn`: the driver's rings.

For each property of a passing run, `PROJECT.json` names a plausible slip in
the code (an operator with an underscore in its name, beside the definition it
would replace) with which the run fails.

Deadlock is checked for `tcpbuf`, `tcp_sockets` and `heap`. The other systems
may really stop: two freed control blocks, a file that has been closed, a board
that has been reset or has lost its boot loader, a driver that was closed, a
question written through a null pointer; `dns` also ends at its bound on time;
and in `arp` the deadlock check would be void, since time always passes.

## 4. Fairness

* Delivery (`WF` on `Deliver`): the background loop calls `eth_poll` as long as
  the boot loader waits for anything, so a segment that was not lost is
  processed.
* Timers (`SF` on each expiry): `_tcp_poll` runs in the same loop. A timer that
  the code keeps setting again is due again and again and must be allowed to go
  off some time; weak fairness would let an endless exchange keep it from that.
* Reading (`WF` on `UserRecv`): the web server reads each connected socket on
  each of its polls.
* Closing on end of stream (`WF` on `UserClose` in `CLOSE_WAIT`): the web server
  closes a socket whose status is no longer connected.
* `Tick` and `Recv` in `Arp`: `net_poll` counts seconds; the owner of a port
  reads it in a loop.
* `Client` in `Tftp`: a waiting call polls until an answer or its timeout.
  Nothing is assumed of the server, of the network or of the application.
* `Httpd`: the background task runs whenever it can (`WF` on `Server`: the
  foreground polls in every loop it waits in); the foreground looks at the
  abort flag between polls, and a typed line, a load and a sleep end (`SF`,
  since each is interrupted by the server again and again). `ReadyIsFlashed`
  has two premises that the code does not secure: that no question is open on
  the console, and that no page is sent for ever to a peer that takes nothing.
* `EthRing`: the driver's call goes on (`WF` on its steps), `eth_poll` reads
  again and again (`SF` on `Copy`), and the controller finishes the frame it is
  storing and sends what it is given (`WF` on `Stored`, `Transmit`). Nothing is
  assumed of frames coming.
* `Dns` and `FlashImage` have safety properties only; `LookupInTime` bounds the
  clocks of a call instead of promising its end.

No fairness is assumed of senders, of losses, or of any particular outcome of a
choice.

## 5. Proofs

Eight modules of theorems are checked by TLAPS, for every value of the constants
that the named assumptions allow (a buffer has at least one byte, a table at
least one entry, a null value is no value of its kind, a heap node has a size).

| Module | Obligations | Theorems |
|---|---|---|
| `TcpTablesProofs` | 1212 | `BufTypeCorrect`, `PointersStayTogether`, `ImplementsByteQueue`, `TypeCorrect`, `TablesAgree`, `ListIsComplete`, `ClosingAreOrphans`, `ConnectedKnowTheirPeer`, `ListenerIsUnique`, `HandlesAreStable` |
| `ArpProofs` | 1073 | `EveryBufferHasOneHome`, `PacketsWaitForTheirHop`, `HopsHaveOneEntry`, `PacketsGoWhereTold` |
| `ServicesProofs` | 1688 | `HttpdTypeCorrect`, `UploadsExclude`, `ListenersExclude`, `ClockKeepsTime`, `LookupAnswersTheQuestion`, `LookupKeepsBuffers`, `LookupEndsInTime` |
| `TftpProofs` | 3354 | `TftpTyped`, `WhatIsReadIsTheFile`, `NothingReadIsTheEnd`, `WhatIsStoredWasWritten`, `AckedFileIsStored` |
| `FlashImageProofs` | 1011 | `SomeImageBoots`, `UpdateTakesEffect` |
| `MemoryProofs` | 1928 | `RingsAreFrameQueues`, `TypeCorrect`, `HeapWellFormed`, `HeapIsAnAllocator` |
| `TcpInputProofs` | 1399 | lemmas only |
| `TcpConnProofs` | 8740 | `ConnectionKept`, `ConnectionIsTwoStreams`, `StreamArrivesIntact`, `AckedBytesArrived`, `EndsAgreeOnNumbers`, `SentBytesAreTimed`, `AcksAreSentOrOwed`, `SegmentsFollowTheDiagram` |

**`TcpBuf`.** The inductive invariant `RingInv` is the type invariant and
`PointersAgree`: the add pointer is the remove pointer plus the length, give or
take one turn of the buffer. The type invariant alone is not enough: that `len`
stays within bounds after a copy says nothing of where the copy went, and the
refinement needs both. `ImplementsByteQueue` reads the held bytes from the
remove pointer on, modulo the size. Each function gets one lemma
(`CopyinPuts`, `CopyoutTakes`, `Copyout2Peeks`, `AdjustSkips`, `ReinitClears`);
the arithmetic of remainders is in small lemmas of its own, since the code wraps
in two different ways.

**`TcpConn`.** None of its properties is inductive, and neither is their
conjunction: a segment may have been on its way for any time, so an invariant
has to speak of every segment that is still there. `CInv` in `TcpConnInv` does.
Most of it is said of one host at a time, from its own side and from its peer's
(`Half`; `Whole` is both):

* which fields fit which state (`Resting`), and that a host that is not yet
  established has neither sent nor received a byte (`Youth`);
* where the bytes are: the transmit buffer ends with the last byte sent, starts
  at `sendunack`, and the peer has all before it (`Sending`); the receive
  buffer ends at `rcvnext` (`Receiving`, `Stream`);
* what is under way: no ack is ahead of what the peer has (`AcksFit`, also of an
  ack it could still send), a byte is the one its number says or has been
  received already (`Datas`), there is no FIN before the peer closes (`Fins`),
  and SYNs have the caller's first number (`Syns`);
* the handshake, when one side knows the other and not the reverse (`Strange`,
  `Calling`, `SameAcks`);
* a socket that the peer has reset with `sendnext` behind `sendunack`, for which
  `_tcp_output` still has something to send (`Flushing`, see line 1536 in
  section 7): what it sends is harmless because it is behind what the peer has.

Offsets are counted from the first byte of a stream (`Off`), so that everything
above is arithmetic of small naturals; the lemmas on `Off`, `Diff` and `Plus`
translate it to numbers that wrap. A call is a composition of functions on a
record (section 2), and so is its proof: `World(w, h)` is `CInv` with the host's
own part taken from the record `h` in the middle of a call, and `Goes(w, h, g)`
says that a function takes `h` to a `g` for which it holds again. Each function
of `TcpTcb` and `TcpInput` has a lemma of its facts in `TcpInputProofs` (what it
changes, keeps and sends) and a `Goes` lemma; each action then is one lemma that
begins with `WorldBefore` and ends with `CallEnds`.

The second half of `CInv` is `CountInv`. In `LISTEN` and `SYN_RECEIVED` every
SYN|ACK moves `sendnext` on by one (line 1977 in section 7) and nothing moves
`sendunack`, so `sendnext` counts them: at most one for each SYN, and one SYN
more for each fault (`Counted`). That was found by TLC: with half a circle of
repeated SYN|ACKs `sendnext` looks as if it lay behind `sendunack`, a close in
`SYN_RECEIVED` then sends bytes that nobody gave, and `StreamIntact` is false.

The theorems have these hypotheses (`InReach`), all true of the configurations
of the runs `tcp_data`, `tcp_close` and `tcp_live`:

* `OneCaller`: one host connects, the other listens. A simultaneous open takes
  over a number that nobody sent (line 1959 in section 7); the invariant does
  not cover that, and no run does.
* `ModestQuota`: less than half a circle of bytes is sent each way. With 32-bit
  numbers that is 2 GB; the invariant counts bytes from the beginning of the
  stream, and no more than half of the circle can be told apart.
* `FewFaults`: the faults, and so the repeated SYN|ACKs, are fewer than half a
  circle: 2^31 of them on the machine.

They say nothing against small buffers, windows, segments or large numbers of
faults below that. `AcksAreSentOrOwed` also needs a pool that does not run out:
otherwise the property is false (line 2092 in section 7). TLC has checked
`CInv` on the configurations of `tcp_data` (395 371 states) and `tcp_close`
(60 525) before it was proved; `MCTcpConn` extends `TcpConnInv`, so that it can
be added to them as an INVARIANT. `StreamIntact` and the rest follow
from `CInv` in one lemma each; `FollowsDiagram` and `AckIsOwed` need a case for
each function once more, and `ConnectionIsTwoStreams` is the refinement: only
`_tcp_send` and `_tcp_recv` are visible, and what the invariant says of the bytes
read before and after a call says which bytes it took.

**`TcpSockets`.** `Inv` is the conjunction of the type invariant, the four state
properties of the run and `ConnectedHasPeer` (a block that has been connecting
knows its peer). None is inductive alone: that freeing a block leaves the table
in order needs `TableAgrees` and `ListAgrees` together, that a block in a
closing state has no number needs the arrows of the diagram and the table, and
`OneListener` needs `ConnectedHasPeer`, because a reset takes a connection back
to `LISTEN` with its peer still set. The action property `HandlesStay` follows
from the same invariant.

**`Arp`.** `Inv` adds three facts to the four properties: the types, that an
entry in use is for a hop, and `KnowsWhatWasTold`: an established entry has the
address its hop was last said to have. `SentWhereTold` speaks of one step only
and would not be kept without the last; that in turn rests on an entry being
established only by an answer for its own hop. `OneHome` needs `WaitsForItsHop`
at the end of the network, where only the entries in use are emptied: an unused
one has no packets. Most actions only empty queues and share the
lemmas `QueuesEmptied`, `PlacesStay` and `HopsStay`.

**`Heap`.** (Its definitions are called `HeapInit`, `HeapNext` and `HeapSpec`,
since `MemoryProofs` also extends `EthRing`.) `HeapWellFormed`: nodes tile the pool, no two neighbours are free,
and each area that callers have lies in its own block. From that,
`HeapIsAnAllocator`: each step of the list of nodes is a step of `Allocator`,
which hands out areas that are disjoint and aligned and fails only as the code
does.

**`Httpd`.** `HttpdInv` is the type invariant, `OneUpload`, `OneListens` and
`LockHeld`: the lock is taken while any socket writes or an image waits, and
the data loop runs for a socket that writes. Without `LockHeld` a second upload
could start in the middle of the first.

**`Clock` and `Dns`.** `ClockInv` adds to `TimeIsKept` that the last count is
the signed value of the clocks at the last poll; the proof splits on whether
the counter passed its signed end in between. `CallInv` adds to the two
properties that every answer in the queue and the question of the call have
been asked: an answer with the right identifier that came to the right port is
then one for the host of the call, or the two questions had the same number.
`InTime` is the budget of a call: a try begins when those before it have used up
their `TryTime`, its timer is set within that, and what has been counted is past
the timer by one poll at most, because the loop polls only while the timer has
not expired. What was counted is behind the clocks by what `TimeIsKept` says.
`LookupEndsInTime` has the hypothesis `TimersCount`, without which it is false: a
turn of the counter soon after the start makes the ticks negative, and a timer
that comes out as 0 never expires (section 7). It holds where the polls come
every 0.45 seconds, or where the counter does not turn early; the run fulfils it
(4 clocks against 8), and TLC has checked `InTime` on it.

**`FlashImage`.** `Inv` says what each step of a job may count on. While an image
is being written, the parts behind the one in hand are there, and after a sound
start the other half holds an image that is whole and fits (`InProgress`); so
erasing or writing one sector never reaches that image (`WholeElsewhere`,
`OneSector`), because a part that is still to be written begins before the end
of its own half (`FitsIsShort`). When the writing is done the new image is
whole (`Finished`). `Numbered` and `Newer` keep the sequence numbers apart, on
which the choice of the partition rests, and `LinesAgree` says when the boot
line in memory may differ from the one in the NVRAM, without which a finished
update could lose to a line that names the previous image. The sizes are
unknown, so the arithmetic of sectors and bytes is in lemmas of its own.

**`EthRing`.** From the oldest unread descriptor on, `c` descriptors hold frames,
the one that is being read is the last of the ring, and the rest is the
controller's (`RxInv`); the controller stands at place `c`. `c` is the number
that the refinement picks (`CountIs`). Each of the driver's stores then leaves
the queue as it is (`ReadingKeeps`), a finished frame is put at its end and the
copy takes its head. For the transmit ring only the descriptor written last can
be the controller's, and the controller comes to it next (`TxInv`).

**`Tftp`.** The network keeps every datagram for ever, so the invariants speak
of all that were ever sent. They come in layers, each used by the next. `Basics`:
types, and that what the client waits for fits the mode of the transfer.
`SessionsKeptApart`: a datagram that bears the name of a session is of its mode
and was sent by it; the client listens to one session only, since its port
follows the first answer. `ReadInv`: every block in the network is a block of
the file (`BlocksSent`), no ack is ahead of the client (`AcksNumbered`), and the
bytes read together with those still held are the front of the file that ends
with the block in hand (`ClientReads`). A block that was sent for an ack of a
smaller number can therefore be old, but never be taken for the next one. `EofInv`
adds that a short or missing block in hand is the last of the file. `WriteInv`:
every block in the network is a piece of what was written (`BlocksWritten`), what
a session has stored ends with one of them (`PeerStores`), and an ack is for a
block that is stored (`AcksOfStored`). For the file that is written the theorems
have the hypothesis `NumbersSuffice`: no block number is used twice in it.
Without it they are false, since an ack that is one turn of the numbers old is
then taken for the ack of the block in hand; with 16-bit numbers and blocks of
512 bytes the limit is 32 MB. The configuration
of the run fulfils it (5 bytes of at most 5).

Only model-checked: everything under fairness, which is out of the prover's reach
(`EverythingArrives`, `CloseCompletes`, `CallsReturn`, `PoolRefills`,
`ReadyIsFlashed`, `KeepsReceiving`, `WritesReturn`), as are ENABLED and what a
recursive definition computes for every input. The proof modules
reach no recursive operator.

## 6. Findings

No run is expected to fail: the properties above hold of the code as it is
modelled. What the code does against its own comments or against the protocol
was found with earlier, more demanding versions of these properties, or by
reading. It is listed in the next section, and the properties of the runs say
with their premises where they make room for it.

## 7. Divergences met

The lines are those of the file named. They are listed so that nobody relies on
the opposite.

`net_tcp.c`
* 367: the search for a local port can start among the well-known ones after
  the clock has wrapped.
* 655: data queued behind unacknowledged data waits for an ack even if a full
  segment could be sent.
* 699: the ack after a drained receive buffer is commented out; a window that
  has closed stays closed for the sender. In `tcp_live`, where `EverythingArrives`
  is checked, the buffers hold all that is sent and no window closes.
* 1132: the last segment is cut at the MTU only and may exceed the peer's
  window (the receiver drops the excess, and the timer repairs it).
* 1468: a closed block without peer on a port hides a listener behind it.
* 1536: `sendnext` may fall behind `sendunack` after an ack that follows a
  rewind.
* 1669: a repeated data segment is dropped without an ack, so a lost last ack is
  not repaired by the retransmission it causes.
* 1727: a FIN without data is accepted wherever it lies, so the reader sees the
  end of the stream before bytes that were lost on the way. `StreamIntact`
  therefore says that what is read is a front of what was sent, not that the
  end of the stream comes after all of it.
* 1742, 2035: a simultaneous close ends only by the ack of exactly the FIN.
* 1889: a listener that is reset in `SYN_RECEIVED` keeps its peer, and no one
  else can reach it; the web server is deaf from then on.
* 1893: a reset without a test of its number closes a connection.
* 1955: a lost ack of the handshake is not repaired by the passive side's timer.
* 1959, 1977: a simultaneous open takes over a receive number nobody sent, and a
  repeated SYN-ACK has a new number.
* 1998: data that `CLOSE_WAIT` accepts is sent once only.
* 2092: with an empty pool the ack that was owed is forgotten.
* 2156: the retransmission timer does nothing in `FINWAIT_1` and `LAST_ACK`; a
  lost FIN leaves the control block behind. `CloseCompletes` is therefore
  stated for runs without faults, and for a peer that sends nothing after its
  own end: in `LAST_ACK` an ack of data can be taken for that of the FIN.

`net_arp.c`
* 188: `_arp_add` looks for its entry by the hardware address and may leave two
  entries for one hop (`OneEntryPerHop` excepts hops entered by hand).
* 197, 409: an entry entered by hand gets a timer at its first use and expires.
* 224: `_arp_lookup` returns the address of an entry that is still asking.
* 282: of the packets that wait for one hop the third and later are dropped.

`net_tftp.c`
* 311: when `udp_alloc` fails between two blocks, the next read returns 0, the
  sign of the end of the file.
* 339: a file of 2^16 blocks or more cannot be read, because block 0 is not the
  successor of block 65535.
* 458: a file whose last block is full and closed without a short one never ends
  for the server.
* 517: the result of the last flush is ignored by close.

`net_dns.c`, `net_udp.c`, `net_api.c`
* `net_dns.c` 137: the buffer for the question is not tested, and an empty pool
  is written through a null pointer. The model stops there.
* `net_dns.c` 131: the identifier is the tick of the last poll; two lookups
  within a tick, on ports with the same number, cannot tell their answers apart.
* `net_dns.c` 190: an answer to an earlier try of the same lookup is dropped, so
  a server slower than a try is never heard; one that says the host is unknown
  is asked eight times.
* `net_udp.c` 162: the search for a free port wraps one past its range.
* `net_api.c` 960, 989: a step of `net_init` that fails leaves what was
  allocated before it, and the result of `_tcp_init` is not tested.

`cfe_timer.c`, `cfe_timer.h`
* 139: the comment says that an overflow is kept track of; where the counter
  passes from its largest to its smallest signed value, time goes back by the
  gap (`TimeIsKept` says how far). A gap of more than half a turn (17 s; only
  flash writing takes so long) is miscounted.
* `cfe_timer.h` 69: a timer is set from the ticks of the last poll and goes off
  early after work that did not poll; one that comes out as 0 never expires.

`bcm63xx_util.c`, `dev_bcm63xx_flash.c`, `bcm63xx_cmd.c` (flash)
* `bcm63xx_util.c` 727: the comment at 749 says that the image that boots is
  kept; the choice looks at the tags only, so after an update that was cut off
  the next one overwrites the image that boots. `AlwaysBoots` has this as a
  premise, in `sound`.
* `bcm63xx_util.c` 725: the room for two images leaves out the tag in front of
  each.
* `bcm63xx_util.c` 785: the result of writing the NVRAM is ignored.
* `dev_bcm63xx_flash.c` 219: writing the NVRAM erases sector 0, which holds the
  boot loader.
* `bcm63xx_cmd.c` 354: "flashimage" flashes what was loaded without a check, and
  does not tell the web server that it works.
* The checksum of an image is tested at boot only when there are two tags.

`bcm63xx_httpd.c`, `bcm63xx_cmd.c`, `cfe_console.c` (web server)
* `cfe_console.c` 915: the abort that announces an image is taken by whichever
  readline waits; if that is a question, the image stays until the next line.
* `bcm63xx_cmd.c` 298, 658: two commands return without clearing
  `g_processing_cmd`; uploads are refused from then on.
* `bcm63xx_httpd.c` 264: a peer that ends in the middle of an upload has its
  socket closed and its lock kept; no one else can upload.
* Four connections that say nothing keep everyone else out; a POST without a
  length is parsed from what was there before.
* 640, 969: sending waits inside the background task, with `POLL`, until the
  peer takes the page.

`dev_bcm6348_eth.c`
* A frame that does not end in its buffer is never taken from the ring.
* 598: close gives up after 20 tries, frees both rings and keeps the pointers;
  open does not make them again. The model ends with close.

## 8. Plan

Done: the network from the rings of the driver to TCP, TFTP and DNS, the heap,
the timer, the web server and the flash. What is left, in this order:

1. `Devices`: open counts and handles, and the failure paths of `net_init`, on
   top of `Allocator`.
2. A composition of `Httpd` with `TcpSockets` in place of `tcp`, which would
   show a lost listener from both sides.
