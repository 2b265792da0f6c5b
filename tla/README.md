# IBL: a verification project

The intermediate boot loader (IBL) of the Keystone and C64x+ devices brings an image
into memory from ethernet, NAND, NOR, I2C or SPI and jumps to it.  It runs alone on one
core, without an operating system, without interrupts, and mostly out of static variables;
what makes it hard is the outside world (a network that loses, repeats and reorders, flash
with flipped bits, buses with noise, DMA that moves descriptors by itself) and state that
survives from one attempt to the next.

This directory models the program in TLA+, model-checks small instances with TLC and
proves theorems about it with TLAPS.  It has four state machines, one for each place where
the program meets something that has a will of its own, and what they are built on:

* **the ethernet boot** (`EthBoot`), from the boot driver down to the ring buffer
  (`Stream`), against a network and its servers;
* **the board on its network** (`Lan`): routes, address resolution and the descriptors
  shared with the DMA hardware;
* **the boot from flash** (`FlashBoot`): NAND with its error correction, and NOR, with
  the format detection and the loaders of scripts and blobs;
* **the first stage** (`FirstStage`), which loads all the rest from an I2C or SPI
  flash that the host tools (`BootImage`, `RomImage`) have laid out;
* and **the COFF and ELF loaders** (`Loaders`) over any boot module that may fail.

## 1. Inventory

Paths are relative to `src/src/`.

| Component | State it keeps | Operations | Talks to | Hard behaviour | Must be true |
|---|---|---|---|---|---|
| **Stream buffer** `driver/stream/stream.c` | ring buffer: open flag, read and write index, free count | open, close, read, peek, write, level, isempty | written by TFTP, read by net | indices wrap at different moments; a closed stream still has data; never initialised | is a bounded FIFO of bytes |
| **Software timers** `driver/timer/timer.c`, `hw/timer/timer64/t64.c` | table of blocks, number active, whether the hardware timer exists | add, delete, run | TFTP and BOOTP arm them; `timer_run` calls them back | expiry routines change the table while it is being walked; timers are the only way out of the polling loop | count, table and device agree; a wait is always timed |
| **UDP sockets** `driver/eth/udp.c` | table of local and remote ports with a receive function | open, close, send, receive | above IP; calls TFTP and BOOTP | only the local port selects a socket; sockets closed in callbacks | ended users hold no socket |
| **TFTP client** `driver/eth/tftp.c` | state, block number, retransmission count, timer, socket | get_file, receive, timer expiry, send_ack, cleanup | UDP, timers, stream, net error flag | lost, repeated, late, foreign blocks; two transfers answered at once; block numbers wrap; a refused write | bytes in order, nothing acknowledged that is not stored, end means end of file |
| **BOOTP client** `driver/eth/bootp.c` | request count, timer, socket, parameters | init, receive, timer expiry | UDP, timers, IP, net callback | reply racing the last timeout; backoff re-armed inside its own expiry | ends in parameters or an error, releases everything |
| **Net module** `driver/eth/net.c` | error flag, file offset, device table, the one transmit packet | open, close, read, peek, query, seek, process packet, allocate and free a packet | all of the above, implements `BOOT_MODULE_FXN_TABLE` | `net_read_peek` is the scheduler of the whole program | a read returns the next bytes or an error; the packet is always freed |
| **Ethernet boot driver** `ethboot/ethboot.c` | entry, parameters known | set up queues, open, await parameters, detect format, load, drain, close, tear down | net module, queue manager, `iblBoot` | loops that end only if the module below behaves; sessions repeat on leftovers; early returns skip the teardown | every session ends |
| **ARP and IP** `driver/eth/arp.c`, `ip.c` (`icmp.c` is compiled out) | one ARP entry with one pending packet, routing table, own address | resolve, request, reply, receive; add and look up a route; send, receive | under UDP, over the MAC | any host's ARP packet takes over the entry and gets what waits there | a packet goes to the host it was meant for, requests are answered in the end |
| **Ethernet MAC** `hw/macs/cpmacsl` | port enabled | open, stop | device | a stop that does nothing | |
| **Queue manager, CPDMA, packet accelerator** `hw/qm`, `hw/cpdma`, `hw/pa`, `device/c66x/c66x.c` | hardware queues of descriptors | set up, push, pop, send, receive, configure, tear down | under net's device; the hardware moves descriptors too | a lost descriptor is lost for good; one on two queues is shared with the hardware; the send waits without a bound | descriptors conserved, send returns |
| **Ethernet MAC with descriptor rings** `hw/macs/cpmacdrv` | descriptor rings | open, send, receive, close | device | the older devices' alternative to the two above | |
| **NAND boot** `driver/nand/nand.c`, `nandboot/` | page buffer, current page, position, logical-to-physical map | open, read, peek, seek, query | page reads of the NAND drivers; implements the boot table | cached page stale after a failed load; bad blocks; the seek of open is ignored | bytes of the file in order, or an error |
| **NAND error correction** `ecc/3byte/3byte_ecc.c` | | compute, correct | NAND drivers | an error in the code itself; two errors that look like one | one error corrected, two noticed |
| **NAND and NOR drivers** `hw/nands`, `hw/nors` | | page reads, transfers | buses, ECC | three drivers, three ways to use the result of the correction | what cannot be read is reported |
| **NOR boot** `driver/nor/nor.c`, `norboot/` | position | open, read, seek, query | implements the boot table | `read` serves as `peek` | as NAND |
| **Boot dispatch** `main/iblmain.c` | format found | detect, load, jump, call again | every driver, every loader | retries without end, on what the last attempt left | no jump to what is not loaded |
| **Image loaders** `interp/blob`, `bis`, `btbl` | parser states | parse header, place sections, call functions | boot module below, memory | data straddling reads, padding, ignored return values, a function table that outlives the image | memory holds the sections, or an error |
| **COFF loader** `interp/coff` | statics of `cload.c` | header, sections, initialization records | fseek and fread over the boot module | records across load buffers; statics that outlive a load | an entry point means an image in place |
| **ELF loader** `interp/elf` | module being loaded | header, segments | fseek and fread over the boot module | no result of a read is looked at | as COFF |
| **First stage** `main/iblinit.c` | FIFO, position | choose device, fill, boot table, jump | readers, boot table processor | refill while bytes are left; odd blocks | the program entered is the one in the flash |
| **First stage readers** `main/ibliniti2c.c`, `iblinitspinor.c` | read address | map, configuration, block with checksum and retry | bus drivers, FIFO | bad checksums, noise in the length, addresses that carry into another EEPROM | bytes in order, each once |
| **Serial buses** `hw/i2c`, `hw/spi` | registers | read, write | readers | how much of an address is sent; what a failed read leaves | |
| **Image converters** `util/bconvert`, `util/btoccs`, `util/romparse` | | boot table to blocks, map file to flash | run on the host; the first stage reads their output | two programs that must agree on every byte | |
| **Memory controllers, clocks, pins, console** `hw/ddrs emif25 plls pscs gpio led mdio sgmii serdes cpsw uart` | registers | writes in a fixed order | | | |
| **Device support, other tools, tests, build** `device`, `util`, `test`, `make`, `cfg`, `arch` | | | | | |

### How the parts work together

`main` of the **first stage** reads a map and a configuration, then pulls a boot table
(the second stage) through a FIFO that the reader refills a block at a time, and jumps.
`main` of the **second stage** calls the boot driver of the configured device, again and
again until one of them jumps.  Each opens a boot module, which is a table of functions
`open close read peek seek query`, and gives it to `iblBoot`, which peeks at the first
bytes, picks a **loader**, and returns its entry point.

*Ethernet.*  `iblEthBoot` sets up the descriptor queues and calls `net_open`.  With BOOTP,
`bootp_init` opens a socket, arms a timer and sends a request; `iblEthBoot` then calls
`net_peek` until the callback says that the parameters are known.  Without, `net_open`
calls `tftp_get_file` itself.  The loader calls `net_read` and `net_peek`; afterwards
`iblEthBoot` drains what is left, calls `net_close` and frees the queues.

Everything else happens in the loop of `net_read_peek`: stop on the error flag or on a
closed and empty stream; walk the timer table once (`timer_run`); take what the stream has;
if not enough, let the device give one packet to `proc_packet`.  There is one thread.
Interleaving comes from expiry routines and packet handlers that run inside the
loop and change what it, or the walk of the timer table, is using; from the network, which may have
anything ready at any turn; from the hardware timer, which may come due at any turn; and
from the DMA hardware, which moves descriptors and reads the packet when it sends it.

*Flash.*  `nand.c` maps the good blocks to a file and reads it through a cache of one page;
the page reads of the three drivers correct what they can.  `nor.c` is a position in a flat memory.
Interleaving does not exist here: what is hard is calls that fail, with what they
leave for the next call and for the next attempt.

## 2. Modules

| Module | Models | Remarks |
|---|---|---|
| `StreamQueue` | what the rest needs of the stream: a queue of bytes with an open flag | operators only |
| `StreamSpec` | that queue as an abstract specification | starts as the zeroed statics do: closed, and full of bytes nobody wrote |
| `Stream` | `stream.c` with its buffer, its two indices and its free count | one action per function |
| `TimerTable` | `timer.c` and the one-shot hardware timer | operators on a record `t` |
| `UdpSockets` | the socket table of `udp.c` | operators on a function of handles |
| `Tftp`, `Bootp` | every handler of `tftp.c` and `bootp.c` | operators on the client record `c` |
| `Net` | `net.c`, the polling loops of reading and seeking, the network and the servers | the variables `c call ret pc scan net` |
| `EthBoot` | `ethboot.c`, `main` calling it again, and the loader | `Init`, `Next`, `Spec`; composes all of the above |
| `FileTransfer` | what one session promises, abstractly | implemented by `EthBoot` under a mapping |
| `Qm` | the descriptor queues: `qm.c`, and `targetInitQs`, `targetMacSend`, `targetMacRcv`, `targetPaConfig`, `targetFreeQs` of `c66x.c` | operators on the queues |
| `Lan` | `arp.c`, `ip.c`, the transmit packet of `net.c`, the set-up and teardown of `ethboot.c`, the hardware and the other hosts | `LanInit`, `LanNext`, `LanSpec` |
| `Ecc` | `3byte_ecc.c` | operators; a number is the set of its bits that are one |
| `Nand` | `nand.c` and what the three NAND drivers' page reads may answer | operators on `nandmcb`; extends `Ecc` |
| `Nor` | `nor.c` | operators on a position |
| `Bis` | the language of the boot image script, `bis.c` | operators |
| `FlashBoot` | `nandboot`, `norboot`, `iblBoot`, `bis.c`, `blob.c` | `Init`, `Next`, `Spec`; composes the four above |
| `BootFile` | what a boot module that stores a file promises, abstractly | implemented by `FlashBoot` under a mapping |
| `BootImage` | the boot table as `bconvert64x` writes it, and its blocks as `b2i2c` writes them | operators |
| `RomImage` | the flash as `romparse` lays it out from the map files of `make/` | operators |
| `BootTable` | `interp/btbl`, one operator per state of the processor | operators on its instance |
| `FirstStage` | `iblinit.c`, the two readers, the bus reads, the wrapper of the boot table processor | `Init`, `Next`, `Spec`; composes the three above |
| `LoaderFile` | `fseek` and `fread` over a boot module that fails, and memory | the variables shared by the loaders |
| `Coff`, `Elf` | `cload.c` with `osal.c`; `dload.c` with `dlw_client.c` and the wrapper | one action per read |
| `Loaders` | `iblBoot` running either, file after file | `Init`, `Next`, `Spec` |
| `EthBootProperties`, `LanProperties`, `FlashBootProperties`, `FirstStageProperties`, `LoadersProperties` | the properties | |
| `StreamProofs`, `EthBootProofs`, `EthOrderProofs`, `EthSessionProofs`, `LanProofs`, `FlashProofs`, `FirstStageProofs`, `LoadersProofs` | theorems (section 5) | |
| `MCStream`, `MCEthBoot`, `MCLan`, `MCFlashBoot`, `MCFirstStage`, `MCLoaders` | instances for TLC | |

Definitions whose comment begins with "A variant" (`SameBus`, `NoRouteKeepsPacket` and others) are not part of any
specification.  Each is a definition of the model with a plausible mistake, and `PROJECT.json`
names the property that notices it.

### Ethernet boot: `EthBoot`, `Net` and below

**State.**  The record `c` is the static memory of the program:
`c.stream`, `c.timers`, `c.socks`, `c.tftp` (`tftpmcb`), `c.bootp` (`bootpmcb`),
`c.error_flag` and `c.fileOffset` (`netmcb`), `c.have_params` (what the callback of
`iblEthBoot` sets), with the configuration, and the packets the current handler has
sent.  A handler of the C code is a function from `c` to `c`, so that a
handler that calls three others is a composition in the order of the code.  Handlers run
to completion (there are no interrupts), so each is one step; what is *not* one step is
the loop that calls them.

**Steps.**  `pc` says where `net_read_peek` is: `"top"` tests the error flag and
the stream, then asks the hardware timer (`TimerDue`, `TimerNotDue`); `"scan"` looks at
block `scan` of the timer table, so that an expiry routine that changes the table is
followed by the rest of the walk over the changed table; `"copy"` takes bytes; `"packet"` takes
a packet, or none.  Between any two of these steps the servers may act.  `net_seek` is the
same: a seek forward reads until it is there, a seek backward starts the transfer again, on the leftovers of
the old one.

**Network.**  `net` holds every message ever sent, and receiving does not remove one:
a message may be received never, once, often, late, or out of order.  Since it never leaves the
set, loss needs no step of its own.  The one thing it may not do is outlive a whole turn of block
numbers (`Outlived`): a 16-bit number cannot tell block *n* from *n*+65536, and no TFTP
client could.  Every copy of a read request can start a transfer of its own, from
each port in `Ports`, which is what a real server does with a repeated request.

**Abstractions.**
* A byte is its position in the file, so that a misplaced byte is visible.  All
  sessions load the same file.
* Time is in ticks of 100 ms, and a tick may come due at any turn of the loop, or
  not: the properties do not rest on how fast the loop is.  `SF` on `TimerDue` (section 3) only
  says that it is not for ever.
* A packet with a wrong checksum is a lost packet.  ARP and routing lose packets.
* Of a BOOTP reply only whether it names a TFTP server matters.
* Whether a file name tells the format is a free choice (`NameDetectFails`,
  `ParamsKnown`, `DetectFormat`).
* A loader is any program that reads, seeks within the file, peeks only when the stream is empty, and stops
  when it likes or when a call fails.  Device set-up and power-up succeed.
* Handles are those of the tables; running out of timer blocks or sockets is modelled
  as in the code (-1), though these instances seldom reach it.

### The board on its network: `Lan`

**State.**  `queues` are the hardware queues; a descriptor is a number, and nothing but
the queues remembers it.  `tx_packet` and `txuse` are the one transmit packet, `net_arp_cache`
and `rt_table` the tables, `device` what is running, `wire` the frames on their way to the board.
`pc` and `job` follow one frame on its way out: `Alloc` (`net_alloc_tx_packet`), `Fill` (`ip_send`,
`arp_resolve` or the frames of ARP itself), `MacSend` (`targetMacSend`); the packet that waited
for an address is sent after the ARP frame that brings it, as in `arp_receive`.

**Steps of others.**  The hardware may move a descriptor between any two of these
steps (`PaRuns`, `Transmit`, `Arrive`, `Overrun`), and what leaves is what the transmit packet holds
*then*.  The other hosts answer, one of them asks for addresses of its own accord (`Chatter`).

**Abstractions.**
* A host's name stands for its IP and its MAC address, so that an address pair
  is right if its halves are equal.
* On top is an application that stands for BOOTP and TFTP: numbered datagrams, each sent
  once the one before is answered and again when a timer expires.  What BOOTP and
  TFTP really do is `EthBoot`'s part; the two models meet at "a packet may be lost".
* What the queue manager does with descriptors pushed while they are on a queue is not defined by the code: the
  state `"undefined"`, where nothing more is said.

### Flash boot: `FlashBoot`, `Nand`, `Nor`, `Ecc`

**State.**  `nand` is `nandmcb`: position, the number of the cached page, what the buffer holds
(the number of a page, or junk), the block map.  `nor` is a position.  `bis` and `blob` are the loaders'
statics, `fn_table` the script's function table, which the code never clears and whose checks let one number too many pass:
behind the last entry lies other data (`FnAddresses`), and what comes of using it is not followed (`pc = "astray"`).  `memory` maps addresses to
positions of the file.  `doubt` is a history variable: what first went wrong since the module was opened.

**Steps.**  One step is one call of a loader into the boot module, with what the loader makes of
it.  The result of a page read is one of `PageResults`: `"ok"`, `"failed"` or `"unnoticed"`.  These are not
assumed: they are computed from `Ecc` for every pattern of at most two wrong bits in a block or its code, with what each of
the three drivers does with the verdict (the GPIO driver ignores it).

**Abstractions.**
* A number is the set of its one bits, and a parity is the parity of the size of a set: this is
  what lets `EccSound` speak of every address width.
* Sizes count 16-bit units, the smallest thing the script's parser reads.  A byte is its
  position in the file.
* The correction that the EMIF hardware does is external: what it cannot correct, it reports.
* A header that was read wrongly may send a loader anywhere: the state `"astray"`, where nothing more is said.
* The functions a script executes return and disturb nothing.

### First stage: `FirstStage`, `RomImage`, `BootImage`, `BootTable`

**State.**  `iData`, `iFifoIn`, `iFifoOut` are the FIFO, `readAddress` and `busAddress` the reader's
position, `inst` the instance of the boot table processor, `wrap` the buffer of its wrapper, `memory` what is
loaded.  `delivered`, a history variable, counts the bytes handed to the wrapper.  `summed` and `sum` stand for a checksum
of the map: the code takes it over twice the map's length, over whatever the stack holds, so what it comes to is a choice.

**Steps.**  `pc` follows `main`: map, configuration, then for each
pull of the wrapper (`"pull"`) the reads of the FIFO, with the header and the body of each block as two separate reads of the flash
(`"header"`, `"block"`), then the processor (`"process"`).  Each read may report an error, and leaves a prefix of its bytes in
`iData`; or may return bytes with one bit inverted.  The bytes in the flash are real bytes here, since checksums are computed from them:
`Table` and `Blocks` (`BootImage`) make them out of an image, `BuildFlash` (`RomImage`) puts them where
`romparse` does, for both byte orders.  Addresses of the I2C reader carry into the number of the
EEPROM, an EEPROM wraps at its own end.

**Abstractions.**  `MaxFaults` bounds errors and noise together.  The map and the configuration are read
without noise: `romparse` writes no checksum into the map, so nothing could be said of one read wrongly.  Of the configuration nothing
is used here.

### COFF and ELF loaders: `Loaders`

**State.**  `dev` is the boot module: position, whether it still serves the file (`lost`), result and bytes of
its last call.  `todo` (the numbers of the sections left, the tables last), `nbytes`, `packet`, `i` are the loops of `cload.c`, `init_size` and
`init_addr` its statics; `segments` what `dload.c` has yet to load.  `hidden` says that a call failed whose result no one looks at;
it is what separates the properties of the code from finding 4.

**Steps.**  One `fseek` with its `fread` and what becomes of the data, or one turn of
`cload_cinit`.  Any call may fail.  Headers are one unit long, and a unit stands for a field of four bytes.  `ewrap.h` defines
`dload_dynamic_segment` as `TRUE`, so only static executables are loaded.

## 3. Runs

| Run | Module, cfg | Bounds | Shows |
|---|---|---|---|
| `stream` | `MCStream` | buffer of 3, writes of up to 3 bytes, reads and peeks of 1, 2, 4 | the ring buffer implements `StreamSpec`, whatever the order of calls and the place of its indices |
| `tftp` | `MCEthBoot`, `MCTftp.cfg` | 7 bytes in 3 blocks, two server ports, one session, static address | all safety properties of the ethernet boot and the refinement of `FileTransfer` |
| `bootp` | `MCBootp.cfg` | 9 bytes in 3 full blocks and an empty one, block numbers modulo 3, one port, with the configured server or the one in the reply | BOOTP then TFTP, of a file whose block numbers wrap past 0 and whose last block is empty: it ends, resources are released, waits are timed |
| `sessions` | `MCSessions.cfg` | two transfers of 4 bytes, by a second session or by a seek to 0 or 3; two ports, with and without BOOTP | what the first transfer leaves in the network, the timers and the statics does not harm the bytes of the second |
| `lan` | `MCLan` | one receive and one transmit descriptor, as in the code; 2 datagrams, 1 lost frame or foreign ARP request, 2 sessions | descriptors conserved, packet freed, datagrams to their hop, requests answered |
| `flash` | `MCFlashBoot` | pages of 4 units, 2 pages in a block, 9 blocks of which 3 bad, 2 attempts; codes over 2 address bits and 1 bit of place | NAND is a file that reports what it cannot serve, and nothing is run that is not in place |
| `first_stage` | `MCFirstStage` | blocks of 8 bytes of table, buffer of 12, pulls of 4, EEPROMs of 60 bytes, 2 faults, two images, both byte orders | the program entered is the one in the flash |
| `loaders` | `MCLoaders` | load buffer of 4 units, alignment 2, memory of 14, 2 loads, four files | an entry point means an image in place, unless a failure went unseen |
| `leaked_timer` | `MCLeakedTimer.cfg` | two sessions | finding 1 |
| `no_server` | `MCNoServer.cfg` | one session | finding 2 |
| `queues_left` | `MCQueuesLeft.cfg` | as `lan` | finding 3 |
| `partly_loaded` | `MCPartlyLoaded.cfg` | one ELF file, one load | finding 4 |

**Ethernet boot.**  `BytesInOrder`: read bytes, the read in progress and the stream are
consecutive pieces of the file.  `EndIsEndOfFile`: a stream closed without an error had the
whole file.  `AckedIsStored`: no acknowledgement for a block not stored.  `RoomForBlock`:
the loop takes a packet only with room for a block.  `EndedTransferIsIdle`: any way a
transfer ends leaves no timer and no socket.  `TimersConsistent`: count, table and hardware
timer agree.  `WaitIsTimed`: the loop only waits while a timer runs.  `ErrorLeavesNothing`:
no data is left behind an error flag, where the drain loop would never get it.
`TimeoutMeansSilence`: a transfer times out only on the timer of its last block.
`ImplementsTransfer`: a session is a `FileTransfer`.  `SessionEnds`: every session ends.

**Lan.**  `DescriptorsConserved`: every descriptor is on exactly one queue.  `TransmitPacketFreed`: the packet
is free whenever the program polls, whatever way the last one took.  `PendingAwaitsItsHop`: what waits
in the ARP cache waits for its own next hop, and is the application's latest.  `DatagramsReachNextHop`: a
datagram sent at once leaves with the address of its hop.  (One that waited may not: `arp_receive` gives it to whoever sent
the ARP packet, which the application repairs by asking again.)  `SendReturns`: the wait for a transmit descriptor
ends.  `EveryRequestAnswered`: in a session that goes on, whatever is lost or sent astray, a request is answered,
provided the configuration can work at all (`Workable`: a route to the server, an address BOOTP's reply is accepted at).

**Flash.**  `SpiNoticesDamage`: no page with up to two wrong bits in a block passes for what was written.
`DamageIsReported`: a cache that does not hold the page the position is in has been reported by some call.
`ImplementsFile`: NAND boot is a `BootFile`.  The script is told word by word beside the bytes of the image (`Script`), and so is what is asked of
it (`ScriptAssumption`).  `BisImageLoaded`: a script that is jumped to is loaded, all
of it, whatever failed on the way and before.  `ExecRunsLoadedCode`: a function is called only with its own code in place.
`BlobImageLoaded`: a blob is whole when it is jumped to and no call failed (`blob.c` itself does not look).

**First stage.**  `BytesInOrder`: the wrapper gets the bytes of the table, each once and in order.
`SectionBoundaries`: where the processor looks for a size the table has one.  `OnlyImageWritten`: nothing is written but
the program.  `LoadedWhenEntered`: no jump before all of it is in place.  `Settles`: it ends, when the map adds up.

**Loaders.**  `EntryMeansLoaded`: an entry point means every section, segment and initialized variable in place.
`OnlyImageWritten`: nothing else is written, even by a load that fails.  `LoadReturns`: a load returns.

**Why the bounds are enough.**
* *Ethernet.*  Blocks are 3 bytes and the stream holds 4.  In the code blocks are 512 bytes and the stream
  1024 or 1520, and a peek of 4 for the format leaves at most 3 bytes when the next packet is
  taken.  The model is tighter than the code: a full block and what a peek leaves just fit, a
  second block does not, so `RoomForBlock` rests on the loop and not on spare room.
* `HEADER_BYTES` is 2 and `DRAIN_CHUNK` 2, less than a block, as 4 and 16 are; read sizes
  1 and 5 are less and more than a block.  Files of 4 and 7 bytes end in a short block, the
  file of 9 in an empty one.
* `TFTP_SERVER_TIMEOUT` is 6 ticks, more than a block and a peek's leftover in bytes, as 600 is
  more than 512 + 3.  `ErrorLeavesNothing` depends on exactly this: each turn of the loop takes at least a
  byte, so the stream is empty before the timer is.  With a timeout shorter than a block it fails.
  `sessions`, which does not check it, uses 3 to be small.
* Two timer blocks and two sockets (the code has five and three): a client holds at most one
  of each, and an abandoned session can leave one timer more.  Two ports is the least that gives two
  transfers of the file at once.  One or two retransmissions are the least at which "not yet the last" and "the last" differ.
  Two transfers is the least in which leftovers exist.
* *Lan.*  The descriptors are as many as the code has.  One trouble is enough to lose any frame or to have the ARP cache
  taken over at any moment; the theorems need no such bound.
* *Flash.*  Sections begin and end inside pages, cross pages and cross a bad block; the first block is bad, one
  in the middle, one at the end of a section.  Two attempts is the least in which `fn_table` has a past.
  The script's function has the number of the last entry.  Of the EMIF driver only blobs are booted: to the
  loaders it is the SPI driver without the chance of an unnoticed error.
* *First stage.*  Sections of every even size modulo 4, across blocks, pulls, the end of the buffer and the end of an
  EEPROM.  `DataNoise` inverts the bit that a carry starts from and the one it ends in; `HeaderNoise` only makes a length larger: a length read
  as 0 passes the checksum with no data, which is a hazard of the format (`ibliniti2c.c:76` in `PROJECT.json`), not of the reader
  (`LengthsNoticed` states the restriction).
  Two faults is the least that fails a retry.
* *Loaders.*  Records straddle load buffers at every place; a section is longer than a buffer; one file has no optional header, one is for
  another target, one segment is longer than its data, one has none.

**Deadlock** is not checked (`CHECK_DEADLOCK FALSE`) where the program or the model stops: at a jump, or
after the number of sessions, attempts or loads that the constants allow.  That they do not stop sooner is `SessionEnds`, `SendReturns`,
`Settles`, `LoadReturns`.  `stream` is checked for deadlock.

**Fairness.**
* `EthBoot!Fairness`: `WF(Boot)` and `WF(Poll)`: the processor runs; there is
  one thread and nothing to preempt it.  `SF(TimerDue)`: the hardware timer counts by itself
  and the loop looks at it at every turn, so if it is armed again and again it is found due
  again and again.  Strong fairness is needed because the loop is not always at the place where
  it looks.  Nothing is assumed of the network or the servers: `SessionEnds` holds
  if every packet is lost.
* `LanSpec`: `WF` of what the hardware does with a descriptor it has and with a frame that arrives, of sending (the processor runs) and
  of the application's timer.  `SF(Receiving)`: the program does not always poll, but it looks for a frame after every
  timer it has run, so a frame that waits is taken.  Losses are bounded by `MaxTroubles`: if every frame is lost, no request is answered.
* `FirstStage` and `Loaders`: `WF` of the program's own steps.  `FlashBoot` states none: it has no liveness property.

## 4. Findings

1. **A leaked timer aborts the next transfer** (`leaked_timer`).  When the file
   name says nothing of the format, `iblEthBoot` closes the module and returns
   (`ethboot/ethboot.c:255-263`).  The transfer is already running; `net_close` and
   `net_open` reset neither the timers nor the TFTP state.  The timer fires in the next session, and
   `tftp_timer_expiry` (`driver/eth/tftp.c:279`) takes it for the server timeout
   of the transfer in progress, and aborts it, while blocks are arriving.  The comment at
   `tftp.c:281-282` says "This can happen only if we have not received any data from the
   TFTP server."  `TimeoutMeansSilence` holds of one session (`tftp`), and fails of two.
2. **With no server address the boot hangs** (`no_server`).  With a static address and
   server address 0, `tftp_get_file` raises the error flag before it opens the stream
   (`tftp.c:469`).  `stream_init` has no caller, so the free count of the zeroed control
   block is 0 and the stream looks full: `net_query` returns the buffer size, `net_read`
   fails and consumes nothing, and the drain loop of `iblEthBoot` runs for ever.
   `ethboot.c:282` says of the query "Will return -1 when the data is done".
3. **Sessions begin on queues that are not empty** (`queues_left`).  The early returns of `iblEthBoot`
   (`ethboot.c:207-219`, `255-263`) skip the teardown at its end (`306-320`); and a session that ends in
   order may still leave the descriptor of its last frame on `DEVICE_QM_ETH_TX_Q`, which `targetFreeQs`
   does not empty.  `main` calls `iblEthBoot` again, and `hwQmSetup` runs on queues of which `hw/qm/qm.c:93-94` says "it is assumed
   that all queues are currently empty."
4. **An ELF file is reported as loaded when it is not** (`partly_loaded`).  `DLIF_allocate` ignores
   the results of the seek and the read that bring in a segment (`interp/elf/dlw_client.c:162-168`), and `DLOAD_load` sets the entry
   point before it loads anything (`interp/elf/dload.c:2412-2415`).  A failed read gives a handle and an entry point all the same, where
   `dload.c:2310-2311` says "If the load fails, this function will return a value of zero (0) for the file handle."

Met while modelling, without a run:

* `fn_table` has `MAX_BIS_FUNCTION_SUPPORT` entries, numbered from 0 (`interp/bis/bis.c:94`), but the checks of a function's number, headed "Ensure
  that the function number is in range" (`bis.c:213`, `256`), refuse only numbers above `MAX_BIS_FUNCTION_SUPPORT`.  A script that uses
  that number makes the code access the entry after the last.  `FlashBoot` has the check as it is and does not follow
  what comes of the access; the script of `MCFlashBoot` uses a number inside the table, while the theorems of `FlashProofs` hold of scripts with either.
* In `make/ibl_c66x/spiRom.map.pre` (lines 69-75) the second pad has the bus address of the I2C layout
  for the upper half of its address, and the upper half (0) for its length, so with two pads the space of the second configuration
  is not reserved and a program file may lie there.  `RomImage` has the map file as it is (`Pads`); the first stage does not mind, since it
  does not depend on the configuration.

## 5. Proofs

`StreamProofs` proves for every buffer size, every set of bytes, every size of read and
write, and every order of calls:

* `TypeCorrect`: `Spec => []TypeOK`.
* `IndicesCorrect`: `Spec => []IndicesAgree`.
* `RingImplementsQueue`: `Spec => ImplementsQueue`, the ring buffer implements the queue
  that `Tftp` and `Net` are built on.  This is what lets the ethernet modules use
  a sequence for the stream.

*Assumptions*: `StreamConstants`: the buffer size is a positive natural number, the sizes of
reads, peeks and chunks are natural numbers, and what is written are sequences of bytes.

*Argument*.  The refinement maps the ring to the sequence of the bytes from the read
index on, as many as the free count leaves.  Neither `TypeOK` nor the mapping is enough alone: a write must
start where the mapped sequence ends.  So the inductive invariant is `TypeOK /\ IndicesAgree`, and
`IndicesAgree` says that the write index is the read index plus the level, modulo the
size.  (The zeroed statics satisfy it: with free count 0 the write index is a whole turn ahead.)
Lemmas state the arithmetic of a single wrap, what `CopyOut` reads, and
that a written chunk is appended; the step proof has one case per function.

`LanProofs` proves for any number of descriptors, sessions, datagrams and losses, and for every configuration:

* `DescriptorsStayConserved`: `LanSpec => []DescriptorsConserved`.
* `TransmitPacketIsFreed`, `DatagramsGoToNextHop`, `PendingWaitsForItsHop`: the three invariants of sending.
* `LanTypesKept`: `LanSpec => []TypeOK`.

*Assumptions*: `QmAssumption`, at least one descriptor for each direction; `LanAssumption`, the ranges of the other constants.

*Argument*.  For the descriptors, the invariant is `QueuesInv`: the queues are sequences of descriptors, and conserved while a
session operates.  Everything that the program and the hardware do to the queues is built from one operation, `Moved` (pop one,
push on another), and the lemma `MovedConserves` says that it keeps both halves of the property; `SetupConserves` is the
beginning.  For sending, `SendInv` adds to the three properties what they need between the steps (`Waiting`): which jobs a frame on its
way out can have, that the cache holds a route's hop and a waiting packet for the server while a datagram or a request is on its way, and
that nothing waits once a datagram goes to the MAC; that an address in the cache is the one asked for (`CacheRecord`); and that a session which
has sent to the server has a route.  For the types, `LanTypes` adds that no frame on the wire or in a receive buffer answers the last
request (`Answerable`), without which `asked` would pass it, and that a packet that is sent from the cache is there; the types of the
queues come from `QueuesInv`.

`FlashProofs` proves, first, `EccSound` of `Ecc`: for addresses of any width, any block and any pattern of wrong bits, one wrong bit, in the block or
in its code, is corrected, and two are never taken for the data.  *Assumption*: `EccAssumption`, at least three bits of address and place together (with
fewer the statement is false).  *Argument*: a wrong bit turns exactly the parities that cover it (`CodeOfFlip`), one of each pair, which is the pattern
the code takes for one wrong bit; two wrong bits turn both parities of a pair where their addresses differ; one in the block and one in the
code spoil the pattern by one, which at least three pairs make visible.

`EthBootProofs`, `EthOrderProofs` and `EthSessionProofs` prove the safety properties of `EthBoot`, its type invariant and its refinement of
`FileTransfer`.  The statements hold for every size of block, stream, read and peek, every file, any number of sessions, timer blocks, ticks and sockets, and a network that
loses, repeats and delays messages.  `EthBootProofs` first states for each handler and timer routine what it leaves of the client, so that the step
proofs above never open a handler twice.  Each invariant builds on the one before:

| Invariant | Says | Gives |
|---|---|---|
| `Shape` (`EthBootProofs`) | the client is idle, waits for a BOOTP reply with an empty open stream, or fetches the file over its one TFTP socket; where the session, the call and the polling loop stand agrees with that (`Control`); a packet is only taken when the stream has room for a block (`Room`); every data message in the network is a block of the file under its number (`Messages`) | `RoomForBlock` |
| `Filled`, `BlocksCounted`, `ReadInOrder` (`EthOrderProofs`) | what was read and what is in the stream is the file, as far as the block number says; a stream that is closed without an error has had all of it | `BytesInOrder`, `EndIsEndOfFile` |
| `Once`, `Acknowledged` | in one session the acknowledgements in the network are of blocks no later than the last one stored | `AckedIsStored` |
| `ClientClocks`, `Sessions` (`EthSessionProofs`) | the timer table follows the sockets: nothing runs without one, and with one exactly one timer runs, in the first block, with the routine of that socket's client; its timeout and the clients' counts are in range; a session that failed, or that another can follow, has no socket | `TimersConsistent`, `TimeoutMeansSilence`, `EndedTransferIsIdle`, `TypeOK` |
| `Skips` | a seek in progress skips to a position inside the file | `WaitIsTimed` |
| `Calls`, `Failures`, `Patience` | while the stream holds data, the timer has at least as many ticks left as the polling loop can make turns before it is empty | `ErrorLeavesNothing`, `ImplementsTransfer` |

*Assumptions* on the constants are those of the modules.  `EthBoot` has one for this: `HEADER_BYTES - 1 + TFTP_DATA_SIZE <= MAX_SIZE_STREAM_BUFFER` (the loop that looks for the
header leaves at most three bytes in a stream of 1024 before it polls for a block of 512).
Beyond these a theorem names its hypotheses, each with the behaviour that makes it necessary:

* `NumbersDiffer`: the file has fewer blocks than there are block numbers.  Otherwise block number 0 comes round, and an old
  message passes for a new one.  Needed from `BytesInOrder` on; `RoomForBlock` does without.
* `OneSession` (`AckedIsStored`): the acknowledgements of an earlier session are still in the network.
* `[][AbandonedLast]_vars` (all of `EthSessionProofs`): no session follows one that ended while its format was being detected.  Such a session leaves its timer
  running: finding 1.  `OneSessionAbandonsLast` shows that one session alone meets it.
* `SeekTargets = {}` (`EndedTransferIsIdle`, `ImplementsTransfer`, `ErrorLeavesNothing`): a backward seek after the end or an error requests the file again, so that
  what ended starts anew.
* `SeeksInside` (`WaitIsTimed`): a seek past the end of the file never returns (`net.c:710`).
* `Configured` (`ImplementsTransfer`, `ErrorLeavesNothing`): a server is configured or BOOTP asks for one; otherwise the old stream is left: finding 2.
* `PatientTimer` (`ErrorLeavesNothing`): the server timeout has more ticks than a block has bytes and the two peeks before it; the code has 600 ticks for 512 bytes.

`FlashProofs` proves further of `FlashBoot`, for every geometry of the flash, every set of bad blocks, every content of the blocks, every image and
every driver:

* `FlashTypes`: `Spec => []TypeOK`.
* `FlashImplementsFile`: `Spec => ImplementsFile`, a NAND flash with bad blocks is a file made of the good ones, whatever the sizes of the calls.
* `DamageAlwaysReported`: `Spec => []DamageIsReported`, with a driver that reports what it cannot correct.
* `SpiDriverNotices`: `Spec => []SpiNoticesDamage`, for every content of the flash.
* `ScriptIsLoaded`: `Spec => []BisImageLoaded`, for every script of the grammar of `bis.c`, over NAND and NOR, with the format detected or configured.
* `FunctionsRunLoadedCode`: `Spec => []ExecRunsLoadedCode`, for the same scripts.
* `BlobIsLoaded`: `Spec => []BlobImageLoaded` for a blob that fits the memory and the flash (`BlobFits`), although `blob.c` looks at no result.

*Assumptions*: `NandAssumption`, `NorAssumption`, `EccAssumption`, and `FlashBootAssumption`: the fields of an image and the blob's parameters are natural numbers (they are `Uint32`
in the code), and the value that stands for arbitrary data is not a command.  `BisAssumption`: the magic number and the five commands differ.  `ScriptAssumption` says what a
script is, none of which the code checks beyond the magic number and that a command is one: the flash holds its words one after the other (`WrittenAsTold`); a command is followed by its
operands and, but for the terminating one, by a command (`Grammatical`); what it loads fits the memory and lies apart, its functions have numbers of their
own, and none is called before it is loaded (`Sensible`).  The header that is peeked at ends within the first page.  TLC evaluates all of them on the script of `MCFlashBoot`.

*Argument*.  The invariant has two parts.  `Media`: the block map is the ascending list of the good blocks, and the cache is in one of a few states (`Cache`): the
buffer is junk after a failed open, or, if the driver reports and no call has failed, it holds the page it is tagged with, which is the page
of the position (`Serves`), whenever the file has that page.  This is more than `DamageIsReported`, which is only about positions within the file: the tag has to be right outside it too,
for a later seek back.  `Control`: what the loaders' statics hold where.  The lemmas under it are the
arithmetic of pages that a read or a peek crosses, one page at a time; `RankIsOnto`, that the map numbers the good blocks without gaps, by which a position leads to a
block and back; `HonestAnswers`, which takes from `EccSound` that a driver that reports gives the page or an error; and one effect lemma each for seek, read,
peek and open.  The blob needs `BlobProgress` besides: as long as nothing failed, the position is the number of bytes read, and the memory up to it is the file.

The script needs `ScriptProgress`: unless the module was opened in doubt, the parser is at some word *k* of some command *m* of the script (`Parsing`).  Then the position is that of word
*k*; the fields still to read are the operands from there, and those read have the values of the words (`InCommand`); every payload before word *k* is in
place (`LoadedBefore`); and every function loaded before command *m* is in `fn_table` under its number (`RecordedBefore`).  A failed call ends the loader, so that no
doubt has to be followed (`SureRead`); a payload is in place because it is read from where the script has it, and stays because the others lie apart (`StoredElsewhere`); a function loaded by
an attempt that failed makes the next attempt fail (`FunctionLoadFails`), not run it; and a script that loads a function with the number after the last entry goes
astray there, so that it is never jumped to and calls nothing.  The start is delicate: `nor_peek` moves the position, so that the magic number of a script
in NOR is looked for behind the header, where a command stands, which is not the magic number (`MagicProgress`); and in NAND the peek at the header must load no page (`PeekedHeader`), since
`iblBoot` does not look at its result.

`LoadersProofs` proves of `Loaders`, for any number of files and loads, every size and alignment of the load buffer and every way a seek or a read may fail:

* `LoadersInvariant`: `Spec => []LoadersInv`, the inductive invariant.
* `EntryIsLoadedImage`: `Spec => []EntryMeansLoaded`.
* `WritesInImage`: `Spec => OnlyImageWritten`.

*Assumptions*: `LoaderAssumption` and `CoffAssumption` (the load buffer is a whole number of record alignments), and `ImagesAssumption`, which is what a
linker makes: sections, segments and variables lie in the device's memory and apart; each record of a `.cinit` table begins at the
first aligned position behind the one before, with its size and its address, and only zeros follow the last; a section of a COFF file takes as much memory
as it has data.  None of it is checked by the code, and each is needed: where two sections overlap, the second destroys the first.  TLC evaluates the assumption
on the four files of `MCLoaders`.

*Argument*.  The property is about a loader that has finished; the invariant says what each stage of a load has already
put in place, and that later stages leave it there because memories are apart (`OthersKept`, `InPlaceApart`).
The hard part is a table.  The code keeps the position in it as a pair, what it has consumed (`nbytes`) and an index in the buffer (`i`), and aligns the *index*; the
table was aligned by the linker from its own beginning.  The two agree because a buffer always begins on a
record boundary (`Buffered`, `AlignedShift`), which in turn holds because what is left over of a buffer is left at one.  `AtRecord` relates the
position to the records: it is between two of them, all before it copied (`Between`); behind the last (`Behind`); or within one
(`Within`), and then `init_size` and `init_addr`, the statics that outlive the buffer, are what is left of that record and
where it goes.  `AtBoundary` shows that the word the code takes for the next size is one, or a zero with no record behind it.  Two exceptions run through
the invariant: `hidden`, a failed call whose result no one looks at, and `Misled`, a record that a failed load left in `init_size`.  For
`WritesInImage` a data record needs `Within` and nothing of what was read, so that `hidden` is no exception there; but a hidden failure may have given the loader
junk for a header, and what it does with that is not followed (`"astray"`).

`FirstStageProofs` proves of `FirstStage`, for any program, either byte order, every size of blocks, buffer and pulls, every address the map,
the configuration and the parts of the flash have, and any number of reads that fail or invert a bit:

* `FirstStageTypes`: `Spec => []TypeOK`.
* `BootInvHolds`: `Spec => []BootInv`, the inductive invariant.
* `TableDelivered`: `Spec => []BytesInOrder`.
* `BoundariesKept`: `Spec => []SectionBoundaries`.
* `OnlyProgramWritten`: `Spec => []OnlyImageWritten`.
* `EnteredWhenLoaded`: `Spec => []LoadedWhenEntered`, which says of the whole chain, converters, flash, readers, FIFO and processor, that what is
  jumped to is the program that was converted.

*Assumptions*: `BootImageAssumption`, `RomImageAssumption` and `FirstStageAssumption`: what is read of a block fits 16 bits, its buffer is a whole number of
words.  `ImagesAssumption` says what a program is, which no code checks: sections of whole 16 bit words (`hex6x` writes such), none empty, apart, within memory and at word
boundaries (elsewhere `gem.c` would store words at addresses that are not, and what the processor then does is not modelled), and addresses of 32 bits.  `LengthsNoticed` is a restriction, not a fact about the flash: a bit inverted in the *length* of a block makes the length
larger than the buffer.  Without it the properties are false (a length read as 0 passes the checksum of no bytes, the hazard at `ibliniti2c.c:76`).
With buffers of the code's size no single bit is so harmless at every length, so that for the code as it is the theorems speak
of reads that fail anywhere, and of noise in the blocks themselves but not in the separate read of their lengths (`HeaderNoise = {}`).
The map and the configuration are read without noise.  TLC evaluates all the assumptions on the programs of `MCFirstStage`.

*Argument*.  The path of the bytes is followed from its beginning.  First what the tools make: the bytes of a
table (`SectionTableBytes`, `TableBytes`), of its blocks (`BlockBytes`) and of the flash with its map (`FlashLayout`).  Then what the readers get: the address of
the table (`TableAddressIs`), the bytes of a block, across the ends of EEPROMs (`BlockRead`), and that the checksum of a block with one
bit inverted is never right (`NoiseNoticed`: it changes one word by less than 65535, and with it the sum modulo 65535).  These tools and readers are
recursive functions, over words, sections and blocks, so their lemmas are inductions; `Ascent`, `Recursion` and their kind
provide those from the well-founded order of the numbers, with sets in the place of predicates, which the library's induction theorems
would need as operators.

`BytesInOrder` is far from inductive, and the invariant has four parts.  `Typed` bounds the indices of the FIFO and what is asked of it.  `Streamed` says that after *nb* blocks
the next address is that of block *nb + 1*, in its EEPROM, and that the FIFO is empty (`Drained`) or holds just the bytes between what was delivered and the end of block *nb*
(`Waiting`): a retry therefore finds both where they were.  `Aligned` says that the wrapper hands over whole words, and whole 32 bit elements but for the rest
of a section; without it a section could end within an element that the next piece begins.  `Followed` places the processor: after *k* sections, and *done* bytes of the next, it
is in the state that belongs to that place of the table, with the size, the address and the padding it has read from there (`Parsed`), and memory is the
program as far as that and untouched elsewhere (`Filled`).  `TurnFollows` is one turn of the processor and `SectionCopied` what `coreCopyData`
does of it in either byte order; they are where a mistake of one word in the consumption count of a state would show.

*Model-checked only*.  Every invariant and every action property of a passing run is stated by a theorem.  What is left to TLC is liveness under
fairness (`SessionEnds`, `SendReturns`, `EveryRequestAnswered`, `Settles`, `LoadReturns`), which is out of the prover's reach, and the runs
that show a violation.  No module with a theorem uses a `RECURSIVE` operator.

## 6. Not modelled

The map names about an eighth of the lines of the repository.  Most of the rest has no behaviour to model: licence texts, register maps and
device constants (`device/*/*.h`, `util/iblConfig/src/device.c`), several copies of the same routine for several
devices (of which the c66x ones are modelled), and start-up code that writes registers in a fixed order.  In particular:

* *Clocks, power, pins, memory controllers, UART*: register writes at start-up; nothing else depends on them.  The set-up of the I2C and SPI controllers, their
  register protocol and writing to them; the set-up of the MAC and of the packet accelerator, and its firmware.
* *`cpmacdrv.c`*, the MAC of the older devices: an alternative to the queue manager with one descriptor each way.
* *COFF*: relocation, symbols and strings, which are compiled out or never called.  *ELF*: dynamic linking, more than half of `dload.c`,
  which cannot be reached since `dload_dynamic_segment` is defined as `TRUE`.
* *`main`* of the second stage chooses the device by two pins and calls it for ever; the loop over priorities is under `#if 0`.  `iblSwap` of the first
  stage reorders the configuration.  The boot parameter tables in the flash are read by the ROM of the device.
* *Host tools* other than `bconvert64x`, `b2i2c` and the layout of `romparse`: they prepare configurations, or convert to formats no loader of this
  repository reads.
* `ip_del_route` (which always clears the first entry) and `stream_init` have no caller; ICMP is compiled out.
* Blocks of *another* file left in the network (`udp.c:175` tells transfers apart by local port only) do not occur, since all sessions load the
  same file; exhaustion of the timer blocks needs more sessions than the runs have; a seek past the end of a file does not return
  (`net.c:710`) and is not made.
* The EMIF driver's rule that the code of an erased page is ignored.

`PROJECT.json` lists all hazards, with a reason for each that no property covers.

## 7. Plan

What is left, most valuable first.

1. **`cpmacdrv.c`**: its two descriptors, owned in turn by program and hardware, as another configuration of `Lan`.
2. **The register protocols of I2C and SPI**: start, stop and the timeouts, as what `hwI2cMasterRead` and `hwSpiRead` refine.
