# A verification project for the ly2541 player

The program (src/src) runs on a Zynq board. It plays signal files from
/opt/signal through the FPGA (PL) into a power amplifier, on the orders of two
consoles: a TCP console (port 15555) and a serial host (/dev/ttyPS1). The
amplifier hangs on a second serial port (/dev/ttyUL0).

This directory holds TLA+ models of the parts of the program in which threads,
failures or boundaries make it hard to test, the TLC configurations that check
them on small instances, and TLAPS proofs for every value of the constants.
`PROJECT.json` lists the components, the runs, the mutants of every property,
the source lines of every definition, the findings and the hazards.

    tlc -workers 2 -config PlayControl.cfg MCPlayControl.tla
    tlapm PlayControlProofs.tla

## 1. Inventory

| component | source | state | operations | what is hard |
|---|---|---|---|---|
| TCP console server | tcp_logic.c, usr_socket.c, usr_thread.c | `accept_fd`, `mutex`, the shared `snd_buf`, descriptors | accept loop; per connection a receiver and a periodic sender | the accept loop reads and writes `accept_fd` without the mutex; descriptors are reused; timeouts |
| Serial console | serial_logic.c | `ser_rcv_buf`, `snd_buf` | parameter command; feedback every 500 ms | shares the send buffer with the TCP threads and the player with the TCP console |
| Play control, DMA | usr_net_cmd.c, serial_logic.c, fpga_ctrl.c, usr_dma.c, usr_file.c | play, write enable and length registers, the PL's buffer, record.txt, the working directory, `pa_mutex` | replay, choose file, set parameters, transfer | two consoles at once, only the transfer is locked; a process-wide chdir |
| Ring buffer | rngbuf.c, rngbuf.h | `rptr`, `wptr`, `buf` | put, get, put ahead, move ahead, flush, the element macros, four accounting functions | lock-free, wrap-around, one byte unused |
| Ethernet configuration | usr_eth.c, usr_net_cmd.c | two files on disk | change ip | rename and rewrite can be cut off, fail, be repeated |
| Serial link | serial.c, usr_serial_cmd.c | receive buffer, tty | `serial_read`, `usr_recv_serial_frame` | partial reads, stale buffer, lost bytes |
| Amplifier status | serial_logic.c, period_feedback.c | `pa_pre_temp`, `pa_pre_vol`, ... | store a status; build a feedback frame | unlocked, field by field, 16-bit values read in halves |
| TCP framing | tcp_logic.c (`recv_from_socket`), usr_net_cmd.c | `rcv_buf`, the bytes in the kernel | header, rest of the frame, command | recv returns less than was asked; what is short is dropped |
| Serial port attributes | serial.c | the handle's number, termios | open with attributes, close, six getters, six setters | attributes share words of bits; a failed open can leave a stale number |
| SLIP, binary frames, CRCs | usr_serial_cmd.c, crc8.c, crc16.c | none | SLIP there and back; build a frame, check a frame | boundaries of the output buffers; which damage the checks of a frame find |
| Sensors | usr_i2c.c, fpga_ctrl.c | none | register reads | a descriptor lost on every i2c error |
| Timer | usr_timer.c | a heap block per timer | start once, stop | stop against the callback (double free); nothing calls it |
| Start-up | main.c, res_mgr.c, version.c | descriptors, the mapping, thread ids, the PL's registers | init, stop the player, create, join, free | results not looked at; the registers outlive the process |

How they interact: the accept loop starts two threads for a connection. The
receiver runs the commands of the TCP console while it holds `sock[0].mutex`;
the serial console's receiver runs its commands without it. Both call the
player, which takes `pa_mutex` inside: the order is always mutex before
pa_mutex, and nobody takes them the other way round. Feedback frames are built
from the sensors and the amplifier's status in buffers that `sock[0].mutex`
protects. `accept_fd == -1` is how the threads of a session tell each other that
it is over.

What makes them correct: a session's threads touch only their own connection; no
descriptor is lost; a thread sends what it built; a transfer puts exactly its
file into the PL, with the write enable on, whatever the other console does; a
command that runs alone leaves the device as it says; every command ends; the
ring is a first-in first-out queue; the original network configuration is never
lost; the status that is reported never goes back and settles. A console's line
carries out what was sent, whole and in order, however its bytes arrive; a serial
port has the attributes that were asked for, and a handle's number is its own;
unless /dev/mem could not be opened, the player is idle when the first thread
starts; whatever failed, nothing in use is freed, and every descriptor is accounted
for.

## 2. Modules and how they correspond to the code

| module | what it is | runs | proofs |
|---|---|---|---|
| `TcpSession` | the life of a session | session_patient, session_eager, session_reconnect | `TcpSessionProofs` |
| `OneSession` | abstract: connections are served one at a time, each once | (property `OneAtATime`) | |
| `PlayControl` | the two consoles, the transfer, opening and recording files | play, play_tail, play_stop, play_cwd | `PlayControlProofs` |
| `RngBuf` | the ring, split where the other side can come between | ring | `RngBufProofs` |
| `BoundedFifo` | abstract: a bounded queue with calls and returns | (property `IsFifo`) | |
| `EthConfig` | set_eth0_static_ip, cut off or failing anywhere | eth, eth_doc | `EthConfigProofs` |
| `SerialLink` | a receiving end of a serial line | (through `PaStatus`) | |
| `PaStatus` | the amplifier's status, extends `SerialLink` | pa | `SerialLinkProofs` |
| `SerialPort` | serial.c's handles, numbers and termios bits | device | `DeviceProofs` |
| `Device` | the life of the process, extends `SerialPort` | device | `DeviceProofs` |
| `CommandLink` | abstract: commands whole, in order, on lines that repeat none twice | (properties `CommandsInOrder`, `HostInOrder`) | |
| `TcpFramer` | recv_from_socket on a stream cut anywhere | device | `TcpFramerProofs` |
| `HostLink` | the host's commands, extends `SerialLink` | device | `SerialLinkProofs` |
| `Slip` | SLIP encoding and decoding, an iteration per step | device | `CodecProofs` |
| `SerialFrame` | what the checks of a serial frame tell of a damaged one | device | `CodecProofs` |

`MC*.tla` give constants their values. A definition named ...Not, ...Forgets,
...Again and the like, marked "Mutant" where it is not evident, is a wrong form
of the definition after it: it is used by no action, and PROJECT.json says which
property finds the error when it takes the place of the right one.

**TcpSession.** `rpc`, `spc`, `tpc` and `hpc` are the program points of the
receivers and senders of each connection, of the accept loop and of the serial
feedback thread. The kernel's descriptor table (`fdt`, lowest free number first)
is part of the state, because a stale number is what goes wrong here; `OtherOpen`
and `OtherClose` are the files, directories and i2c handles of other threads. A
receive yields a command with a reply, nothing to answer (a timeout, an
incomplete or invalid frame, end of file) or an error. `Patient` says that
clients connect only when the last session is over; `SpawnFails` that
usr_thread_create may fail. Choices worth knowing: a client that shuts down one
direction counts as "up"; accept failing is a stutter; a reset can be consumed by
a second receive, so only the sender is sure to notice; in the receiver of a
descriptor -1 errno is 0 (a fresh thread), so it takes the branch that ends.
pthread_detach of an id that pthread_create never filled is undefined: the
outcomes modelled are the error return and (as a behaviour that stops) a crash.

**PlayControl.** `pc["net"]` and `pc["ser"]` are the steps of the command each
console runs; the net console is one thread because its receivers hold
sock.mutex. `job` are the locals of usr_net_xdma_play, `lone` a history variable:
the thread of the last command if no other overlapped it. Sizes are bytes, and the
length register holds words of four. The PL takes a packet only while the write
enable is on (`Taken`); usr_dma_write succeeds all the same. A write may fail
(`ok`), and so may a read, for an error or because malloc failed: read then returns
-1, `off` goes back by one although the position `at` stays, and as `readlen /
packet` is unsigned the packet loop is taken for the largest number (the model sends
as many packets as the buffer holds, none of them the file's). `off` then ends one
short of the size, every later read returns 0, and the loop never ends (`Endless`);
`CommandsFinish` says that nothing else keeps a command from ending. `MaxFailed`
bounds the failed reads of a transfer. `TransferComplete` is about transfers in
which no read and no write failed; one of the TCP console has to find its write
enable still on at the end, because the serial stop takes it away (finding 3). One of
the serial console needs no such condition: the thread that would stop it is busy.
The read-modify-write of the clear bit is one step.
Files of those names are only in /opt/signal; running out of descriptors and
getcwd or the chdir back failing are not modelled. The locals are reset when the
C function returns. What the code does and the model keeps: the TCP console
answers success when nothing was played; the serial console sets play = 2 before
it knows whether the file opened; a serial start of a missing file sends the
amplifier a frame with the enable bit and then stops the player
(`LoneCommandDecides` holds it to that and does not call it right).

**RngBuf.** Each call is split at the read of the other side's pointer, the first
copy, and the second copy with the store of the own pointer. Memory operations
take effect in program order; the barriers an ARM would need are not modelled.
Flush happens only when no call is under way. The program's threads do not use
the ring today.

**EthConfig.** A line is what strstr and strncmp tell apart. `Crash` stops a call
anywhere, with any prefix of the output on disk; `clean` is FALSE once a file
operation of the last call has failed (fprintf and fclose are not looked at by
the code, so such a call still answers done). Lines of more than 511 characters,
which fgets would split, are not modelled. A device without an interfaces file is
in the model, and the properties say nothing of it: its first call creates an
empty file and fails, its second makes that the backup and reports done.

**SerialLink, PaStatus.** A frame is four cells: head, payload in two parts, CRC with
tail. The head is the same in every frame and only the CRC byte of the tail varies,
so a read that splits a head or a tail leaves what a read that ends between cells
leaves. A read that ends within the payload leaves the first part of one frame beside
the second of another: that they are told from a whole payload is what the CRC is
trusted with. "temp" is taken from the first part, "vol" from the second. `Fill`
puts what arrived behind what the call has; `TimeOut` returns less than a frame,
which `Check` looks at as if it were one, with the rest of the buffer as earlier
reads left it. The CRC tells frames and mixes of two apart (`SerialFrame` says which
damage crc8 finds; of the rest it misses about one in 256). The buffer begins as
bytes that are no frame. `pa` is stored field by field, `reading` is filled byte by
byte, "vol" is read twice; "temp" stands for every one-byte field, "vol" for both
16-bit ones. A value is the number of the amplifier's state it was reported in.

**SerialPort.** A termios word is the set of its bits, so that `|=` is union and
`&= ~` is difference, and a setter that leaves another's bits behind is seen.
`GettersAgree` compares what the getters answer with `asked`; ISTRIP has no getter,
and no property speaks of it: the setters disagree with a comment about it (section 5).
CS5 to CS8 are the subsets {}, {CS6}, {CS7} and {CS6, CS7} of CSIZE. `asked` is a
history variable: what each attribute was last set to, by whichever call.
`fdt` is the kernel's descriptor table (lowest free number first), `stale` the
handles that a failed tcsetattr has left with a closed number (`OpenUnset`); from
then on a call of that handle goes to `Target`, whatever file that is. A call that
returns an error changes nothing and is a stutter.

**Device.** `Program` is main as a list of steps and `mpc` the step it is at: the
calls of usr_thread_res_init in their order, the two halves of usr_dma_error_set,
the creations, the joins, usr_thread_res_free. Every call may fail, up to
`Failures` in one life, and leaves behind what the code leaves: -1, a mapping that
is MAP_FAILED, a descriptor nobody closes, a thread id that was never filled in.
Undefined behaviour (a register access through a failed mapping, FD_SET of -1, the
join of such an id, the second free of `snd_buf` in the place of ser_rcv_buf,
res_mgr.c:84) may end the process or pass. fpga_dma_ctrl_cfg takes back the clear bit
and leaves the reset bit on (`CtrlCfg`), so `Quiet`, the registers of an idle player,
has it on. If /dev/mem cannot be opened the registers stay as the last life left them
and the threads start all the same: `StartsIdle` promises nothing then. A failing
aligned_alloc or serial_new is not modelled.
`StartAgain` kills the process at any moment and starts it again: the descriptors
and the memory are new, the registers are as they were. A command of a console
sets the player to anything (what it does exactly is PlayControl's).
usr_thread_res_free is not dead code: main reaches it when none of the four
threads could be started, and `FreedAtRest` says that this is the only way.

**TcpFramer, CommandLink.** A frame is a header of two cells (the first tells the
length, the second the command) and `Body[k]` cells behind it. The client sends
frames, `Arrive` moves any number of cells to the receiver, and a receive takes
what is there up to what was asked. A short header or body is dropped and the next
receive for a header begins behind it, in the middle of a frame: cells without the
header's mark are then taken for no command. Assumed: a parameter does not hold
the header's mark 0xA5A5 where a header is looked for, and frames are no longer
than rcv_buf (the longest of the run is exactly as long). recv stores what it is
asked for wherever it is told to, so a receive that asks for too much makes the
buffer's domain grow, and `FramerTypeOK` says that it never does. TcpSession
abstracts what this module does to "a command or nothing".

**HostLink.** SerialLink with the consumer serial_rcv_host_thread: a frame that
passes `Check` is carried out; one with the parameters of another would be command 0
(`CommandOf`), which is never carried out. `short` remembers that a read returned
less than a frame; `OnceUnlessShort` says that this is the only way a command is
repeated or, with nothing damaged on the line, lost.

**Slip.** usr_ser_slip_encode of a message, then usr_ser_slip_decode of what it
wrote into a buffer of just the message's length. A step is one iteration of a
loop, `taken` its index, so that what the loop has done so far can be said in an
invariant. The four bytes that SLIP tells apart and the others are model values.
`Rooms` are the values of out_max. usr_ser_slip_decode skips an END wherever it
is and does not compare with out_max behind an escape; `SlipRoundTrip` says that
neither matters for what the encoder wrote.

**SerialFrame.** usr_send_build_frame, a line that turns bits over (`Damages`),
and the checks of usr_recv_serial_frame. A byte is a function from its bits. The
two calls of crc8, the sender's and the receiver's, share nothing, so one step
takes one shift of both; `bit` and `index` are crc8's j and i. That the two
registers can be followed side by side is what makes their difference, and with
it the damage, visible to an invariant. "Adjacent" is in the order crc8 takes the
bits, bit 7 of a byte first. A UART sends bit 0 first: damage in one byte is
adjacent in both orders, damage across the border of two bytes is not. Adjacent on
the wire, up to 7 bits are found wherever they are, and of 8 across a border two
patterns are not (0x6c in one byte with 0x03 in the next, 0xd8 with 0x06); this was
computed aside, not by the model. A line that loses whole bytes is SerialLink's.

**MCDevice** puts these six together (Device, its SerialPort alone, TcpFramer,
HostLink, Slip, SerialFrame): `part` chooses at the start which of them a
behaviour is about while the others stand still, because they share no state (the
product would show nothing more). The run has CHECK_DEADLOCK FALSE: an encoded or
checked message, a client that has sent all its frames and a host that has sent
its commands are done; main blocking in pthread_join is how the program is meant
to end up.

## 3. Runs, bounds and what they show

| run | instance | distinct states | what it shows |
|---|---|---|---|
| session_patient | 2 connections, 3 descriptors, fairness | 35 818 | sessions follow each other; no leak; the slot is freed; the host gets feedback |
| session_eager | the same, clients at any time, threads may fail to start; symmetric in the connections | 315 846 | the mutex discipline, the send buffer, and that accept_fd is never replaced, hold for every client |
| session_reconnect | the same without failing threads | (stops at the violation) | finding: threads of the last session act on the new one |
| play | 2 stored files of 3 and 1 packets (12 and 4 bytes) and a missing one, names of different length, a read of 2 packets, 1 failed read | 357 341 | what section 1 says of the player: whole transfers, an owned write enable, lone commands, every command ends |
| play_tail | a file of 10 bytes, packets of 4, a read that takes all of it | (stops at the violation) | finding: the 2 bytes left over are not sent, and both packets of the read are cut to 2 bytes |
| play_stop | as play | (stops at the violation) | finding: the serial stop clears the write enable in the middle of a transfer, whose data is lost from there on |
| play_cwd | as play | (stops at the violation) | finding: overlapping open_in_dir leave the process in /opt/signal |
| ring | 2 byte values, 2 usable bytes, requests up to 3 | 712 104 | the ring implements `BoundedFifo` |
| eth | every file of up to 4 lines, 2 addresses | 304 272 | nothing lost, the last call decides |
| eth_doc | the file of doc/README.md | (stops at the violation) | finding: an address line spelled "ipaddr" is never changed, and done is answered |
| pa | 2 states of the amplifier, 7 cells on the line, bursts of 2, 1 fault, 1 reporter | 1 810 702 | the status never goes back and settles |
| device | 7 descriptors, 4 failures, 2 ports and 3 sets of attributes; 4 frames with bodies of 2, 1, 2 and 3 cells, one of an unknown command; 3 host commands, 1 fault; SLIP messages of up to 3 bytes, out_max from 0 to 8; a frame with 2 bytes of payload, damaged anywhere within 8 bits, in up to 3 bits, and by the polynomial itself | 545 996 | start-up under failures, kills and restarts; port attributes; both consoles implement `CommandLink`; SLIP there and back; the checks of a serial frame |

Why the bounds are enough. Two connections: the hazard is the last session against
the next; a third meets only threads in states the second met. Three descriptors:
the kept connection, one that is refused, one of another thread. Two files and a
missing one: what a transfer can mix is one other file, and a read of two packets
makes the outer loop turn twice; a second failed read would only make `off` smaller.
A ring of two usable bytes has every relation of the pointers: empty, partly filled
with and without a wrap, full. Four lines hold an eth0 stanza with address and mask
and a line that ends it, or two stanzas. Two states of the amplifier: going back
needs two, and mixing frames needs two; seven cells hold a whole frame behind any
rest of another, so every misalignment of a read occurs. The proofs remove these
bounds for the safety properties. In device: 4 failures, because main gets to
usr_thread_res_free only when all four threads are missing; 7 descriptors are the
console, mem, the socket, the DMA device, two ports and one more, so that they can
run out; ports are opened with each parity and with a rate that is not in the table,
and the setters go through all values; frames of different lengths, a longer one
behind a shorter one, so that what the buffer keeps of one could complete another;
three host commands, since the last command can be repeated and one before it must
not; an out_max of 8 is what three escaped bytes need, so every smaller one makes
the encoder stop somewhere else; two bytes of payload and the CRC have two borders
between bytes. The runs play, session_patient, pa and device also check liveness;
deadlock is checked in every run but device.

Fairness, and why the code justifies it.
* Every thread that can take a step takes one (weak fairness): they are detached
  or joined threads with no priorities. A receive or send that blocks ends after
  3 s (SO_RCVTIMEO, SO_SNDTIMEO), so it counts as a step.
* A thread that waits for `sock[0].mutex` gets it (strong fairness of the lock
  steps): its holders sleep 5, 490 or 500 ms between two critical sections. The
  exception is the receiver's `continue` at tcp_logic.c:53-55, which locks again
  at once; it needs a client that sends frames with an invalid length for ever.
* A console that waits for `pa_mutex` gets it: the other sleeps 100 ms and waits
  for a command.
* In PaStatus the amplifier's thread (receive, check, store) and each reporter are
  one thread each, and weakly fair as such. The amplifier goes on sending; it may
  send `Burst` frames without a pause, then it pauses until the device has given up
  on what it has; a frame that is there as a whole is read in one piece again and
  again (strong fairness of `ReadFrame`): the thread sleeps 10 ms, a frame takes 2
  ms at 115200 baud. Without pauses the reads can stay out of step for ever.
* The network delivers what was sent and the receiver of a connection runs
  (`FramerFairness`): TCP retransmits, and recv returns when bytes are there. How
  it cuts the stream is free; `FramesGetThrough` promises something only of
  segments that end with a frame (`whole`), as a client gets that waits for each
  reply.
* Clients owe nothing: they may stop, stay silent or never read.

## 4. What is proved

Every theorem is proved for all values of the constants, from the ASSUMEs of the
module that declares them (which TLC evaluates in the runs).

* **TcpSessionProofs**: `SessionIsInvariant`, `OwnFrameSent`,
  `SlotIsNotOverwritten`. The mutual exclusion is not inductive by itself: that
  accept_fd is empty when the accept loop fills it, long after it looked, needs
  `SlotStable` (whoever is in the part of a critical section behind its check
  knows accept_fd is set) and `StartedOnce` (a connection has no threads before
  it is installed), so that no thread but the accept loop can set it. For clients
  that wait for the end of the last session (`Patient`) and threads that start
  (`~SpawnFails`): `ThreadsKeepTheirConnection`, `NothingLeaks` and
  `SessionsFollowEachOther` (the refinement of `OneSession`). `SoloInv` says that one
  connection is active at a time (`OneActive`), that accept_fd refers to it
  (`SlotIsLive`), and who owns each descriptor of a connection (`Held`,
  `OwnDescriptor`); the mutex keeps the receiver and the sender of a session from
  closing it both.
* **PlayControlProofs**: `PlayIsInvariant`, `WriteEnableIsOwned`,
  `TransferIsComplete` for files of whole packets (`Aligned`; with the condition on the
  write enable above), `LoneOpenFindsFile` and `LoneCommandIsDecisive`.
  `OneTransfer` ties pa_mutex to the program points, `Progress` says how much of the
  file is in the PL at each of them as long as nothing failed and the write enable
  is on, and that the serial console keeps its own, `FileKnown` that only an opened
  file is transferred. `WriteEnableIsOwned` needs no alignment. `LoneOpenFindsFile`
  needs what a lone thread knows: the other is idle from its first step on, so the
  working directory is the one it set. `LoneCommandIsDecisive` adds `LoneDone`: what
  the lone command has already put right at each program point; that the write
  enable stays right comes from `WriteEnableIsOwned`.
* **RngBufProofs**: `RngIsInvariant`, `UnreadIsKept`, `AccountsAreRight`,
  `RingIsFifo`, for any size. The count a side makes from a pointer read earlier
  errs on the safe side (`CountsStaySafe`); lemmas on the wrapped arithmetic of the
  pointers carry it. The refinement needs more than RngInv: what a call has copied
  and not yet published is still as it was copied (`PutCopied`, `GetCopied`,
  `AheadStored`, together `FifoInv`). The step that writes the pointer is the step
  of `BoundedFifo`, and every other step but a call's first is a stutter.
* **EthConfigProofs**: `EthIsInvariant`, `OriginalIsKept`, `LastCallIsDecisive`,
  for files of any length. The loop's flag inside_eth0 is shown to follow the
  definition `InStanza` line by line (`StanzaStep`).
* **SerialLinkProofs**: `PaIsInvariant`, `ReportsAreMonotone`, for any number of
  states, faults, cells and reporters. The states are ordered along their way:
  report, bytes read, variables, buffer, line, amplifier. The step lemmas show that
  each action moves a value forward on that way (`LineStep`: what a step does to
  the line is a selection that keeps the order, `Selected`). The same lemmas carry
  `HostCommandsInOrder` (the refinement of `CommandLink`): `HostInv` orders the
  commands from those carried out through the buffer to the line. `CommandsOnce`
  needs the order to be strict: `HostStrict` says that every payload still to come,
  from the buffer's filled part on, is of a command not carried out, `HostAligned`
  that without damage the frames to come are whole and the first begins where the
  buffer does.
* **DeviceProofs**, about SerialPort: `PortIsInvariant`, `GettersAgreeWithSetters`,
  `HandleIsOwn`, for any rates and ports. `GettersAgree` is not inductive over
  getters: the bits of each attribute in the termios word are followed one by one
  (what each setter leaves of the others' bits), and the getters are computed from
  them. `OwnPort` needs that two handles with descriptors hold different ones and
  that the kernel gives out free numbers only.
* **DeviceProofs**, about Device: `LifeIsInvariant`, `FreedWhenAtRest`,
  `PlayerStartsIdle`, `BadMappingIsMetByMain`, `DescriptorsAreAccounted`,
  `DevicePorts`, for any number of failures and descriptors. The invariant has one
  part per question: what main has done by each step (`MainOrder`), what the mapping
  is worth (`Mapping`), what the registers hold until the first thread (`Stopped`),
  and who owns which descriptor (`I2cOwned`, `OwnFiles`, `Counted`).
* **TcpFramerProofs**: `FramesAreCommands`, for any number of frames of any lengths
  and any cuts of the stream. In `FramerInv` the order of the unread stream says how
  far a cell is from the end of its frame, a header that was read is followed by its
  own body, and nothing that is still to come was carried out.
  `WholeFramesAreHandled` adds `WholeInv`: while `whole` holds, what has arrived ends
  with a frame, so the frame at the head has arrived to its end (`Reaches`), both
  receives get what they ask for, and the next cell begins a frame (`Contiguous`).
* Types: `FramerIsTyped` (TcpFramerProofs) and `HostIsTyped` (SerialLinkProofs). The
  properties `FramerTypeOK` and `HostTypeOK` say more than types: `ran` and
  `executed` hold only numbers of frames a peer sends, never the 0 of a command with
  another's parameters, and nothing is stored behind the end of rcv_buf. The second
  rests on `BufferTyped` (at a receive, what was stored and what is asked for fit
  into the buffer), the first on the invariants above.
* **CodecProofs**: `SlipLosesNothing` and `ShortDamageIsDetected`, for messages and
  payloads of any length. A loop whose iterations are steps needs no induction over
  data: the invariant says what the iterations so far have done. In `SlipInv` that
  is where the code of each byte stands in the output (`CodePlace`, which counts
  the escapes in front of it), and that the decoder stands before the code of the
  byte it will store next (`Stands`). For crc8, `Remainder` is what the two
  registers differ in, less the damage of bits that are in the register and not
  shifted out yet: a function of the damage in front of bit `Reached`. It is zero
  before the first damaged bit (`Unharmed`); from there on, as long as the damage
  stays within 8 bits, one of the low bits that the rest of it cannot reach is set
  (`Shown`); and the parity of its bits is that of the number of damaged bits
  (`Parity = Odd(Reached)`), because the polynomial has an even number of terms.
  At the end the remainder is the difference of calc_crc and recv_crc.

Only model-checked, and why: liveness under fairness, `SlotFreed`, `HostFed`,
`CommandsFinish`, `ReportsSettle`, `FramesGetThrough`. It is out of the prover's
reach. Every other property of the passing runs is stated by a theorem.

## 5. Findings

Each is a run that TLC finds violated, with the quoted line in PROJECT.json.
1. A client that reconnects within 490 ms: old threads serve the new session
   (tcp_logic.c:170, "keep just one connect instance").
2. A read that is not a multiple of 64 KiB loses its rest, and each of its packets is
   cut to the size of that rest (usr_net_cmd.c:185-186).
3. A serial stop clears the write enable under a running transfer
   (serial_logic.c:136).
4. Overlapping open_in_dir lose the working directory (usr_file.c:118).
5. The documented interfaces file uses "ipaddr", which the code does not change
   (usr_eth.c:50).

Seen while modelling, without a claim in the repository that they contradict (or
with one no run can be about):
* A frame split by a read's time limit is lost and the frame before it accepted
  again: harmless for a status, on the host's port a command executed twice
  (`OnceUnlessShort` says it takes a short read). On TCP a frame is lost with the
  bytes behind it, and none is executed twice.
* The length in a header is not compared with the size of rcv_buf, nor, in
  usr_net_ctrl_replay, with the 24 bytes of `raw` (usr_net_cmd.c:304-306).
* The halves of a 16-bit status value can come from two states.
* usr_thread_create's result is not looked at by the session and the slot then
  stays taken for ever; main joins a thread id that was never filled in.
* thread_param, the buffer of getcwd(NULL) and, on i2c errors, a descriptor are
  lost; repeated i2c errors use up the table, and then no client is accepted.
* ISTRIP is on with 8 data bits, against "Only use ISTRIP when less than 8 bits as it
  strips the 8th bit" (serial.c:257): serial_set_parity sets it with every parity
  (serial.c:599-601), and serial_set_databits leaves it on when it sets 8 data bits
  behind 7 with a parity (563-571). serial_open_advanced does as the comment says. Both
  are in SerialPort (`SetParity`, `SetDatabits`); each is a single call, certain, and
  no property claims the contrary. A rate that is not in the table opens the port
  with B0, and serial_set_baudrate answers 0 and changes nothing.
* A port whose tcsetattr failed stays in use with a closed number; when that number
  is given out again, both handles may read one tty.
* A stanza for an alias eth0:1 starts with the same text as eth0's and gets eth0's
  address (usr_eth.c:41).
* The name of a file to play is taken with two bytes behind its end, unless the
  sender terminates it.
* ptimer_stop frees what the callback frees (nothing calls it).
* A read that fails behind the first one of a transfer is counted as -1, and the loop
  never ends, with pa_mutex and, of the TCP console, sock[0].mutex locked
  (usr_net_cmd.c:182).
* When /dev/mem cannot be opened the threads start and the player stays as it was.
* fpga_dma_ctrl_cfg never takes the reset bit back (fpga_ctrl.c:140-148).

## 6. Not modelled, and the plan

Not modelled: the content and layout of most frames, logging (zlog is vendored) and
wording, the thresholds of the status bits and the conversions of the sensors'
values, the device status command (it changes nothing), the one-shot timer (nothing
calls it), crc16 and usr_build_serial_frame (nothing calls them), serial_write (one
write under the handle's mutex), a failing aligned_alloc or serial_new, the heap,
the test program.

Next: one model of both consoles over both mutexes. Today TcpSession has
sock[0].mutex and PlayControl pa_mutex; that the first is always taken before the
second is only argued in section 1.
