# Verification of the Groovy MiSTer streaming server

Groovy MiSTer sends the frames and the sound of an emulator from a PC to a
MiSTer FPGA board over UDP.  A client (`api/groovymister.cpp`) compresses and
sends; a server on the ARM side of the board
(`hps_linux/src/support/groovy/groovy.cpp`, "HPS" below) copies what arrives
into memory it shares with the FPGA and posts commands to it; the core
(`Groovy.sv`, `rtl/`) polls that memory and draws.  There is no retransmission,
no sequence number on payload and almost no acknowledgement: what keeps a frame
from tearing is the order in which a few fields are written.  That order, and
the server's recovery from lost datagrams, is what these modules are about.

## 1. Inventory

| Part | State | Operations | Interacts through |
|---|---|---|---|
| HPS session (`groovy.cpp` 279–356, 955–1141, 1418–1670, 2953–3130) | `poc` (modeline, frame numbers, offsets, lengths), `isConnected`, `blitCompression`, `audioChannels`, `rgbMode`, `groovyServer`, OSD settings | start, stop, poll; CLOSE, INIT, SWITCHRES, AUDIO, GET_STATUS, BLIT_VSYNC, BLIT_FIELD_VSYNC, GET_VERSION | datagrams on port 32100, SPI commands to the FPGA |
| HPS reception (387–443, 909–953, 1691–1771, 2426–2482) | `isBlitting`, `isCorePriority`, `numBlit`, `PoC_bytes_recv`, `PoC_buffer_offset`; the two blit headers in DDR | copy and check a payload datagram, detect a loss, count a chunk, update a header | DDR shared with the FPGA |
| HPS inputs (1144–1373, 3132–3270) | joystick, keyboard and mouse half of `poc`, orders and keep-alives | send joystick/analog/key/mouse, keep-alive, neutralise | port 32101 |
| HPS AF_XDP transport (1811–2204, 2672–2951) | umem frame pool, rings, outstanding transmissions | receive batch, answer, recycle frames | kernel rings |
| HPS sockets, MTU, GMC file upload (2002, 2205–2424, 3271) | file descriptors | bind, ioctl, send file | kernel |
| Client stream (`groovymister.cpp` 688–901, 1238–1313) | `m_frame`, mode, buffers, `m_delta_enabled` | CmdSwitchres, CmdBlit, CmdAudio, Send, SendStream | port 32100 |
| Client session (202–687, 903–1055, 1360–1382) | `m_isConnected`, last ACK in `fpga`, ping, raster timing | CmdInit, CmdClose, getACK, WaitSync, DiffTimeRaster | port 32100 |
| Client inputs (1056–1236, 1383–1440) | last report in `joyInputs`, `ps2Inputs` | BindInputs, PollInputs | port 32101 |
| FPGA latches (`rtl/hps_ext.v`) | one latch per SPI command | set by the HPS, cleared by the state machine | SPI, `Groovy.sv` |
| FPGA state machine (`Groovy.sv` 820–1560) | state, frame and zone being shown, pixels requested | S_Idle, S_Dispatcher, header and pixel blits, LZ4, sound | DDR port, video FIFO |
| LZ4 decoder (`rtl/lz4.v`) | input buffer, window of 64 KB, registers of the block being decoded | write a word, run, stop, reset | pins of the state machine |
| DDR port (`rtl/ddram.sv`) | one command and its data registered, words of a burst left | read a burst, write a word | `DDRAM_BUSY`, `DDRAM_DOUT_READY` |
| Video, sound, clocks | FIFOs and counters | scan out | clocks |

Hard to test, and what the properties are for:

* **Loss.**  A datagram that does not come leaves a reception open, and the
  server then reads the next datagram as payload.  Recovery rests on lengths:
  a datagram shorter than 1472 bytes must complete the frame.
* **A reader that does not wait.**  With *Blit ASAP* the FPGA polls the header
  while the payload is still being written; a header that is ahead of the data
  shows pixels of another frame.
* **A header written byte by byte.**  The core reads the eight bytes of a header in
  one word whenever it likes; the server stores them one after another.
* **A pipeline that stalls anywhere.**  Compressed frames go through a burst, a
  decoder, an adder for deltas and a DDR write; sound, the raster, a busy memory or a
  datagram that is late can stop each of them at any clock.
* **Modelines in flight.**  A modeline waits in the core for the raster, while the
  frames of the new one already come.
* **Waits inside the poll loop.**  `setInit` and `loadLogo` wait for the FPGA
  with the main loop of MiSTer behind them, and the poll loop keeps the core as
  long as a reception is open.
* **Legal calls in an order nobody wrote a test for.**  INIT twice, BLIT before
  INIT, sound before a modeline or after CLOSE, CLOSE in the middle of a frame.
* **Answers that come late.**  An ACK later than its 60 ms, an INIT served after
  its client gave up, a client that crashes and leaves its session behind.
* **Reports that overtake each other.**  The state of the joysticks is a datagram
  with an 8 bit order that restarts at every frame.
* **Two owners of one memory.**  The frames of AF_XDP belong to the kernel, to the
  server or to an answer, and one is found by a counter.
* **Fixed width and boundaries.**  16 bit `numBlit` with 65535 reserved, 8 bit
  input orders, lengths modulo 1472, frame regions filled to the byte.

## 2. Modules

| Module | What it is |
|---|---|
| `GroovyDefs` | sizes, DDR layout, the type of a datagram, legal command lengths: the `#define`s and `groovy_command_length_valid` |
| `GroovyServer` | the HPS server under an arbitrary environment: any datagram at any poll |
| `Reception` | abstract: what the server promises the core about frames and sounds |
| `GroovyReception` | `GroovyServer` implements `Reception`: the refinement mapping |
| `BlitStream` | extends `GroovyServer` with a client that streams, and a network that loses datagrams |
| `InputStream` | the input reports: events of the player, keep-alives, sessions, and the client that keeps the last report |
| `ClientSession` | `CmdInit`, `CmdClose`, `getACK` and the status, against the session and the ACK address of the server |
| `XdpUmem` | the frames of umem between the server, the kernel and the answers |
| `FpgaBlit` | the core polling the raw header while the server writes it: latches, dispatcher, blit, modeline and sound states, video FIFO |
| `Lz4Decoder` | the decoder of `rtl/lz4.v`, fed by bursts, against what the encoder compressed |
| `Lz4Blit` | the LZ4 and delta half of the core around that decoder, with the DDR port, clock by clock |
| `MCGroovyServer`, `MCBlitStream`, `MCInputStream`, `MCClientSession`, `MCXdpUmem`, `MCFpgaBlit`, `MCLz4Decoder`, `MCLz4Blit` | the datagrams, devices and frames of the model-checking instances |
| `GroovyReception_proofs`, `BlitStream_proofs`, `XdpUmem_proofs`, `ClientSession_proofs`, `InputStream_proofs`, `FpgaBlit_proofs`, `Lz4Decoder_proofs`, `Lz4Blit_proofs` | theorems about `GroovyServer` and its refinement, `BlitStream`, `XdpUmem`, `ClientSession`, `InputStream`, `FpgaBlit`, `Lz4Decoder` and `Lz4Blit`, for every value of their constants |

### GroovyServer

One TLA+ variable per C global; `poc` is a record with the fields of
`PoC_type` the handlers read (`NoPoc` stands for `nullptr`).  `raw` and `lz4`
are the two blit headers in DDR (bytes 0–7 and 32–39 of `buffer`).  `spi` holds
the commands the last step posted on the SPI bus, in order, and `reply` the
datagram it sent.  `cmd_init` is the latch of `hps_ext.v`, and `fpga_init` the
status bit that is 0 only in `S_Idle`.

A step is the handling of one datagram from `recvfrom` to the next one, unless
the code waits in between, which `pc` records:

* `pc = "init"` — `setInit` waits for S_Idle (`InitDone` goes on);
* `pc = "logo"` — `loadLogo(1)` waits for S_Idle (`LogoStart` goes on), from
  `groovy_start` and from `setClose`;
* `pc = "reconfig"` — the loss detection has copied the datagram to `recvbuf`,
  to be dispatched as a command.

`HandleCommand` has an action per command, each with the guard of
`groovy_validate_command_packet` and of its handler; `Ignore` is every early
return.  `HandlePayload` has the ends a payload datagram can come to:
`RejectPayload` (the bounds check of `groovy_copy_payload`), `LosePayload` (the
loss detection), `RawChunk`, `Lz4Chunk`, `AudioChunk`, and `SkipNoModeline`.

The environment is any subset `Packets` of `PacketType`.  It contains the lost,
duplicated and reordered histories of a real client, and those of a client that
does not follow the protocol; nothing in this module, or in the theorems about
it, assumes that a client behaves.

What is left out of the state: the input half of `poc`, the timings and PLL
fields of a modeline (a modeline is its number of pixels, its interlace byte
and whether the other fields pass the checks), statistics and logging, and the
contents of frames, which are lengths here.

### Reception and GroovyReception

`Reception` is the server as the core should see it: one frame or sound is
collected at a time; the header claims a growing part of the bytes that have come;
a frame that ends short is told as given up or not at all; a sound is handed over
when it is whole.  It knows no commands, sessions, chunks or zones.
`GroovyReception` gives the mapping: `kind`, `expected` and `got` are
`isBlitting`, the announced length and `bytes_recv`; `told` is the byte count the
header of the compression in use claims (pixels times their size for raw frames);
`played` is UIO_SET_GROOVY_AUDIO among the commands of the step.  `KeepsReception`
is the abstract specification under it.

### BlitStream

A client and a network around the server.  `net` holds the datagrams of the
client's last call; the next call is made when they are delivered or lost, since
no call waits for the server and the server sees only the order of datagrams.
`placed` remembers which datagrams were copied to the frame region since the last
BLIT, which is what the properties compare with the frame announced.

Assumed of the network: datagrams may be lost but do not overtake each other and
are not duplicated.  Assumed of payload: its first bytes do not look like a valid
command of the same length (a frame or sound datagram that is dispatched as a
command is `unknown`).  `SizesFit`, `LongRests` and `RestsDiffer` say which sizes the
theorems are about (section 4); the run has such.

### InputStream

The input half of `poc` and of the client.  Joystick and PS/2 are the same code
twice, so a device is a parameter: `digital` is the buttons or keys, `analog` the
sticks or the mouse, `DoInputs` the OSD option (0 off, 1 digital, 2 both).  A
report carries the whole state and a stamp: `PoC_frame_ddr` and the order, an
8 bit counter that `setBlit` resets.  `PollInputs` accepts a report whose stamp
is greater than that of the one it holds.  `net` is a set: reports overtake each
other and may be lost.

Events of the player and `groovy_poll` run in the same thread of MiSTer
(`user_io_poll`), so no event happens while a reception keeps the core
(`receiving`).  Commands are delivered when they are called; what a session does
to the inputs (neutralising them, reading the address of the client) is in
`gmw_init`, `gmw_close`, `gmw_bindInputs` and `StopServer`, each with the outcomes
a lost datagram gives it.  The client is the C wrapper, as RetroArch uses it.

What the server makes it may not be able to send: over AF_XDP the TX ring can be full
(`groovy_note_xdp_tx_drop`), over UDP `sendto` can fail.  The code does not look: a report
that is refused has advanced its order and started its keep-alive again, so `MakeReports`
gives it to the network or counts it as lost (`lost`).  An ACK refused by the TX ring ends
`sendACK` (1466–1471) before the keep-alives (1487–1499), so `CmdBlit` has two outcomes over
AF_XDP (`answered`), any number of refusals in a row among them; `unanswered` counts those.
Which of them happen is left open, since what fills the ring is in `XdpUmem`.  The client
never sends GET_STATUS, so a BLIT is the only occasion for a keep-alive in a session.

### ClientSession

Clients one after the other against one server.  The server is the part of
`GroovyServer` a client can see: whether a session is open, its settings, whether
it has a modeline, and to which socket ACKs go (`ackTo`), which is where UDP
(`recvfrom` fills it from every datagram) and AF_XDP (taken while no client is
connected) differ.  Commands are a queue, ACKs a set.  `faults` counts everything
that goes wrong: a loss, a crash or an end of the client, a session reopened from
an open one, an answer later than the 60 ms of `CmdInit`.  An ACK the TX ring refuses is
one that is lost.

`setInit` and `setClose` are two steps each, as in `GroovyServer`: up to the wait for
S_Idle (`pc` is "init" or "logo"), and from it (`InitDone`, `LogoStart`).  The core is
`FpgaFollows`: it leaves S_Idle or comes back as `cmd_init` tells it.  `doScreensaver` is
either; without it `setInit` does not ask the core back, and an INIT that meets an open
session waits for ever (`WaitsForEver`, the finding of `reinit_hangs`).  The queue keeps
growing meanwhile.

### XdpUmem

The stack `umem_frame_addr`, the fill, receive and transmit rings and the
completions.  `handle_receive_packets` is three steps (`Peek`, `Refill`,
`Process`) because the kernel works between them.  `Answer` posts an answer in
the frame at position `outstanding_tx` of the stack, without taking it off, and
calls `complete_tx`.  Modelled of the kernel (external, `XDP_COPY`): it fills
frames in order, copies answers when `sendto` is called and there is room for
their completions, and completes them later.

### FpgaBlit

The other side of the header.  The server is `GroovyServer` reduced to what the core
sees: its handlers compute a list `todo` of the stores and SPI commands of the code,
in order, and `Write` makes them reach the DDR or a latch of `hps_ext.v` one at a
time; a datagram is handled when the stores of the last one are done.  A number is two
bytes where the code has three (two for `numBlit`), a chunk and a frame a few words
long.

A step of the core is one clock in which its state machine does something: the states
and registers have the names of `Groovy.sv` without their prefixes (`PoC.px_vram` is
`PoC_subframe_px_vram`).  `ddr` is the word the DDR port has read and the state machine
not yet looked at, since a read takes time and the header changes meanwhile.  Of the
video module there is what the core reads: `vga.frame`, `vga.pixels`, the pixels
written to the FIFO, `vram_synced`; `vga.held` is `vga_soft_reset`.  The raster is
free: it begins a frame, is in vblank, or finds the FIFO empty at any time, except
that `Raster` waits while it is held or not started.

Left out: LZ4 blits (in `Lz4Blit`), frameskip (`hps_frameskip` = 0, no logo), the
scandoubler, interlaced regions, CLOSE (whose part here, `cmd_init` = 0, is also INIT's
with the screensaver).  The client numbers its frames upwards, as the drivers do.

### Lz4Decoder

A state of `lz4.v` is an action: `Idle`, `ReadToken`, `ReadLiterals` and so on, with
both fast paths (`ReadLiterals64`, `CopyMatches64` and `CopyMatches64_8`, a word a
clock).  `blocks` is the input buffer and `window` the last 64 KB of output; `reg` has
the registers under the names of the code, those kept twice once.  `out` is the history
of the longs that were valid, `Emitted` the bytes of it that count.  `Compress` is what
the encoder makes of a frame (external): a frame is given by its sequences of literals
and matches, and every literal is a value of its own, so a byte that comes from the
wrong place is seen.  `PrepareBurst` and `Copy` feed the buffer as
`S_Blit_Prepare_Lz4` and `S_Blit_Copy_Lz4` do.

Every size is a constant: a word of 8 bytes, a length nibble of 16 values, a buffer of
128 words and a window of 8192 become 4, 3, 2 and 4 in the instances, which keeps the
order of all of them and lets every counter wrap within a frame of thirty bytes.  The
two states `S_Read_Literals_Length_64` and `S_Read_Matches_Length_64` are not there:
they are entered when `data_64 == {64'b1}`, which is the number one and not a word of
ones, and a byte that is not 255 has ended the length before.  The byte mode
(`MODE_64` = 0) is left out.

### Lz4Blit

The state machine from `S_Blit_Header_Lz4` to `S_Delta_Copy`, the decoder and
`ddram.sv`, all driven by one clock: a step (`Clock`) takes the registers as the clock
before left them and computes the next value of each, as non-blocking assignment does.
`core` has the registers of the state machine, `ddr` its side of the port, `port` the
registers of `ddram.sv`, `pins` those of the decoder, `fb` the words of the frame buffer
in DDR and `delta_FB` the words of it a delta is added to.  `env` is everything else: the
header as it lies in DDR, the latches of `hps_ext.v`, the frame the server is sending,
`cmd_audio`, `vram_synced`.

The server is the part of `GroovyServer` that tells the core of a compressed frame:
`SendFrame` is `setBlit` (told with the first datagram; with `hpsBlit` it is `setBlitLZ4`,
told when all has come), `SendChunk` another datagram, `GiveUp` the loss detection, and
`Command` the SPI command that follows the header.  It announces a frame while the core
may still inflate the one before.

Assumed: `DDRAM_BUSY` answers a command and is not raised without one, as of a wait
request; no header is replaced in the few clocks between its read and the read of the
latches that belong to it (a command on SPI takes longer); the first frame of a client is
no delta (`m_delta_enabled`).  Of the core's pace: it is at most one frame behind when the
next is announced.  `SendFrame` has that as a guard (`core.frame_lz4 >= env.sent - 1`),
`setBlit` has no such test: a core that falls two frames behind is not modelled.

A header is read whole here.  `groovy_FPGA_blit_lz4` (935–948) stores it byte by byte, the
sizes before the frame number and each number from its low byte, and the core may read
between two stores: 256 as 0 after 255, or the size of a frame under the number of the one
before.  That is modelled of the raw header (`FpgaBlit`), not of this one, and what is said
of LZ4 frames is said of headers that are not torn.  A byte of a delta
is added without the carry being cut at 8 bits.  `numBlit` only gives a frame up.  Left
out: frameskip, raw blits and modelines (in `FpgaBlit`), interlaced regions, and the
video FIFO, which takes the same words as DDR or makes the decoder wait.

## 3. Properties and runs

| Run | Question | Bounds |
|---|---|---|
| `any` | raw and compressed sessions under any order of datagrams, against `Reception` too | 15 datagrams: two chunk lengths, a raw and a compressed INIT (RGB888, RGB565), two modelines (progressive, interlaced), sound, three raw and two compressed BLITs, GET_STATUS, GET_VERSION, CLOSE; frame numbers modulo 4; both blit modes, screensaver on |
| `stream` | frames, sound and two losses, raw and compressed | 3 frames of 2 or 3 datagrams, two modelines, two compressed sizes, one sound of two full datagrams and one of one |
| `inputs` | does the client end with what the player does, and is a report made again in time? | one joystick with sticks, two values each, over AF_XDP; 4 frames, each of which the TX ring may leave without an ACK, 2 reports of which 1 is refused or lost, 2 sockets, orders modulo 4, keep-alive of 2 frames |
| `session` | do client and server agree, and does a client that keeps trying get a session? | UDP and AF_XDP, with and without the screensaver, 2 faults, 2 frames, 3 commands on their way |
| `umem` | who has each frame of umem? | 11 frames, rings of 3, batches of 2, 4 failing `sendto`s |
| `fpga` | what does the core draw while the server writes? | frames of a full datagram and a tail of 2 bytes (6 pixels of RGB888, 3 words, bursts of 2), both blit modes, 2 frames, 2 modelines and a default one, one of: a sound, a new session, an empty FIFO |
| `lz4_decoder` | does the decoder put out what was compressed? | 4548 frames of one or two matches: 1 to 12 literals, offsets 1 to 15 in a window of 16 bytes, matches of 2 to 17; words of 4 bytes, buffer of 2 words, datagrams of 3 words |
| `lz4_blit` | does the core inflate every frame whole, whatever stops it? | two frames of 14 bytes (three datagrams; a match of whole words), deltas or not, both blit modes, one of: a sound, a frame given up, a raster without pixels |
| `reinit_hangs`, `udp_inputs`, `modeline_stuck`, `lz4_lost` | findings, below | |

`TypeOK` gives the ranges of the globals (`InputTypeOK`, `SessionTypeOK`, `UmemTypeOK`,
`FpgaTypeOK` those of the other modules).  The others:

* `PriorityWhileReceiving` — the poll loop keeps the core exactly while a
  reception is open.  `groovy_stop`, which frees `poc` and does not touch
  `isBlitting`, is safe because of it.
* `ReceptionSound` — an open reception has a session, expects at least one more
  byte, fits its region, and writes at the offset of that region and nowhere else.
* `HeaderHonest` — while the FPGA polls, the header never claims a pixel or a
  compressed byte that is not in DDR yet, and does not say 65535.
* `ChunkCountBounded` — each counted chunk brought 1472 bytes, so the 16 bit
  counter cannot wrap or reach 65535.
* `ZoneToldIsZoneWritten` — the LZ4 zone told to the FPGA, computed back from a
  counter that is already advanced, is the one written, whether the FPGA is told
  before or after the payload.
* `LogoOnlyWhenDisconnected` — the logo is not drawn over a connected client's
  frames.
* `HandlersReturn` — a handler that waits is let go (liveness; in `any`, whose
  settings have the screensaver on).
* `KeepsReception` — every step of the server is a step of `Reception` under the
  mapping or leaves its variables alone.
* `FrameIntegrity` — when the header says that a frame is complete, what lies in
  the frame region is that frame's datagrams, in order, nothing else.
* `CleanFrameCompletes`, `CleanSoundPlays` — whatever was lost before, a frame
  (a sound) that loses nothing is received whole (is played).
* `NeverGoesBack` — a report is never replaced by one sent before it.
* `LastReportHeld` — once nothing is on its way, the client holds what the player
  does, unless the last report was refused or lost; over every way to open and end a session.
* `RepeatedInTime` — the report of a device is made again after `KEEP_ALIVE_FRAMES` BLITs;
  when the TX ring has refused the ACKs of the last n BLITs it may be n more, and the first
  ACK that is taken makes up for them.  Without refusals, as over UDP, it is exactly every
  `KEEP_ALIVE_FRAMES`.  Made is not sent (`LastReportHeld` speaks of that), and a ring that
  stays full (`RingDrains` below) stops keep-alives for as long: the code has no other.
* `SessionAgreement` — a client whose `CmdInit` returned 0 has the session it asked
  for: settings, sound and the socket ACKs go to.  What makes it hold is that
  every `CmdInit` opens a socket of its own.
* `EchoIsMine`, `SoundKnownByFrame` — the status the client keeps over sessions is
  never believed for another session's frame.
* `ReconnectsOverUDP` — over UDP a client that keeps trying gets a session (liveness),
  whatever was lost, crashed or left open before; but on a server without the screensaver
  it may end in an INIT that waits for ever, which is `reinit_hangs` seen by the client.
  With the screensaver nothing is excepted: no handler waits for ever.  `Reconnects`
  asks the same of AF_XDP.
* `FramesConserved` — every frame of umem is free, lent, or holding a packet:
  exactly one of them, although the fill ring is refilled before the frames of the
  batch are freed.
* `RefillNeverWaits` — the loop "This should not happen, but just in case" does
  not happen.
* `AnswersApart` — an answer never lies in a frame the kernel may receive into.
* `DrawsWhatCame` — however the core's reads fall between the server's stores, a pixel
  is drawn for a frame only when all its bytes have come.  It rests on the order of the
  stores, pixels before frame number, low byte first.
* `OwnModeline` — a frame is drawn in the modeline it was sent for, although that one
  may wait for the raster when the frame comes.
* `VramAligned` — the FIFO holds the frame in progress from its first pixel on, whatever
  ended the frame before it, as long as the raster never found it empty.
* `FramesSettle` — a frame received whole is drawn or passed over: polling does not end
  before it and no step waits for it (liveness), if modelines are applied, which is
  `ModelinesApplied`.

* `DecodesPrefix` — at every clock what came out of the decoder is the beginning of what
  was compressed: over both fast paths, the wraps of window and buffer, and pauses.
* `DoneIsWhole` — the decoder is done only when the whole frame came out, and finds no
  error in a frame of the encoder.
* `UnreadIntact` — no word of the input buffer is overwritten before its last byte was
  read.  `lz4_write_ready` alone does not see to it (below); that a burst begins only when
  the decoder has paused does.
* `EveryFrameDecoded` — the decoder never waits for input that no burst brings
  (liveness).
* `TakesInOrder` — the core takes every long the decoder makes valid, once and in order: a
  long stays valid for one clock, and the DDR port, a read of the frame buffer or the
  video FIFO may each be in the way.
* `FramebufferWhole` — after a frame told as it came, the frame buffer holds it, or the
  frame before plus the difference.
* `InflatesItsFrame` — the core inflates the frame whose number it read, not the one
  before or after, whose size and zone may be in the latches.  The number is read whole
  here (section 2, `Lz4Blit`).
* `EndIsWhole` — a frame the core takes for inflated had all of its words taken, unless the
  raster cut it.
* `FramesEnd` — the core comes to the end of every frame: none is forgotten over a sound,
  over a pause, or over the frame that follows (liveness), unless a datagram was lost
  (`lz4_lost`) or the raster cut a frame (`EndChecksPixels` below).

**Why these bounds.**  Everything the reception does depends on how a length
compares with 1472, 26 and the length announced.  A frame of two full chunks and
a tail reaches every case (a first, a middle and a last chunk; short and full;
too long), two modelines make the announced length change, and two or three frame
numbers suffice for "same as the last one" or not.  `FrameIntegrity` is checked with
two losses because that is its real bound: a stream without sequence numbers
cannot tell the halves of two frames apart when as many datagrams are lost as a
frame has (three losses swap them, with frames of two chunks and their BLIT).

In `InputStream` a property relates two reports at a time, the one that comes and the one
that is held, of one session or of two; four frames are an order that restarts under a
report on its way, and two keep-alive periods of which one is late by refusals.  Orders
modulo 4 stand for modulo 256 as long as fewer are used between two BLITs (`Wraps` =
FALSE).  Three reports and two frames pass as well (2.7 million states).  In `ClientSession`
a fault more costs a client one attempt, so `MaxFaults` + 1 attempts are always enough; two
are a session left open and a loss on the way out of it.  Three faults, one frame and a
queue of two pass as well (885,416 states).  In `XdpUmem` frames are interchangeable; rings
of 3 and batches of 2 (the code has 65536 frames, rings of 2048 and batches of 1) reach a
full and an empty ring, a batch in the middle, and answers beyond the transmit ring.

In `FpgaBlit` a datagram is no whole number of pixels or words, and a frame no whole
number of words, as 1472 bytes and most modelines are not; three words are a full
round of the RGB888 decoder.  With bytes of three values every number of the instance
changes both its bytes, so that a torn read gives a number that was never written.
Two frames give a late one, a skipped one and one that follows a cut one.  With three
frames the safety properties hold as well (6.7 million states, too many for
`FramesSettle`).

In `Lz4Decoder` the frames are those on which the paths differ: literals around the token
limit, a length byte and two words; matches at every alignment, nearer and farther than a
word, and across the wrap of the window.  `MCLz4Blit` has four words where the core has
half a million, the last one not whole, a delta that reads the frame buffer twice, and two
frames because a third begins like the second.

**Fairness.**  `FairSpec` has weak fairness of `Resume` (the server thread goes
on once what it waits for has happened) and of `FpgaStep` (the FPGA is clocked).
Nothing is assumed of the client or of the network: a reception may stay open for
ever, and the code then keeps the core for ever.  `SessionSpec` has weak fairness of
`Serve` and `Resume` (the poll loop runs for ever), of `FpgaFollows` (the core is clocked,
and does what `cmd_init` says), of `Listen` and `InitTimeout` (`getACK` polls
until an ACK or the end of its 60 ms) and of an idle client that starts again, which
is what `Reconnects` is about.  `FairUmemSpec` has it of every step of the server and
of the kernel, answers included: even with answers that always come, a ring that is
full stays full.  `FairBlitSpec` has weak fairness of `Write` and `InitDone` (the server
finishes a handler), of the core's clock (`FpgaNext`) and of the raster, and strong
fairness of `DispatchSwitchres`: the raster passes the end of the picture in every frame,
so a modeline that is due for ever is taken at some such moment.  Nothing is assumed of
the client.  `FairLz4Spec` has weak fairness of the decoder, of the bursts and of the
datagrams of the frame.  In `FairLz4BlitSpec` it is `GoodClock` that comes again and again:
a clock in which the DDR port answers, the video FIFO has room and a sound is over, as the
memory controller, the raster and the length of a sound have it; and the server finishes a
frame it began to tell (`SendChunk`, `Command`), or gives it up.

**Deadlock** is checked in the runs under an arbitrary environment.  The streams
stop after `MaxFrame` frames, so their configurations switch the check off, and so do
those of `InputStream`, `ClientSession` and `FpgaBlit`, which stop at the bounds on
reports, sockets, faults and frames, `Lz4Decoder`, which stops when a frame is done, and
`Lz4Blit`, and `reinit_hangs`, where the hang is the finding.
`umem` checks it.

### Findings

* `reinit_hangs` — `setInit` waits for S_Idle but asks the FPGA back there only
  when the screensaver is enabled.  With it disabled, a second INIT hangs the poll
  loop.  `any` has the same property with the screensaver, and it holds.  In `session` a
  crash, a lost CLOSE or a repeated INIT leads there, and no later client is served:
  hence the exception in `ReconnectsOverUDP`.
* `udp_inputs` — over UDP inputs are never reported: the server looks for the address
  of the inputs during INIT, and INIT closes the socket that has it.
* `modeline_stuck` — a modeline sent while the raster is held by the one before it, and
  after a frame of which nothing was drawn, is never applied: it waits for the raster,
  the raster for a blit, and the blit of the next frame for the modeline.  A frame whose
  payload was refused by `groovy_copy_payload` is enough.
* `lz4_lost` — a compressed frame that loses a datagram after the core has begun it never
  ends, nor does any frame after it: the core looks at the bytes, which are told as all
  come, before the 65535 that gives the frame up; the decoder stops short, and the header
  of every later frame is answered with "finish current frame before new one".

Disagreements that have no run of their own; the definitions are in the modules, and the
run named shows them when the property is added to its configuration:

* `CleanFrameCompletes` (`stream` with `Sizes` = {2956}, a tail of 12 bytes) — when the
  lost tail of an LZ4 frame is as long as a BLIT command, `groovy.cpp` 2432–2450 takes the
  next command for it: the frame is declared complete with a command in its bytes, and the
  next one, of which nothing was lost, is dropped as unknown commands.
* `Reconnects` (`session`) — over AF_XDP the address of the answers is taken only while no
  client is connected (`groovy.cpp` 2750).  An INIT served after its client gave up leaves
  a session of nobody, and INITs of later clients are answered to the closed socket for
  ever, where `groovymister_wrapper.h` 143 speaks of a connection that fails.
* `UnreadIntact` (`lz4_decoder` with `ReadySpec`) — `lz4_write_ready`, "fifo is free"
  (`lz4.v` 33), is true as soon as one byte of a full buffer was read; a word written then
  goes over seven unread ones.  The core never writes then.
* `TakenIsWritten` (`lz4_blit` with `BlitSettings` = {FALSE}) — a sound that comes in the
  last clocks of a burst lets `S_Blit_Inflate_Lz4` take a long and go on in the same clock;
  `S_Blit_End_Lz4` clears `ddr_data_write` (`Groovy.sv` 1433) although DDRAM may be busy,
  and eight bytes of the frame buffer keep what they held.
* `EndChecksPixels` (`lz4_blit`) — the end of a frame that the raster cut resets the decoder
  and runs it in the same clock; in `lz4.v` the run branch comes after the reset and wins,
  the decoder takes all as read, and the next frame finds `lz4_done` at its first
  `S_Blit_End_Lz4` ("Check if all pixels are writed", `Groovy.sv` 1427).  With words of 8
  bytes and a first frame of 3 literals and a match of 8 that is cut while the decoder reads
  the length of the 7 literals behind, it leaves more read than was written:
  `lz4_write_ready` is an unsigned difference and false from then on, and the next frame
  waits in `S_Blit_Prepare_Lz4` until a sound comes (`FramesEnd` without `Calm`).  The four
  byte words of the run are too short for it.
* `OwnLatches` (`lz4_blit` with `BlitSettings` = {TRUE}) — `groovy_FPGA_blit_lz4` stores the
  frame number before the command that carries its size, zone and delta (`groovy.cpp` 946,
  950).  With `hpsBlit` the header claims all bytes at once, and a core that polls between
  the two inflates the old zone again under the new number.  (The definition is of a
  frame in progress: what has just ended keeps its input until the reset of the next clock.)
* `NotInitializedRejected` (`any`) — the reason `not_initialized` tests `poc`, which
  exists before INIT.
* `SwitchresCleansPixels` (`any`) — "clean pixels on ddr" clears bytes 4–7, the pixel
  count is bytes 3–5.
* `LossIsTold` (`stream`) — two losses end a reception in the bounds check, before the
  loss detection, and the FPGA is left polling.
* `LastReportHeld` (`inputs` with `Wraps` = TRUE) — while no frame is sent the order wraps
  after 255 events, and the client refuses what follows until the next frame; with
  `hpsBlit` = 1 a frame cut by a loss restarts the order but not the frame of the stamp,
  with the same effect.
* `SoundKnownAfterInit` (`session`) — the status in the ACK of INIT is never taken.
* `RingDrains` (`umem` with `FairUmemSpec`) — a full transmit ring skips the call that
  empties it; ACKs, reports and keep-alives are then refused for good, the case that
  `unanswered` counts in `InputStream`.
* `GivenUpIsNotDrawn` (`fpga`) — the loss detection announces a frame given up with all of
  its pixels and 65535 chunks; the core sees the pixels first, takes the frame for
  complete (`Groovy.sv` 982–989) and draws what lies in the DDR.
* `VramAligned` without `used.starved = 0` (`fpga`) — after the FIFO ran empty the rest of
  the frame in progress is drawn from the top; the next frame is right again.
* A modeline overtaken by another before the raster lets it be applied is never applied,
  and the frames between the two are drawn in the one before: the core has one latch.

## 4. Proofs

For every set of datagrams, every setting and every modulus of the frame numbers
(`GroovyReception_proofs`), for any modelines, sizes and number of frames that keep the hypotheses below (`BlitStream_proofs`), for rings and batches of any size
(`XdpUmem_proofs`), for any number of faults, attempts and frames
(`ClientSession_proofs`), for any devices, values and number of reports
(`InputStream_proofs`), for any size of pixel, chunk, burst, header byte and modeline
(`FpgaBlit_proofs`), for any size of word, ring, window and datagram and any frames of LZ4
(`Lz4Decoder_proofs`), and for any number of frames, sounds, cuts and losses
(`Lz4Blit_proofs`):

| Theorem | States |
|---|---|
| `TypeCorrect` | `Spec => []TypeOK` |
| `ReceptionSafe` | `Spec => []ReceptionSound` |
| `PrioritySafe` | `Spec => []PriorityWhileReceiving` |
| `HeaderSafe` | `Spec => []HeaderHonest` |
| `ChunkCountSafe` | `Spec => []ChunkCountBounded` |
| `LogoSafe` | `Spec => []LogoOnlyWhenDisconnected` |
| `ZoneSafe` | `Spec => ZoneToldIsZoneWritten` |
| `ReceptionImplemented` | `Spec => KeepsReception` |
| `CleanFrames` | `StreamSpec => CleanFrameCompletes`, if `SizesFit` and `LongRests` |
| `CleanSounds` | `StreamSpec => CleanSoundPlays`, under the same hypotheses |
| `FramesKeepTheirPixels` | `StreamSpec => FrameIntegrity`, if also `RestsDiffer` and `MaxLosses <= 2` |
| `UmemTyped` | `UmemSpec => []UmemTypeOK` |
| `FramesSafe` | `UmemSpec => []FramesConserved` |
| `RefillSafe` | `UmemSpec => []RefillNeverWaits` |
| `AnswersSafe` | `UmemSpec => []AnswersApart` |
| `SessionTyped` | `SessionSpec => []SessionTypeOK` |
| `AgreementSafe` | `SessionSpec => []SessionAgreement` |
| `EchoSafe` | `SessionSpec => []EchoIsMine` |
| `SoundSafe` | `SessionSpec => []SoundKnownByFrame` |
| `InputTyped` | `InputSpec => []InputTypeOK` |
| `RepeatSafe` | `InputSpec => []RepeatedInTime` |
| `NeverBackSafe` | `InputSpec => NeverGoesBack`, if `hpsBlit = 0`, `~Wraps` and `OrderMod > 1` |
| `LastHeldSafe` | `InputSpec => []LastReportHeld`, under the same hypotheses |
| `FpgaTypeCorrect` | `BlitSpec => []FpgaTypeOK` |
| `VramStaysAligned` | `BlitSpec => []VramAligned` |
| `DrawsOnlyWhatCame` | `BlitSpec => DrawsWhatCame` |
| `DrawnInOwnModeline` | `BlitSpec => OwnModeline` |
| `Unread` | `Lz4Spec => []UnreadIntact`, if `EncodesFrames` |
| `DecodedPrefix` | `Lz4Spec => []DecodesPrefix`, if also `EncodesBlocks` |
| `DecodedWhole` | `Lz4Spec => []DoneIsWhole`, under the same hypotheses |
| `Inflates` | `BlitSpec => []InflatesItsFrame` (of `Lz4Blit`) |
| `Taken` | `BlitSpec => TakesInOrder`, if `EncodesPixels` |
| `EndWhole` | `BlitSpec => EndIsWhole`, if also `EncodesEach` |
| `FramebufferKept` | `BlitSpec => []FramebufferWhole`, under the same hypotheses |

**The server.**  The invariant is `IInv`: `TypeOK`, the two reception properties and
`RedispatchSound` (a datagram is dispatched out of `recvbuf` only outside a
reception; without it the dispatch of a command after a loss could open a
reception inside another).  `ReceptionSound` alone is not inductive: that
`groovy_stop` and `groovy_start` run outside a reception is
`PriorityWhileReceiving`.  The other theorems add to `IInv`:

* `HInv` — both header properties together.  A chunk that leaves the reception
  open is not short (else the loss detection had ended it), hence 1472 bytes, so
  `numBlit * 1472 <= bytes_recv < 1658880` and the counter stays below 1127; the
  pixel count is a quotient rounded down.
* `LInv` — a client is connected only while the server runs, and the wait for the
  logo has none.
* `ZInv` — during an LZ4 frame `buffer_offset` is the zone before `field_lz4`.

**The refinement.**  `RInv` adds three facts to `HInv`.  `WholePixels`: a frame is a whole
number of pixels, so the pixels told at its end are all of its bytes.  `Untold`: of a frame
that is told only when it is whole (`hpsBlit`), the counters that remember what was told
are 0, so the end does tell it.  `Silent`: a step that leaves a reception open has posted
no sound, so the next step of `Reception` that plays is the one that completes it.  Each
action then has a lemma that names the abstract step it takes (`...Refines`), and
`RefinementStep` collects them.

**The stream.**  Every step of `BlitStream` is a step of the server or leaves it alone, so
`RInv` holds there too; the rest is about what is on the network.  `CleanInv` says that a
command to come announces exactly the datagrams behind it (`CallOK`), and that the
datagrams to come of a call that lost none are the rest of the payload being received
(`PayloadOK`: as many bytes have come as the next datagram's index says, and they are in
their places).  What was lost before does not matter, because a command that comes during
a reception is the loss detection's (`CommandIsLoss`) and is dispatched as a command
afterwards: every command is handled with no reception open.

`FrameIntegrity` needs a count of the losses, `OpenOK`, for an open reception of a frame.
It is of the call under way (`Own`: of its first `j` datagrams `Len(placed)` were placed,
so `j - Len(placed)` were lost, one more if the modelines disagree), or the command of the
next call is to come (`Behind`: two losses, or one and less than a datagram to come), or that
command was lost as well (`Overrun`: two losses, and what comes next is a payload from its
first datagram on).  A reception of `Own` that ends has all its datagrams, and a
reception of `Overrun` cannot end: what it lacks is the length of a frame's last datagram, and
nothing of that length comes.

The hypotheses are about sizes.  `SizesFit`: every payload fits its region.  `LongRests`: no
payload ends with a datagram of 26 bytes or less; without it a command is taken for the end
of a frame (`CleanFrameCompletes` under "Disagreements" above).  `RestsDiffer`: a frame takes
two datagrams or more and the last is not full; modelines differ in the length of the last;
no sound of one datagram has that length.  LZ4 sizes may agree in it.  Each is needed: with
frames of three full datagrams (`Modes` = {1472}), with a sound of 1448 bytes, or with three
losses, TLC finds a frame announced as complete with another's datagrams in it.
`MCBlitStream` asserts that the sizes of the run keep the three.

**umem.**  `UmemInv` is `Typed /\ Balance /\ Answers /\ Once /\ OneOwner`.  `Balance` is
why the stack of free frames neither runs out nor overflows: a frame comes back to the
fill ring for every packet of a batch before the batch is processed, so exactly
`RingSize` frames are lent outside a batch.  `Answers` is why an answer found by counting
lies in nobody else's frame: the bottom `2 * RingSize` entries of the stack never move, and
no more than that many answers are under way.  `Once` and `OneOwner` say position by
position what `FramesConserved` says of sets.

**Sessions.**  Why a late answer is never taken for another: every attempt of `CmdInit`
opens a socket no message has named before.  `Waiting` says what that gives until the
attempt ends: the only command from the socket is the INIT, last in the queue; an answer
to the socket answers that INIT, and then the queue is empty.  `Following` says it of a
client that is connected: all that is on its way to the server, and every answer to the
socket, is of this session.  `SessionAgreement`, `EchoIsMine` and `SoundKnownByFrame` are
inductive with those two.

**Inputs.**  `Ticking`, the count of each device between two BLITs, needs the types and
one thing the property does not say: the count of a device that is not reported is 0, or it
would be overdue when its client comes.  A BLIT whose ACK is refused adds one to both sides
of it; one whose ACK is taken sets the excess to 0, and every count that has reached
`KeepAliveFrames`, however late, starts again.
The other two rest on stamps that grow with the reports: `Ordered` says it of what is on
its way to the client's socket and of what the client holds, `Bounded` that nothing is
stamped later than the server is, `Growing` that a BLIT, or one event more, gives a
greater stamp, and `LastKept` where the last report of a device is.  They are about one
socket of the client: an INIT closes it, and the server's stamps start again.
Where the hypotheses fail the properties do: the two counterexamples are under
`LastReportHeld` above.

**The core and the header.**  A handler of the server leaves a list of byte writes, and
the core may read the header between any two of them, so `FpgaInv` says what each number
in the DDR may be while some of its bytes are old.  `HpsOK` is the server's half,
`TodoOK` the order of what is still to write (`Rank`: pixels and chunks, then the frame, then
the SPI command, each number from its low byte up).  `FrameOK` and `PixelsOK` are the heart:
a byte that is not in the list is already the new one, and a number of which the low byte
is new and the high byte old does not pass the number it becomes, as long as the old one
did not (`TornNumber`).  The pixels may pass it while a new frame is being told, since the
header still has those of the frame before; the frame's own number is then older.  `ReadOK` carries that to the word the DDR port has
read and the state machine not yet looked at, `DrawnOK` to the registers loaded from it,
and with them `DrawsWhatCame` is about one step, `CopyRaw`.  `ModelineOK` follows a modeline
from the list to the DDR, the latch, the word read and the video module: at every moment
either one of those still has it or `vga.pixels` is it; `DrawnOK` adds that a frame in
progress is not later than a modeline in the latch, so the dispatcher cannot have begun it
before.  `AlignedOK` is `VramAligned` with what it needs of a frame not begun: the FIFO is
then empty or holds a whole frame.

The proof of `AlignedOK` did not go through at first, and TLC showed why with frames of a
whole number of words: the model counted the word after the last pixel as a pixel written,
where `vram_wren` (`vga.v` 449–497) is low.  `CopyRaw` now counts only pixels.

**The input buffer of the decoder.**  `UnreadIntact` is not inductive: a burst of which a
word is still to come would overwrite what it says is unread.  `Lz4Inv` adds `BurstFits`:
a burst goes on where the last one ended, and all of it has room above what was read.  It
begins only when the decoder has paused with everything read (`PrepareBurst`), it is never
longer than the buffer (`BurstBound`), and no state of the decoder takes back what it
read (`Reads`, one case for each).  So the place a word goes to is that of no unread word:
the two numbers differ by less than the size of the ring (`ModDiffers`).  The decoder may
also read past what was written, the length of a long run of literals does; then nothing is
unread, and `lz4_write_ready`, an unsigned difference, lets no word in any more.  The
hypothesis `EncodesFrames` says that what the encoder made is a sequence of bytes;
`Compress` is a fold, of which the prover knows nothing, and `MCLz4Decoder` asserts it of
the frames of the run.

**What comes out of the decoder.**  The invariant `Decoded` has two halves.  `Where` says by
the decoder's state where it is in a sequence of the frame: which of its bytes were read,
how much of its literals or of its match is still to come, what `ML`, `LL`, `MP` and `offset`
hold.  `OutAt(a, x)` says that `reg.addr` bytes of the frame, `a` words and `x` bytes, are out:
the whole words in `out`, the last `WindowSize` of them in the window at their places, and the
`x` bytes of the word begun in `window_data`.  The rest of `window_data` matters as well: it
still holds the last word completed, which `S_Copy_Matches_64_8` repeats and from which a copy
by bytes takes what lies less than a word back.  The decoder chooses between a byte and a word
at a time by guards on registers, and each choice has its own reason to be right.  A word of
literals is read whole because the bytes of it are all in the buffer and are all literals
(`Literals64Steps`).  A word of a match is one whole word of the window only if that word
was written before and will not be written again before it is read: `InWindow`, `MatchWord`.
The last word repeats because `offset` is a period of a match from its first byte on
(`Period`, `LastBytes`), also where the repeated bytes themselves are of the match.  There is
a lemma for a clock of each state, and `DecodeSteps` collects them.  They ask of the decoder's
surroundings only `Fed`: that the words not read yet are the frame's and that the size in the
pins is its size; a pause and a clock without `lz4_run` change nothing of it (`DecodedRests`).

`EncodesBlocks` says that a frame is LZ4: it consists of sequences (`IsBlock`, `IsMatch`), each
a token, the literals with their length, and the offset and length of a match that begins in
what came before and in the window, and the last without a match.  Where a sequence begins is
the length of what `Compress` makes of those before it.  `IsBlock` asks one thing more, which
the code needs and the format does not promise: the length of a run of literals does not end
with a byte of 1, the last seven bytes of its word being zeros.  `lz4.v` 205 means
to ask for a word of ones, asks for the number one, and would skip those zeros (`LengthWord`).
The literals it would take are seven zeros at the begin of a run of 16 or more; the encoders of
`src/api/lz4` look for a match at each of the first bytes of a run, and take such zeros for a
match at offset 1.  `MCLz4Decoder` asserts `EncodesBlocks` of the frames of the run, whose
literals are no bytes of a length.

**The latches of a frame.**  `BlitInv` follows a header from the port to the begin of its
frame.  `PortOK`: a read is under way only in a state that waits for it, so the word that
`S_Blit_Header_Lz4` finds is one it asked for (`HeaderOK`), of a frame not before the one
in progress and not after the one announced last, which it is when nothing is in progress.
`PinsOK` says when the decoder may be reset or given a word, hence when the bytes written,
by which the core tells a frame begun from one to begin, may change.  `LatchesOK` is the
property with that: from a begin to its end, over sounds, waits and headers of later frames,
the latches the core took are those of the frame whose number it took.

**The longs the core takes.**  A long is valid until the decoder runs again, and the decoder
counts bytes (`reg.bytes`) where the core counts words (`core.wr`).  `TakenOK` compares the
two: outside a reset the decoder is at most one long ahead, and only by a long that is still
valid.  It holds because the decoder runs on from a valid long only when its stop pin is low,
which no state but `S_Blit_Inflate_Lz4` leaves it (`StoppedOK`), and because the pin also
sees the two things that keep that state from taking the long, a write the DDR port has not
accepted and a read of the frame buffer for a delta (`Stop`); `Stop_NotBusy` leaves out the
first and is the mutant of the run.  What remains is the begin of a frame.  The decoder is
reset over one clock or more, and a long the frame before left valid must not be taken for
one of this frame, so that a frame nothing was written of has nothing taken (`StartedOK`).
That needs a chain of its own: the core goes to `S_Blit_Inflate_Lz4` only over a burst that
brought a word, the words of that burst are of the zone (`ZoneOK`), the decoder reads nothing
before the first of them is written (`NothingRead`), and it would do so only for a frame of no
bytes, which the latches of a frame sent never are (`FilledOK`).  The last is the hypothesis
`EncodesPixels`: frames have pixels and the encoder makes at least a byte of each, which
`MCLz4Blit` asserts of the frames of the run.

**The words of a frame.**  That a frame taken for inflated was taken whole joins both halves:
`Decoded`, of any frame the core begins, and `TakenOK`.  `WholeInv` is what lets the state
machine of the core stand in for the bursts of `Lz4Decoder`.

* From the state machine to the decoder: the words written are those of the frame, in order,
  and none over one that is not read (`RingOK`).  The burst asked for goes on where the words
  written end, and every word of it is on its way through the port (`port.dout`), the pin
  (`pins.word`) and the buffer, at most one in each: `BurstOK` and `WordOK` say which word is
  where and that there is room for all that are still to come.  There is room because the core
  asks for a burst only when everything written was read (`DryOK`): it gets back to
  `S_Blit_Prepare_Lz4` when the decoder has paused, or from a sound or a read for a delta, from
  which it goes on with the inflating before it asks (`Resumes`).  The header is looked at in
  between, and may be that of a later frame; the begun one keeps its latches, as it needs
  (`FrameOK`).  Where the decoder has read past the end, nothing more is written, and nothing
  has to be said of the words (first disjunct of `WordOK` and `BurstOK`).
* From the decoder to the state machine: a frame in progress is `Decoded`, from the clock of
  its reset (`DecodedBegun`) to that in which the decoder is done; the decoder was idle before
  (`IdleOK`), because between two frames it is reset from `S_Done_64` and then has nothing to
  read (`ResetClock`, `IdleClock`).
* At the end the decoder is done, so `reg.bytes` is the size of the frame and no long is valid.
  By `TakenOK` the core has taken what was put out, or has counted all pixels; by `UpperOK` it
  took no long of which the decoder had not put out a byte; so `core.wr` is `Words`.

All of that holds until the raster finds no pixel or a frame is given up (`Calm`): then the
core resets the decoder in the middle of a frame, and what follows is `EndChecksPixels`, a
comment of the code that does not hold.  `EncodesEach` is `EncodesBlocks` for the frames of
this module: of every shade, and all of the size of the modeline (`IsFrame`).

**The frame buffer.**  `BufferInv` says of every word of the frame buffer what it is at every
clock, not only between frames: the first `core.wr` words are those of the frame begun, added
to the frame before if it is a delta, the others are still those of the frame before
(`MemoryOK`).  A word counts as there from the clock that orders its write: `Stored` looks
first at the order of the core, then at the write the port has accepted, then at the memory, and
a clock of the port only moves a word from one to the next (`PortStores`).  An order would be
lost if the core left `S_Blit_Inflate_Lz4` with it, since every other state drops it
(`ddr.write` in `S_Dispatcher` and `S_Blit_End_Lz4`) or reads.  That it does not is `RunsOK`: the
core leaves only when the decoder is stopped, and a decoder that is stopped has no long left to
take, or is to wait for a delta.  This in turn is a matter of the decoder's states, that one which
pauses waits for the same byte until it comes (`Wants`, `WaitsOn`), and it is where a sound
would come in: `TakenIsWritten`, a comment of the code that does not hold.

Which value a word gets takes three more parts.  `LongOK` adds to `Decoded` the content of the
long that is out (`LongIs`), the bytes of the frame at the place that `TakenOK` gives it.
`OwnOK` says that the frame begun is the one announced under its number, and a delta when that
one is: a frame is announced only when the core is at most one behind, so that `Named` stays.
`AddedOK` and `RefillOK` say what a delta is added to: `delta_FB` holds from `core.index` on the
words of the frame before that follow those taken; a burst fills it again when its last word was
used, of as many words as the frame has left (`DeltaWords`; what the rest of `delta_FB` holds is
past the end of the frame, `DeltaReach`), and the words it reads are not those being written,
since no write is under way then (`WritesOK`).  A frame that is no delta is added to word 0
alone, which its begin has cleared.  At the end of a frame all of its words were taken
(`EndWhole`), so that what is stored is what the frame leaves; between frames nothing is on its
way, and what is stored is in memory (`BufferWhole`).

Assumptions: the datagrams are of `PacketType`, the settings are 0 or 1,
`NoPoc` and `NoPacket` are not sessions and datagrams, the moduli are positive; of umem,
`NumFrames >= 3 * RingSize + BatchSize` (the code has 65536 frames, rings of 2048 and
batches of 1); of the core, a header byte has at least two values and a word eight bytes.
Of the decoder, all sizes are positive and a datagram is whole words (1472 = 184 * 8).
Those of `ClientSession` and `InputStream` only give their constants types.

Every invariant and action property of the passing runs is a theorem.  Only model-checked: the
liveness properties `HandlersReturn`, `ReconnectsOverUDP`, `FramesSettle`, `EveryFrameDecoded`
and `FramesEnd` (fairness is out of the prover's reach); and `EncodesFrames`, `EncodesBlocks`,
`EncodesPixels` and `EncodesEach`, which are about a fold over the sequences of a frame, of any
number of them, and the prover has no induction for it.  The runs assert them of their frames.

## 5. Plan

Done: `GroovyServer`, `BlitStream`, `InputStream`, `ClientSession`, `XdpUmem`, `FpgaBlit`
for raw blits, `Reception` and the proof that the server implements it, the proofs of
`BlitStream`, `XdpUmem`, `ClientSession`, `InputStream` and `FpgaBlit`, `Lz4Decoder` with the
proof that it decodes every frame of LZ4, `Lz4Blit` and the proofs of what it promises of the
decoder's input and output and of the frame buffer.  Next, in this order:

1. Frameskip (`S_Blit_Auto_...`, `Groovy.sv` 807–829 and 1069–1124): a frame drawn again
   when the next one is late.
2. `BlitStream` with deltas and interlaced modes, and with datagrams that overtake each
   other or come twice.
3. `ClientSession` with a CLOSE that is delayed past the next INIT, and frame numbers that
   wrap at 24 bits.
4. `ClientSession`, `FpgaBlit` and `Lz4Blit` against `GroovyServer`: the server's part of
   each as an abstraction that `GroovyServer` implements.

## 6. Not modelled

PLL arithmetic (floating point), pixel timing and clock domains, the scancode and
PLL tables, sockets, MTU and GMC file upload (I/O), RetroArch glue, vendored
libraries and the MiSTer framework under `sys/`.  Of `lz4.v` the byte mode, which the core
does not instantiate; of `ddram.sv` nothing.  The scan out of `vga.v` and the sample timing of
`sound.v` are counters at the rate of a clock that nothing here depends on: the models let
the raster and a sound take any time.
