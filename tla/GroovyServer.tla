----------------------------- MODULE GroovyServer -----------------------------
(***************************************************************************)
(* The HPS server of the Groovy core (support/groovy/groovy.cpp): one      *)
(* thread that polls a UDP socket, keeps the state of the session in poc   *)
(* and a few globals, copies payload into the DDR it shares with the FPGA  *)
(* and posts commands on the SPI bus.                                      *)
(*                                                                         *)
(* The environment is arbitrary: any datagram of Packets may arrive at any *)
(* poll, whatever was sent before, so a lost, duplicated, reordered or     *)
(* foreign datagram is just another arrival.  An action is the handling of *)
(* one datagram up to its end, or up to a point where the code waits: for  *)
(* the FPGA to leave or reach S_Idle, or for the command it has just       *)
(* copied to recvbuf to be dispatched.                                     *)
(*                                                                         *)
(* The joystick, keyboard and mouse half of poc is not here.               *)
(***************************************************************************)
EXTENDS GroovyDefs, Sequences

CONSTANTS
  Packets,      \* the datagrams that may arrive
  BlitSettings,        \* what the OSD options may be set to: hpsBlit
  ScreensaverSettings, \* and doScreensaver
  VgaFrames,    \* frame counters the FPGA may report
  FrameMod,     \* frame numbers are counted modulo FrameMod (2^32)
  DdrFrameMod,  \* and modulo DdrFrameMod in the DDR headers (2^24)
  NoPoc,        \* poc = nullptr
  NoPacket      \* recvbuf holds nothing to dispatch

ASSUME PacketsAssumption == Packets \subseteq PacketType /\ NoPacket \notin Packets
ASSUME SettingsAssumption ==
  BlitSettings \subseteq {0, 1} /\ ScreensaverSettings \subseteq {0, 1}
(* The part of PoC_type that is modelled. *)
PocType ==
  [frame_recv : Nat, frame_ddr : Nat, FB_progressive : {0, 1},
   buffer_offset : Nat, bytes_len : Nat, pixels_len : Nat, bytes_recv : Nat,
   pixels_ddr : Nat, field_frame : Nat, field : {0, 1}, bytes_audio_len : Nat,
   bytes_lz4_len : Nat, bytes_lz4_ddr : Nat, field_lz4 : 0 .. 3,
   delta_lz4 : Uint8]

ASSUME NoPocAssumption == NoPoc \notin PocType
ASSUME FramesAssumption ==
  /\ FrameMod \in Nat \ {0} /\ DdrFrameMod \in Nat \ {0}
  /\ VgaFrames \subseteq Nat

VARIABLES
  groovyServer,    \* 0 stopped, 1 DDR mapped, 2 sockets bound
  hpsBlit,         \* settings read by groovy_FPGA_hps at start
  doScreensaver,
  groovyLogo,      \* the poll loop animates the logo in the frame region
  poc,             \* session state, or NoPoc
  isConnected,
  blitCompression, audioChannels, rgbMode,     \* chosen by INIT
  isBlitting,      \* 0 commands, 1 receiving a frame, 2 receiving audio
  isCorePriority,  \* 1: the poll loop does not return to the main loop
  usingOldBlit,
  numBlit,
  pc,              \* "poll", or where the handler of a datagram waits
  recvbuf,         \* the datagram to dispatch when pc = "reconfig"
  raw, lz4,        \* the two blit headers in DDR, read by the FPGA
  spi,             \* SPI commands posted by the last step, in order
  reply,           \* datagram sent to the client by the last step
  cmd_init,        \* FPGA latch set by UIO_SET_GROOVY_INIT
  fpga_init        \* what UIO_GET_GROOVY_STATUS reports: 0 only in S_Idle

session == <<poc, isConnected, blitCompression, audioChannels, rgbMode>>
setup   == <<groovyServer, hpsBlit, doScreensaver>>
blit    == <<isBlitting, isCorePriority, usingOldBlit, numBlit>>
headers == <<raw, lz4>>
fpga    == <<cmd_init, fpga_init>>
vars    == <<setup, groovyLogo, session, blit, pc, recvbuf, headers, spi, reply,
             fpga>>

ZeroPoc ==
  [frame_recv |-> 0, frame_ddr |-> 0, FB_progressive |-> 0,
   buffer_offset |-> 0, bytes_len |-> 0, pixels_len |-> 0, bytes_recv |-> 0,
   pixels_ddr |-> 0, field_frame |-> 0, field |-> 0, bytes_audio_len |-> 0,
   bytes_lz4_len |-> 0, bytes_lz4_ddr |-> 0, field_lz4 |-> 0, delta_lz4 |-> 0]

RawType == [frame : Nat, pixels : Nat, numBlit : Uint16]
Lz4Type == [frame : Nat, bytes : Nat, numBlit : Uint16]

ZeroRaw == [frame |-> 0, pixels |-> 0, numBlit |-> 0]
ZeroLz4 == [frame |-> 0, bytes |-> 0, numBlit |-> 0]

NoReply  == [type |-> "none", frame |-> 0]
Ack(f)   == [type |-> "ack", frame |-> f]

-----------------------------------------------------------------------------
(* Helpers *)

(* groovy_payload_length and groovy_payload_capacity *)
PayloadLength ==
  IF poc = NoPoc               THEN 0
  ELSE IF isBlitting = 2       THEN poc.bytes_audio_len
  ELSE IF blitCompression # 0  THEN poc.bytes_lz4_len
                               ELSE poc.bytes_len

PayloadCapacity ==
  IF isBlitting = 2            THEN AudioSize
  ELSE IF blitCompression # 0  THEN LZ4Size
                               ELSE FrameRegionSize

(* groovy_payload_bounds_valid: the copy stays inside what was announced.   *)
(* buffer is mapped from groovy_map_ddr to groovy_stop.                     *)
PayloadBoundsValid(len) ==
  /\ groovyServer # 0 /\ poc # NoPoc /\ isBlitting # 0 /\ len # 0
  /\ 0 < PayloadLength /\ PayloadLength <= PayloadCapacity
  /\ poc.bytes_recv + len <= PayloadLength
  /\ HeaderOffset + poc.buffer_offset + PayloadCapacity <= BufferSize

(* A wrong groovy_FPGA_blit: a pixel counts as soon as it has begun. *)
FPGA_blit_RoundsUp(q, bytes, nb) ==
  /\ poc' = [q EXCEPT !.pixels_ddr = (bytes + Bpp(rgbMode) - 1) \div Bpp(rgbMode),
                      !.frame_ddr  = q.frame_recv]
  /\ raw' = [frame |-> raw.frame, pixels |-> poc'.pixels_ddr, numBlit |-> nb]
  /\ spi' = <<>>
  /\ lz4' = lz4

(* groovy_FPGA_blit(bytes, nb) on the session state q *)
FPGA_blit(q, bytes, nb) ==
  /\ poc' = [q EXCEPT !.pixels_ddr = bytes \div Bpp(rgbMode),
                      !.frame_ddr  = q.frame_recv]
  /\ raw' = [frame   |-> IF q.frame_ddr # q.frame_recv
                         THEN q.frame_recv % DdrFrameMod ELSE raw.frame,
             pixels  |-> bytes \div Bpp(rgbMode),
             numBlit |-> nb]
  /\ spi' = IF q.frame_ddr # q.frame_recv THEN <<[op |-> "BLIT"]>> ELSE <<>>
  /\ lz4' = lz4

(* Wrong: the zone told is the next one to write.                           *)
FPGA_blit_lz4_NextZone(q, bytes, nb) ==
  /\ poc' = [q EXCEPT !.bytes_lz4_ddr = bytes, !.frame_ddr = q.frame_recv]
  /\ lz4' = [frame |-> q.frame_recv % DdrFrameMod, bytes |-> bytes, numBlit |-> nb]
  /\ spi' = IF q.frame_ddr # q.frame_recv
            THEN <<[op |-> "BLIT_LZ4", zone |-> q.field_lz4]>> ELSE <<>>
  /\ raw' = raw

(* groovy_FPGA_blit_lz4(bytes, nb), with groovy_FPGA_blit_field_lz4: the    *)
(* zone told is the one before PoC_field_lz4, which setBlit has advanced.   *)
FPGA_blit_lz4(q, bytes, nb) ==
  /\ poc' = [q EXCEPT !.bytes_lz4_ddr = bytes, !.frame_ddr = q.frame_recv]
  /\ lz4' = [frame   |-> IF q.frame_ddr # q.frame_recv
                         THEN q.frame_recv % DdrFrameMod ELSE lz4.frame,
             bytes   |-> bytes,
             numBlit |-> nb]
  /\ spi' = IF q.frame_ddr # q.frame_recv
            THEN <<[op    |-> "BLIT_LZ4",
                    zone  |-> IF q.field_lz4 = 0 THEN 3 ELSE q.field_lz4 - 1,
                    size  |-> q.bytes_lz4_len,
                    field |-> q.field,
                    delta |-> q.delta_lz4]>>
            ELSE <<>>
  /\ raw' = raw

(* A datagram to dispatch as a command: at a poll outside a reception, or    *)
(* the one a lost payload left in recvbuf.                                   *)
Dispatched(p) ==
  /\ groovyServer = 2
  /\ \/ pc = "poll" /\ isBlitting = 0 /\ p \in Packets
     \/ pc = "reconfig" /\ p = recvbuf

(* groovy_validate_command_packet *)
Validated(p) ==
  /\ p.cmd \in Commands
  /\ p.len \in LengthsOf(p.cmd)
  /\ p.cmd \in {"SWITCHRES", "AUDIO", "GET_STATUS", "BLIT_VSYNC",
                "BLIT_FIELD_VSYNC"} => poc # NoPoc

Command(p, cmd) == Dispatched(p) /\ Validated(p) /\ p.cmd = cmd

(* The handler returned: back to the recvfrom of the poll loop. *)
BackToPoll == pc' = "poll" /\ recvbuf' = NoPacket
WaitAt(where) == pc' = where /\ recvbuf' = NoPacket

-----------------------------------------------------------------------------
(* Start and stop.  groovy_start is retried by every poll until the sockets  *)
(* are bound; a failure leaves what it had already done.                     *)

(* groovy_start, first part: settings, FPGA reset, groovy_map_ddr fails. *)
StartWithoutMap ==
  /\ groovyServer = 0 /\ pc = "poll" /\ isCorePriority = 0
  /\ hpsBlit' \in BlitSettings /\ doScreensaver' \in ScreensaverSettings
  /\ cmd_init' = 0
  /\ spi' = <<[op |-> "INIT", on |-> 0]>>
  /\ reply' = NoReply
  /\ UNCHANGED <<groovyServer, groovyLogo, session, blit, pc, recvbuf, headers,
                 fpga_init>>

(* groovy_start, whole: the DDR is mapped by this call or by an earlier one,  *)
(* then the sockets are bound (bound) or not.                                 *)
Start(bound) ==
  /\ groovyServer # 2 /\ pc = "poll" /\ isCorePriority = 0
  /\ IF groovyServer = 0
     THEN /\ hpsBlit' \in BlitSettings /\ doScreensaver' \in ScreensaverSettings
          /\ cmd_init' = 0
          /\ spi' = <<[op |-> "INIT", on |-> 0]>>
          /\ raw' = ZeroRaw /\ lz4' = ZeroLz4
          /\ poc' = ZeroPoc
          /\ isBlitting' = 0 /\ isCorePriority' = 0
     ELSE /\ spi' = <<>>
          /\ UNCHANGED <<hpsBlit, doScreensaver, cmd_init, headers, poc,
                         isBlitting, isCorePriority>>
  /\ groovyServer' = IF bound THEN 2 ELSE 1
  /\ pc' = IF bound /\ doScreensaver' = 1 THEN "logo" ELSE "poll"
  /\ reply' = NoReply
  /\ UNCHANGED <<groovyLogo, isConnected, blitCompression, audioChannels,
                 rgbMode, usingOldBlit, numBlit, recvbuf, fpga_init>>

(* groovy_stop, called from the main loop, hence outside groovy_poll. *)
Stop ==
  /\ pc = "poll" /\ isCorePriority = 0
  /\ poc' = NoPoc
  /\ isConnected' = 0
  /\ groovyServer' = 0
  /\ spi' = <<>> /\ reply' = NoReply
  /\ UNCHANGED <<hpsBlit, doScreensaver, groovyLogo, blitCompression,
                 audioChannels, rgbMode, blit, pc, recvbuf, headers, fpga>>

(* loadLogo(1) once the FPGA is in S_Idle, and the commands that follow it    *)
(* in setClose and in groovy_start.                                           *)
LogoStart ==
  /\ pc = "logo" /\ fpga_init = 0
  /\ raw' = [frame |-> 1, pixels |-> 61440, numBlit |-> 1]
  /\ cmd_init' = 1
  /\ spi' = <<[op |-> "INIT", on |-> 1], [op |-> "BLIT"], [op |-> "LOGO", on |-> 1]>>
  /\ groovyLogo' = 1
  /\ WaitAt("poll")
  /\ reply' = NoReply
  /\ UNCHANGED <<setup, session, blit, lz4, fpga_init>>

(* A wrong S_Idle, left whatever cmd_init says. *)
FpgaLeavesIdle_Always ==
  /\ fpga_init = 0
  /\ fpga_init' = 1
  /\ UNCHANGED <<setup, groovyLogo, session, blit, pc, recvbuf, headers, spi,
                 reply, cmd_init>>

(* The FPGA leaves S_Idle when cmd_init is set; with cmd_init clear the        *)
(* dispatcher goes S_Defaults, S_Reset, S_Idle.                               *)
FpgaLeavesIdle ==
  /\ fpga_init = 0 /\ cmd_init = 1
  /\ fpga_init' = 1
  /\ spi' = <<>> /\ reply' = NoReply
  /\ UNCHANGED <<setup, groovyLogo, session, blit, pc, recvbuf, headers, cmd_init>>

FpgaReachesIdle ==
  /\ fpga_init = 1 /\ cmd_init = 0
  /\ fpga_init' = 0
  /\ spi' = <<>> /\ reply' = NoReply
  /\ UNCHANGED <<setup, groovyLogo, session, blit, pc, recvbuf, headers, cmd_init>>

-----------------------------------------------------------------------------
(* Commands *)

(* setClose.  With the screensaver a fresh poc is allocated (allocated) and    *)
(* the logo waits for S_Idle; without it poc stays null.                      *)
Close(p, allocated) ==
  /\ Command(p, "CLOSE")
  /\ cmd_init' = 0
  /\ isBlitting' = 0 /\ usingOldBlit' = 0 /\ numBlit' = 0 /\ blitCompression' = 0
  /\ raw' = ZeroRaw /\ lz4' = ZeroLz4
  /\ isConnected' = 0
  /\ poc' = IF doScreensaver = 1 /\ allocated THEN ZeroPoc ELSE NoPoc
  /\ groovyLogo' = IF doScreensaver = 1 /\ ~allocated THEN 0 ELSE groovyLogo
  /\ WaitAt(IF doScreensaver = 1 /\ allocated THEN "logo" ELSE "poll")
  /\ spi' = <<[op |-> "INIT", on |-> 0]>>
  /\ reply' = NoReply
  /\ UNCHANGED <<setup, audioChannels, rgbMode, isCorePriority, fpga_init>>

(* A wrong way to take the screen from the logo: the poll loop still draws it. *)
StopLogo_StillDrawn ==
  /\ cmd_init' = IF doScreensaver = 1 THEN 0 ELSE cmd_init
  /\ spi' = <<>> /\ groovyLogo' = groovyLogo

(* setInit takes the screen from the logo and asks the FPGA back to S_Idle.    *)
StopLogo ==
  IF doScreensaver = 1
  THEN /\ cmd_init' = 0 /\ groovyLogo' = 0
       /\ spi' = <<[op |-> "INIT", on |-> 0], [op |-> "LOGO", on |-> 0]>>
  ELSE /\ spi' = <<>>
       /\ UNCHANGED <<cmd_init, groovyLogo>>

(* setInit up to the wait for S_Idle.  poc is zeroed in place when it exists. *)
Init_(p) ==
  /\ Command(p, "INIT")
  /\ poc' = ZeroPoc
  /\ blitCompression' = IF p.compression <= 1 THEN p.compression ELSE 0
  /\ audioChannels' = IF p.channels <= 2 THEN p.channels ELSE 0
  /\ rgbMode' = IF p.len = 5 /\ p.rgb <= 2 THEN p.rgb ELSE 0
  /\ raw' = ZeroRaw /\ lz4' = ZeroLz4
  /\ isBlitting' = 0 /\ usingOldBlit' = 0 /\ numBlit' = 0
  /\ isConnected' = 1
  /\ StopLogo
  /\ WaitAt("init")
  /\ reply' = NoReply
  /\ UNCHANGED <<setup, isCorePriority, fpga_init>>

InitFails(p) ==      \* calloc failed
  /\ Command(p, "INIT") /\ poc = NoPoc
  /\ isConnected' = 0
  /\ spi' = <<>> /\ reply' = NoReply
  /\ BackToPoll
  /\ UNCHANGED <<setup, groovyLogo, poc, blitCompression, audioChannels, rgbMode,
                 blit, headers, fpga>>

InitDone ==          \* the rest of setInit, and sendACK(0, 0)
  /\ pc = "init" /\ fpga_init = 0
  /\ cmd_init' = 1
  /\ spi' = <<[op |-> "INIT", on |-> 1]>>
  /\ reply' = Ack(0)
  /\ WaitAt("poll")
  /\ UNCHANGED <<setup, groovyLogo, session, blit, headers, fpga_init>>

GetVersion(p) ==
  /\ Command(p, "GET_VERSION")
  /\ spi' = <<>>
  /\ reply' = [type |-> "version", frame |-> 0]
  /\ BackToPoll
  /\ UNCHANGED <<setup, groovyLogo, session, blit, headers, fpga>>

GetStatus(p) ==
  /\ Command(p, "GET_STATUS")
  /\ spi' = <<>>
  /\ reply' = Ack(0)
  /\ BackToPoll
  /\ UNCHANGED <<setup, groovyLogo, session, blit, headers, fpga>>

(* The values setSwitchres accepts.  An interlaced mode (1) sends one field   *)
(* per frame; 2 is an interlaced mode with a progressive framebuffer.         *)
ModelineBytes(p) ==
  IF p.interlace = 1 THEN (p.px * Bpp(rgbMode)) \div 2 ELSE p.px * Bpp(rgbMode)

ModelineValid(p) ==
  /\ poc # NoPoc
  /\ p.timing /\ p.interlace <= 2
  /\ ModelineBytes(p) \in 1 .. FrameRegionSize

(* setSwitchres.  Only the upper bytes of the pixel count are cleared.        *)
Switchres(p) ==
  /\ Command(p, "SWITCHRES") /\ ModelineValid(p)
  /\ \E vga_frame \in VgaFrames :
       LET pixels == IF p.interlace = 1 THEN p.px \div 2 ELSE p.px
           progressive == IF p.interlace = 1 THEN 0 ELSE 1
           last == IF usingOldBlit = 1 /\ progressive = 0 /\ vga_frame > poc.frame_ddr
                   THEN vga_frame ELSE poc.frame_ddr
       IN poc' = [poc EXCEPT !.pixels_ddr = 0,
                             !.FB_progressive = progressive,
                             !.field_frame = (last + 1) % FrameMod,
                             !.field = 0,
                             !.pixels_len = pixels,
                             !.bytes_len = pixels * Bpp(rgbMode),
                             !.bytes_recv = 0,
                             !.buffer_offset = 0]
  /\ raw' = [raw EXCEPT !.pixels = raw.pixels % 256, !.numBlit = 0]
  /\ spi' = <<[op |-> "SWITCHRES", frame |-> poc.frame_ddr]>>
  /\ reply' = NoReply
  /\ BackToPoll
  /\ UNCHANGED <<setup, groovyLogo, isConnected, blitCompression, audioChannels,
                 rgbMode, blit, lz4, fpga>>

(* setBlitAudio, for the 16 bit size of the datagram. *)
Audio(p) ==
  /\ Command(p, "AUDIO")
  /\ audioChannels # 0 /\ p.size \in 1 .. AudioSize
  /\ poc' = [poc EXCEPT !.bytes_audio_len = p.size,
                        !.buffer_offset = AudioOffset,
                        !.bytes_recv = 0]
  /\ isBlitting' = 2 /\ isCorePriority' = 1
  /\ spi' = <<>> /\ reply' = NoReply
  /\ BackToPoll
  /\ UNCHANGED <<setup, groovyLogo, isConnected, blitCompression, audioChannels,
                 rgbMode, usingOldBlit, numBlit, headers, fpga>>

-----------------------------------------------------------------------------
(* CMD_BLIT_VSYNC (deprecated) and CMD_BLIT_FIELD_VSYNC: the arguments of      *)
(* setBlit as process_packet decodes them.                                     *)
IsBlit(p) == p.cmd \in {"BLIT_VSYNC", "BLIT_FIELD_VSYNC"}

BlitField(p) ==
  IF poc.FB_progressive = 1 THEN 0
  ELSE IF p.cmd = "BLIT_VSYNC" THEN 2 ELSE p.field

BlitSize(p) ==
  IF blitCompression # 0 /\ p.len \in {11, 12, 13} THEN p.size ELSE 0

BlitDelta(p) ==
  IF p.len = (IF blitCompression = 0 THEN 9 ELSE 13) THEN p.delta ELSE 0

(* The values setBlit accepts. *)
BlitValid(p) ==
  /\ poc # NoPoc
  /\ poc.bytes_len \in 1 .. FrameRegionSize
  /\ BlitField(p) <= 2
  /\ blitCompression # 0 => BlitSize(p) \in 1 .. LZ4Size

(* A raw blit may repeat the previous frame: no payload follows. *)
Duplicate(p) == blitCompression = 0 /\ BlitDelta(p) # 0

FieldOf_NoParity(p) ==          \* a wrong FieldOf: the parity is not taken
  IF BlitField(p) = 2 THEN p.frame + poc.field_frame ELSE 0

FieldOf(p) ==
  IF poc.FB_progressive = 1  THEN 0
  ELSE IF BlitField(p) = 2   THEN (p.frame + poc.field_frame) % 2
  ELSE IF BlitField(p) = 0   THEN 1 ELSE 0

NextZone == IF poc.field_lz4 = 3 THEN 0 ELSE poc.field_lz4 + 1

(* A wrong one: the bytes of a frame that was given up count for the next.     *)
BlitPoc_KeepsReceived(p) ==
  [poc EXCEPT !.frame_recv = p.frame, !.bytes_lz4_ddr = 0, !.field = FieldOf(p)]

(* poc after the assignments of setBlit, before the FPGA is told. *)
BlitPoc(p) ==
  [poc EXCEPT
     !.frame_recv    = p.frame,
     !.bytes_recv    = IF Duplicate(p) THEN poc.bytes_len ELSE 0,
     !.bytes_lz4_ddr = 0,
     !.bytes_lz4_len = BlitSize(p),
     !.field         = FieldOf(p),
     !.buffer_offset = IF blitCompression # 0 THEN LZ4Offset(poc.field_lz4)
                       ELSE IF FieldOf(p) = 1 THEN FieldOffset ELSE 0,
     !.field_lz4     = IF blitCompression # 0 THEN NextZone ELSE 0,
     !.delta_lz4     = IF blitCompression # 0 THEN BlitDelta(p) ELSE poc.delta_lz4]

(* setBlit, then sendACK.  Unless hpsBlit defers it to the end of the         *)
(* reception, the FPGA is told at once, so that it polls the header while     *)
(* the payload arrives.                                                       *)
Blit(p) ==
  /\ Dispatched(p) /\ Validated(p) /\ IsBlit(p) /\ BlitValid(p)
  /\ isBlitting'     = IF Duplicate(p) THEN 0 ELSE 1
  /\ isCorePriority' = IF Duplicate(p) THEN 0 ELSE 1
  /\ numBlit'        = IF Duplicate(p) THEN 1 ELSE 0
  /\ IF hpsBlit = 0 \/ Duplicate(p)
     THEN IF blitCompression # 0
          THEN FPGA_blit_lz4(BlitPoc(p), 0, 0)
          ELSE FPGA_blit(BlitPoc(p), BlitPoc(p).bytes_recv, numBlit')
     ELSE /\ poc' = [BlitPoc(p) EXCEPT !.pixels_ddr = 0]
          /\ spi' = <<>>
          /\ UNCHANGED headers
  /\ usingOldBlit' = IF p.cmd = "BLIT_VSYNC" THEN 1 ELSE usingOldBlit
  /\ reply' = Ack(p.frame)
  /\ BackToPoll
  /\ UNCHANGED <<setup, groovyLogo, isConnected, blitCompression, audioChannels,
                 rgbMode, fpga>>

(* A datagram that is no valid command, or a command whose values its handler *)
(* refuses: counted and dropped.                                              *)
Ignore(p) ==
  /\ Dispatched(p)
  /\ \/ ~ Validated(p)
     \/ p.cmd = "SWITCHRES" /\ ~ ModelineValid(p)
     \/ p.cmd = "AUDIO" /\ (audioChannels = 0 \/ p.size \notin 1 .. AudioSize)
     \/ IsBlit(p) /\ ~ BlitValid(p)
  /\ spi' = <<>> /\ reply' = NoReply
  /\ BackToPoll
  /\ UNCHANGED <<setup, groovyLogo, session, blit, headers, fpga>>

-----------------------------------------------------------------------------
(* Payload: a datagram that arrives while isBlitting # 0.                      *)

Payload(p) == groovyServer = 2 /\ pc = "poll" /\ isBlitting # 0 /\ p \in Packets

Quiet == spi' = <<>> /\ reply' = NoReply

(* groovy_copy_payload refuses the datagram: the reception is given up. *)
RejectPayload(p) ==
  /\ Payload(p) /\ ~ PayloadBoundsValid(p.len)
  /\ isBlitting' = 0 /\ isCorePriority' = 0
  /\ Quiet
  /\ UNCHANGED <<setup, groovyLogo, session, usingOldBlit, numBlit, pc, recvbuf,
                 headers, fpga>>

LossDetected_ShortOnly(p) ==     \* a wrong one: only commands are suspicious
  /\ Payload(p) /\ PayloadBoundsValid(p.len)
  /\ p.len <= MaxCommandLen /\ poc.bytes_recv + p.len # PayloadLength

(* The payload was copied; a short datagram must be the last of its frame.     *)
LossDetected(p) ==
  /\ Payload(p) /\ PayloadBoundsValid(p.len)
  /\ p.len < ChunkLen /\ poc.bytes_recv + p.len # PayloadLength

(* Two wrong ones: an 8 byte BLIT is dropped; anything but a BLIT is dropped.  *)
LooksLikeCommand_OffByOne(p) == p.len < 8

LooksLikeCommand_OnlyBlit(p) == p.len \in LengthsOf("BLIT_FIELD_VSYNC")

(* It cannot be the last chunk, whose length differs, and is short enough.     *)
LooksLikeCommand(p) ==
  p.len # PayloadLength % ChunkLen /\ p.len <= MaxCommandLen

(* The loss detection of process_packet gives the reception up and tells the   *)
(* FPGA.  The datagram itself is dispatched when it looks like a command.      *)
LosePayload(p) ==
  /\ LossDetected(p)
  /\ isBlitting' = 0 /\ isCorePriority' = 0
  /\ IF isBlitting = 1 /\ hpsBlit = 0
     THEN IF blitCompression # 0
          THEN FPGA_blit_lz4(poc, poc.bytes_lz4_len, AbortBlit)
          ELSE FPGA_blit(poc, poc.bytes_len, AbortBlit)
     ELSE /\ spi' = <<>>
          /\ UNCHANGED <<poc, headers>>
  /\ IF LooksLikeCommand(p)
     THEN pc' = "reconfig" /\ recvbuf' = p
     ELSE UNCHANGED <<pc, recvbuf>>
  /\ reply' = NoReply
  /\ UNCHANGED <<setup, groovyLogo, isConnected, blitCompression, audioChannels,
                 rgbMode, usingOldBlit, numBlit, fpga>>

Accepted(p, kind) ==
  /\ Payload(p) /\ PayloadBoundsValid(p.len) /\ ~ LossDetected(p)
  /\ isBlitting = kind /\ poc.bytes_len > 0
  /\ reply' = NoReply
  /\ UNCHANGED <<setup, groovyLogo, isConnected, blitCompression, audioChannels,
                 rgbMode, usingOldBlit, pc, recvbuf, fpga>>

Increment(n, times) == (n + times) % 65536        \* uint16_t numBlit

(* Two wrong ends of a reception: one byte late; with the core kept. *)
Progress_Late(received, total, kind) ==
  /\ isBlitting' = IF received > total THEN 0 ELSE kind
  /\ isCorePriority' = IF received > total THEN 0 ELSE isCorePriority

Progress_KeepsCore(received, total, kind) ==
  /\ isBlitting' = IF received >= total THEN 0 ELSE kind
  /\ isCorePriority' = isCorePriority

(* Reception of the last byte announced ends the reception. *)
Progress(received, total, kind) ==
  /\ isBlitting' = IF received >= total THEN 0 ELSE kind
  /\ isCorePriority' = IF received >= total THEN 0 ELSE isCorePriority

(* setBlitRaw: the FPGA is told after every chunk, or with hpsBlit once, when  *)
(* the frame is complete and pixels_ddr says it has not been told.             *)
RawChunk(p) ==
  LET received == poc.bytes_recv + p.len
      done     == received >= poc.bytes_len
      asap     == hpsBlit = 0
      told     == IF asap THEN received \div Bpp(rgbMode) ELSE poc.pixels_ddr
      atEnd    == done /\ told < poc.pixels_len
      times    == (IF asap THEN 1 ELSE 0) + (IF atEnd THEN 1 ELSE 0)
      q        == [poc EXCEPT !.bytes_recv = received,
                              !.buffer_offset = IF done THEN 0 ELSE @]
  IN /\ Accepted(p, 1) /\ blitCompression = 0
     /\ Progress(received, poc.bytes_len, 1)
     /\ numBlit' = Increment(numBlit, times)
     /\ IF times > 0
        THEN FPGA_blit(q, received, numBlit')
        ELSE poc' = q /\ spi' = <<>> /\ UNCHANGED headers

(* setBlitLZ4 *)
Lz4Chunk(p) ==
  LET received == poc.bytes_recv + p.len
      done     == received >= poc.bytes_lz4_len
      asap     == hpsBlit = 0
      told     == IF asap THEN received ELSE poc.bytes_lz4_ddr
      atEnd    == done /\ told < poc.bytes_lz4_len
      times    == (IF asap THEN 1 ELSE 0) + (IF atEnd THEN 1 ELSE 0)
      q        == [poc EXCEPT !.bytes_recv = received,
                              !.buffer_offset = IF done THEN 0 ELSE @]
  IN /\ Accepted(p, 1) /\ blitCompression # 0
     /\ Progress(received, poc.bytes_lz4_len, 1)
     /\ numBlit' = Increment(numBlit, times)
     /\ IF times > 0
        THEN FPGA_blit_lz4(q, received, numBlit')
        ELSE poc' = q /\ spi' = <<>> /\ UNCHANGED headers

(* setBlitRawAudio *)
AudioChunk(p) ==
  LET received == poc.bytes_recv + p.len
      done     == received >= poc.bytes_audio_len
      samples  == CASE audioChannels = 0 -> 0
                    [] audioChannels = 1 -> poc.bytes_audio_len \div 2
                    [] OTHER             -> poc.bytes_audio_len \div 4
  IN /\ Accepted(p, 2)
     /\ Progress(received, poc.bytes_audio_len, 2)
     /\ poc' = [poc EXCEPT !.bytes_recv = received,
                           !.buffer_offset = IF done THEN 0 ELSE @]
     /\ spi' = IF done THEN <<[op |-> "AUDIO", samples |-> samples]>> ELSE <<>>
     /\ UNCHANGED <<numBlit, headers>>

(* Audio announced before any modeline: its first chunk is skipped. *)
SkipNoModeline(p) ==
  /\ Payload(p) /\ PayloadBoundsValid(p.len) /\ ~ LossDetected(p)
  /\ poc.bytes_len = 0
  /\ isBlitting' = 0 /\ isCorePriority' = 0
  /\ Quiet
  /\ UNCHANGED <<setup, groovyLogo, session, usingOldBlit, numBlit, pc, recvbuf,
                 headers, fpga>>

-----------------------------------------------------------------------------
Init ==
  /\ groovyServer = 0 /\ hpsBlit \in BlitSettings /\ doScreensaver \in ScreensaverSettings
  /\ groovyLogo = 0
  /\ poc = NoPoc /\ isConnected = 0
  /\ blitCompression = 0 /\ audioChannels = 0 /\ rgbMode = 0
  /\ isBlitting = 0 /\ isCorePriority = 0 /\ usingOldBlit = 0 /\ numBlit = 0
  /\ pc = "poll" /\ recvbuf = NoPacket
  /\ raw = ZeroRaw /\ lz4 = ZeroLz4
  /\ spi = <<>> /\ reply = NoReply
  /\ cmd_init = 0 /\ fpga_init = 0

HandleCommand(p) ==
  \/ \E allocated \in BOOLEAN : Close(p, allocated)
  \/ Init_(p) \/ InitFails(p)
  \/ GetVersion(p) \/ GetStatus(p)
  \/ Switchres(p) \/ Audio(p) \/ Blit(p)
  \/ Ignore(p)

HandlePayload(p) ==
  \/ RejectPayload(p) \/ LosePayload(p)
  \/ RawChunk(p) \/ Lz4Chunk(p) \/ AudioChunk(p)
  \/ SkipNoModeline(p)

Resume == LogoStart \/ InitDone \/ HandleCommand(recvbuf)

FpgaStep == FpgaLeavesIdle \/ FpgaReachesIdle

Next ==
  \/ StartWithoutMap
  \/ \E bound \in BOOLEAN : Start(bound)
  \/ Stop
  \/ \E p \in Packets : HandleCommand(p) \/ HandlePayload(p)
  \/ Resume
  \/ FpgaStep

Spec == Init /\ [][Next]_vars

(* The server thread goes on once what it waits for has happened, and the      *)
(* FPGA clock never stops; nothing is assumed of the client or the network.    *)
FairSpec == Spec /\ WF_vars(Resume) /\ WF_vars(FpgaStep)
-----------------------------------------------------------------------------
(* Properties *)

(* Types of the globals of groovy.cpp, with the ranges their widths and the   *)
(* handlers leave them.                                                        *)
TypeOK ==
  /\ groovyServer \in 0 .. 2 /\ hpsBlit \in {0, 1} /\ doScreensaver \in {0, 1}
  /\ groovyLogo \in {0, 1}
  /\ poc \in PocType \union {NoPoc}
  /\ isConnected \in {0, 1}
  /\ blitCompression \in {0, 1} /\ audioChannels \in 0 .. 2 /\ rgbMode \in 0 .. 2
  /\ isBlitting \in 0 .. 2 /\ isCorePriority \in {0, 1}
  /\ usingOldBlit \in {0, 1} /\ numBlit \in Uint16
  /\ pc \in {"poll", "reconfig", "init", "logo"}
  /\ recvbuf \in Packets \union {NoPacket}
  /\ raw \in RawType /\ lz4 \in Lz4Type
  /\ reply \in [type : {"none", "version", "ack"}, frame : Nat]
  /\ cmd_init \in {0, 1} /\ fpga_init \in {0, 1}

(* The poll loop keeps the core exactly while a reception is open.  If it let *)
(* go earlier, groovy_stop could free poc under a reception; if it kept it     *)
(* longer, the main loop of MiSTer would never run again.                     *)
PriorityWhileReceiving == isCorePriority = 1 <=> isBlitting # 0

(* The bytes of a reception go to a region of their own: the audio region, one *)
(* of the four LZ4 zones, or a field of the frame.                             *)
RegionSound ==
  /\ isBlitting = 2 => poc.buffer_offset = AudioOffset
  /\ isBlitting = 1 /\ blitCompression # 0 =>
       \E zone \in 0 .. 3 : poc.buffer_offset = LZ4Offset(zone)
  /\ isBlitting = 1 /\ blitCompression = 0 =>
       poc.buffer_offset \in {0, FieldOffset}

(* An open reception has a session, still expects at least one byte, and what *)
(* it expects fits the region of DDR its bytes go to.                         *)
ReceptionSound ==
  isBlitting # 0 =>
    /\ groovyServer = 2 /\ pc = "poll" /\ poc # NoPoc
    /\ poc.bytes_recv < PayloadLength /\ PayloadLength <= PayloadCapacity
    /\ RegionSound

(* While a frame is being received and the FPGA already polls its header, the *)
(* header never claims a pixel, or an LZ4 byte, that is not in DDR yet.        *)
HeaderHonest ==
  isBlitting = 1 /\ hpsBlit = 0 =>
    IF blitCompression # 0
    THEN lz4.bytes <= poc.bytes_recv /\ lz4.numBlit # AbortBlit
    ELSE raw.pixels * Bpp(rgbMode) <= poc.bytes_recv /\ raw.numBlit # AbortBlit

(* Every chunk counted in numBlit brought at least 1472 bytes: short ones end *)
(* the reception.  So the 16 bit counter cannot reach the abort value.         *)
ChunkCountBounded == isBlitting = 1 => numBlit * ChunkLen <= poc.bytes_recv

(* The LZ4 zone the FPGA is told to inflate is the zone the payload of that   *)
(* frame is written to, whether the FPGA is told before or after it.          *)
ZoneToldIsZoneWritten ==
  [][\A i \in DOMAIN spi' :
       spi'[i].op = "BLIT_LZ4" =>
         LZ4Offset(spi'[i].zone) =
           IF isBlitting # 0 THEN poc.buffer_offset ELSE poc'.buffer_offset]_vars

(* The logo is animated in the frame region only while no client is           *)
(* connected: the poll loop never draws over the frames of a session.         *)
LogoOnlyWhenDisconnected ==
  groovyLogo = 1 /\ doScreensaver = 1 => isConnected = 0

(* Whatever a handler waits for inside groovy_poll, the wait ends: the main    *)
(* loop of MiSTer and the other commands of the client are behind it.         *)
HandlersReturn == pc # "poll" ~> pc = "poll"

(* Stated by the code, and not so. *)

(* groovy_validate_command_packet drops the stream commands of a client that  *)
(* has not initialized the session ("not_initialized").                       *)
NotInitializedRejected == isBlitting # 0 => isConnected = 1

(* setSwitchres "clean pixels on ddr (auto_blit)": after a modeline the raw    *)
(* header claims no pixel.                                                     *)
SwitchresCleansPixels ==
  [][\A i \in DOMAIN spi' : spi'[i].op = "SWITCHRES" => raw'.pixels = 0]_vars
=============================================================================
