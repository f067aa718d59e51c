------------------------------- MODULE Lz4Blit -------------------------------
(***************************************************************************)
(* The LZ4 half of the core (Groovy.sv, S_Blit_Header_Lz4 to S_Delta_Copy) *)
(* around the decoder of Lz4Decoder, clock by clock: a step is one clock   *)
(* of clk_sys, in which the state machine of the core, the two halves of   *)
(* the decoder and the DDR port (rtl/ddram.sv) each read the registers as  *)
(* the clock before left them.                                             *)
(*                                                                         *)
(* The server announces a frame once it has received the one before, which *)
(* the core may still inflate.  The two writes of groovy_FPGA_blit_lz4, of *)
(* the header and of the command, are two steps when they come after the   *)
(* payload; before it (hpsBlit = 0) the header says 0 bytes until the    *)
(* command is through, and they are one.  A command takes longer than the  *)
(* read of a header.                                                       *)
(*                                                                         *)
(* DDRAM_BUSY is a wait request: it answers a command, and is not raised   *)
(* without one.  Pixels are counted by the words that complete them; sound *)
(* takes any time; numBlit only as far as it gives a frame up; cmd_fskip,  *)
(* raw blits, modelines and interlaced modes are left out.                 *)
(***************************************************************************)
EXTENDS Lz4Decoder

CONSTANTS
  BlitSettings,  \* of the OSD: {FALSE} ASAP, {TRUE} all of a frame at once (hpsBlit)
  MaxFrames,     \* bound: frames sent
  MaxFaults      \* bound: sounds, frames given up, rasters without a pixel

(* Every frame fills the modeline. *)
ASSUME FramesAssumption ==
  /\ BlitSettings \subseteq BOOLEAN /\ MaxFrames \in Nat
  /\ \A s, t \in Frames : Len(Compress(s, 0).plain) = Len(Compress(t, 0).plain)

VARIABLES
  core,       \* the registers of the state machine
  delta_FB,   \* PoC_lz4_delta_FB
  ddr,        \* the core's side of the DDR port
  port,       \* ddram.sv
  fb,         \* the frame buffer in DDR, by words
  image,      \* history: what the frames that came to their end would leave there
  env         \* the header, the latches, what the server sends, vram_synced

blitVars == <<lz4Vars, core, delta_FB, ddr, port, fb, image, env>>

(* A frame and m_delta_enabled, whether it is added to the frame before. *)
Frame(delta, f) ==
  [delta |-> delta, shade |-> f.shade, coded |-> f.coded, plain |-> f.plain]

FrameBytes == Len(Compress(CHOOSE s \in Frames : TRUE, 0).plain)

(* The frames have pixels, and the encoder makes at least a token of each.    *)
EncodesPixels ==
  /\ FrameBytes \in Nat \ {0}
  /\ \A s \in Frames, n \in 1..MaxFrames :
       Compress(s, n * Byte * Byte).coded \in Seq(Int) \ {<<>>}

(* A frame of LZ4 that fills the modeline. *)
IsFrame(f) ==
  /\ Len(f.plain) = FrameBytes /\ Len(f.coded) \in Nat
  /\ \E s \in Frames, n \in 1..MaxFrames : InBlocks(f, s, n * Byte * Byte)

(* Compress makes such frames, whatever their shade, and of nothing nothing.  *)
EncodesEach ==
  /\ Compress(<<>>, 0).coded = <<>>
  /\ \A s \in Frames, n \in 1..MaxFrames : IsFrame(Compress(s, n * Byte * Byte))

Words == (FrameBytes + WordBytes - 1) \div WordBytes         \* vga_pixels

Busy(b) == b \/ port.read_req                                \* ddr_busy

-----------------------------------------------------------------------------
(* The server and the raster *)

Outside == UNCHANGED <<input, burst, decoder, told, core, delta_FB, ddr, port, fb, image>>

Coded == Len(env.next.coded)

Whole == env.told = Coded

Faults == env.sounds + env.cuts + env.lost

(* A header was read, and the latches that belong to it were not. *)
HeaderInUse ==
  block_write_total = 0 /\ core.state \in {"S_Blit_Header_Lz4", "S_Blit_Lz4"}

(* setBlit: another frame, told with its first datagram; or setBlitLZ4, told  *)
(* whole (hpsBlit).  The first frame is no delta (m_delta_enabled).           *)
SendFrame(sequences, delta) ==
  /\ env.sent < MaxFrames /\ core.frame_lz4 >= env.sent - 1 /\ (delta => env.sent > 0)
  /\ Whole /\ env.latch = env.next /\ ~HeaderInUse
  /\ LET f == Frame(delta, Compress(sequences, (env.sent + 1) * Byte * Byte))
     IN  env' = [env EXCEPT !.sent = @ + 1, !.last = env.next, !.next = f, !.abort = FALSE,
                   !.latch = IF env.hps THEN @ ELSE f, !.cmd = @ \/ ~env.hps,
                   !.told  = IF env.hps \/ ChunkBytes > Len(f.coded) THEN Len(f.coded)
                                                                     ELSE ChunkBytes]
  /\ Outside /\ UNCHANGED frame

(* groovy_FPGA_blit_field_lz4, after the header. *)
Command ==
  /\ env.latch # env.next
  /\ env' = [env EXCEPT !.latch = env.next, !.cmd = TRUE]
  /\ Outside /\ UNCHANGED frame

(* The next datagram of the frame. *)
SendChunk ==
  /\ ~Whole
  /\ env' = [env EXCEPT !.told = IF @ + ChunkBytes < Coded THEN @ + ChunkBytes ELSE Coded]
  /\ Outside /\ UNCHANGED frame

(* The loss detection gives the frame up: told whole, and 65535 chunks.  The  *)
(* rest of its zone holds what it held.                                       *)
GiveUp(old) ==
  /\ ~Whole /\ Faults < MaxFaults
  /\ LET f == [env.next EXCEPT !.coded = [i \in 1..Coded |-> IF i <= env.told THEN @[i]
                                                                            ELSE old]]
     IN  /\ env' = [env EXCEPT !.told = Coded, !.abort = TRUE, !.lost = @ + 1,
                                !.next = f, !.latch = f]
         /\ frame' = IF frame = env.next THEN f ELSE frame
  /\ Outside

(* cmd_audio, in the middle of a frame *)
Sound ==
  /\ ~env.audio /\ Faults < MaxFaults /\ env.sent > core.frame_lz4
  /\ env' = [env EXCEPT !.audio = TRUE, !.sounds = @ + 1]
  /\ Outside /\ UNCHANGED frame

(* The raster finds no pixel (vram_synced). *)
Starve ==
  /\ env.synced /\ Faults < MaxFaults /\ core.px > 0
  /\ env' = [env EXCEPT !.synced = FALSE, !.cuts = @ + 1]
  /\ Outside /\ UNCHANGED frame

-----------------------------------------------------------------------------
(* The DDR port: b is DDRAM_BUSY, d is DDRAM_DOUT_READY.                      *)

(* The words of the zone, of the frame buffer, or the header, which is one    *)
(* value here: groovy_FPGA_blit_lz4 stores it byte by byte, sizes before the  *)
(* frame number and low bytes first, and what a read between two of these     *)
(* stores finds (256 as 0 after 255, a size under the frame before) is not    *)
(* modelled.                                                                  *)
Memory(what, n) ==
  CASE what = "zone"   -> Word(n)
    [] what = "FB"     -> IF n \in DOMAIN fb THEN fb[n] ELSE Empty
    [] what = "header" -> [frame |-> env.sent, told |-> env.told, abort |-> env.abort]

PortRegisters ==
  [old_rd |-> FALSE, read_req |-> FALSE, reading |-> FALSE, cmd |-> "none",
   what |-> "zone", at |-> 0, data |-> Empty, ready |-> FALSE, dout |-> NoLong]

Port(b, d) ==
  LET accepts == ~b /\ ~port.reading
      writes  == accepts /\ ddr.write /\ ~port.read_req
      reads   == accepts /\ port.read_req /\ ~ddr.write
      ends    == d /\ burst.left = 1
  IN  /\ b => port.cmd # "none"
      /\ d => port.reading /\ port.cmd = "none"
      /\ port' = [old_rd   |-> ddr.req,
                  read_req |-> ~ends /\ (port.read_req \/ (ddr.req /\ ~port.old_rd)),
                  reading  |-> reads \/ (port.reading /\ ~ends),
                  cmd      |-> IF b THEN port.cmd
                               ELSE IF writes THEN "write"
                               ELSE IF reads THEN "read" ELSE "none",
                  what     |-> IF reads THEN ddr.what ELSE port.what,
                  at       |-> IF writes THEN ddr.addr ELSE port.at,
                  data     |-> IF writes THEN ddr.data ELSE port.data,
                  ready    |-> d,
                  dout     |-> IF d THEN Memory(port.what, burst.next) ELSE NoLong]
      /\ burst' = IF reads THEN [next |-> ddr.addr, left |-> ddr.burst]
                  ELSE IF d THEN [next |-> burst.next + 1, left |-> burst.left - 1]
                  ELSE burst
      /\ fb' = IF port.cmd = "write" /\ ~b
               THEN [n \in DOMAIN fb \cup {port.at} |-> IF n = port.at THEN port.data ELSE fb[n]]
               ELSE fb

-----------------------------------------------------------------------------
(* The decoder: what its stop pin sees is more than lz4_stop.                 *)

(* Wrong: a long that is not written yet is no reason to stop. *)
Stop_NotBusy(b) == core.delta_req \/ pins.stop

(* "last uncompressed not writed!" *)
Stop(b) == (ddr.write /\ Busy(b)) \/ core.delta_req \/ pins.stop

Decoder(b) ==
  /\ IF pins.run /\ (~reg.valid \/ ~Stop(b))
     THEN Decode \/ Pause
     ELSE reg' = [Before EXCEPT !.paused = FALSE] /\ NoOutput
  /\ WriteLong(pins.word)

-----------------------------------------------------------------------------
(* The state machine of the core.  An action is a clock in its state; what it *)
(* does not assign stays.                                                     *)

At(s) == core.state = s

(* The next clock sees what the video module does with vram_reset. *)
Quiet == env' = [env EXCEPT !.synced = @ \/ core.vram_reset]

Dispatcher(b) ==
  /\ At("S_Dispatcher")
  /\ pins' = [pins EXCEPT !.reset = FALSE]
  /\ LET sound == ~Busy(b) /\ env.audio
         blit  == ~Busy(b) /\ ~env.audio /\ (env.cmd \/ core.auto)
     IN  /\ core' = [core EXCEPT !.vram_reset = FALSE,
                       !.state = IF sound THEN "S_Audio"
                                 ELSE IF blit THEN "S_Blit_Header_Lz4" ELSE @]
         /\ ddr' = IF blit THEN [ddr EXCEPT !.write = FALSE, !.req = TRUE, !.what = "header",
                                            !.addr = 0, !.burst = 1]
                           ELSE [ddr EXCEPT !.write = FALSE, !.req = FALSE]
         /\ env' = [env EXCEPT !.synced = @ \/ core.vram_reset,
                               !.audio = @ /\ ~sound, !.cmd = @ /\ ~blit]
  /\ UNCHANGED <<frame, told, delta_FB, image>>

(* S_Audio_Prepare to S_Audio_End, for as long as they take. *)
Audio(more) ==
  /\ At("S_Audio")
  /\ core' = [core EXCEPT !.state = IF more THEN @ ELSE "S_Dispatcher"]
  /\ Quiet /\ UNCHANGED <<frame, pins, ddr, told, delta_FB, image>>

(* "lz4 has bytes pending, last blit isnt finished" *)
Resumes == core.resume \/ block_write_total > reg.total

(* Two wrong ones: the next header takes over from the frame begun; a frame   *)
(* of which nothing was written is finished before any other is begun.        *)
BeginsAnother_Never(header) == FALSE
BeginsAnother_Unbegun(header) == header.frame > core.frame_ddr

(* A header of another frame while one is begun. *)
BeginsAnother(header) == header.frame > core.frame_ddr /\ block_write_total # 0

(* S_Blit_Header_Lz4; late: the raster is past the frame, only the frame      *)
(* buffer takes it.  The frame begun is finished first, of which all must     *)
(* have come by now; 65535 chunks only count while no frame is begun.         *)
HeaderLz4(b, late) ==
  /\ At("S_Blit_Header_Lz4")
  /\ ddr' = [ddr EXCEPT !.req = @ /\ ~Busy(b) /\ ~port.ready]
  /\ LET header == port.dout
         looks  == [core EXCEPT !.FB = late, !.vram_reset = ~env.synced]
         found  == [looks EXCEPT !.auto = core.frame_lz4 < header.frame]
     IN  \/ /\ ~port.ready /\ core' = looks /\ UNCHANGED told
         \/ /\ port.ready /\ Resumes
            /\ core' = [found EXCEPT !.state = "S_Blit_Copy_End_Lz4"] /\ UNCHANGED told
         \/ /\ port.ready /\ ~Resumes /\ BeginsAnother(header)
            /\ core' = [found EXCEPT !.state = "S_Blit_Lz4", !.abort = FALSE]
            /\ told' = pins.compressed_bytes
         \/ /\ port.ready /\ ~Resumes /\ ~BeginsAnother(header)
            /\ core' = [found EXCEPT
                 !.state = IF late \/ env.synced THEN "S_Blit_Lz4" ELSE "S_Dispatcher",
                 !.frame_ddr = header.frame,
                 !.abort = header.abort /\ header.told # pins.compressed_bytes]
            /\ told' = header.told
  /\ Quiet /\ UNCHANGED <<frame, pins, delta_FB, image>>

(* What a long is added to when the frame is no delta. *)
ClearedFB == [delta_FB EXCEPT ![0] = Empty]

(* S_Blit_Lz4; the video FIFO, which it empties when the frame before was     *)
(* crushed, is left out.                                                      *)
BlitLz4 ==
  /\ At("S_Blit_Lz4")
  /\ LET blit  == core.frame_ddr > core.frame_lz4 /\ told > block_write_total
         begin == blit /\ block_write_total = 0
         next  == [core EXCEPT !.vram_reset = FALSE,
                     !.state = IF ~blit THEN "S_Dispatcher"
                               ELSE IF core.abort THEN "S_Blit_End_Lz4"
                                                  ELSE "S_Blit_Prepare_Lz4"]
     IN  /\ core' = IF begin THEN [next EXCEPT !.px = 0, !.wr = 0, !.index = 0,
                                     !.delta = env.latch.delta,
                                     !.delta_req = env.latch.delta]
                             ELSE next
         /\ frame' = IF begin THEN env.latch ELSE frame
         /\ pins' = IF begin THEN [pins EXCEPT !.reset = TRUE,
                                     !.compressed_bytes = Len(env.latch.coded)]
                             ELSE pins
         /\ delta_FB' = IF begin THEN ClearedFB ELSE delta_FB
  /\ Quiet /\ UNCHANGED <<ddr, told, image>>

(* S_Blit_Prepare_Lz4 *)
PrepareLz4(b) ==
  /\ At("S_Blit_Prepare_Lz4")
  /\ pins' = [pins EXCEPT !.reset = FALSE]
  /\ LET leaves == env.audio \/ ~MoreInput
         asks   == ~leaves /\ ~Busy(b) /\ WriteReady
     IN  /\ core' = [core EXCEPT !.vram_reset = FALSE,
                       !.state = IF leaves THEN "S_Dispatcher"
                                 ELSE IF asks THEN "S_Blit_Copy_Lz4" ELSE @]
         /\ ddr' = IF asks THEN [ddr EXCEPT !.req = TRUE, !.what = "zone",
                                            !.burst = BurstWords,
                                            !.addr = block_write_total \div WordBytes]
                           ELSE [ddr EXCEPT !.req = FALSE]
  /\ Quiet /\ UNCHANGED <<frame, told, delta_FB, image>>

(* S_Blit_Copy_Lz4: the decoder starts with the second word. *)
CopyLz4(b) ==
  /\ At("S_Blit_Copy_Lz4")
  /\ pins' = [pins EXCEPT !.run  = port.ready /\ pins.word # NoLong, !.stop = TRUE,
                          !.word = IF port.ready THEN port.dout ELSE NoLong]
  /\ ddr' = [ddr EXCEPT !.req = @ /\ ~Busy(b) /\ ~port.ready]
  /\ core' = [core EXCEPT !.state = IF port.ready /\ ~Busy(b) THEN "S_Blit_Copy_End_Lz4"
                                                              ELSE @]
  /\ Quiet /\ UNCHANGED <<frame, told, delta_FB, image>>

CopyEndLz4 ==
  /\ At("S_Blit_Copy_End_Lz4")
  /\ pins' = [pins EXCEPT !.run = TRUE, !.stop = TRUE, !.word = NoLong]
  /\ core' = [core EXCEPT !.state = IF core.delta_req THEN "S_Delta_Prepare"
                                                     ELSE "S_Blit_Inflate_Lz4"]
  /\ Quiet /\ UNCHANGED <<frame, ddr, told, delta_FB, image>>

(* A long the core has not taken, and can. *)
Takes(b) ==
  /\ ~core.delta_req /\ reg.valid /\ reg.bytes > core.wr * WordBytes
  /\ ~(ddr.write /\ Busy(b)) /\ core.px < Words

(* Wrong: the word of the frame buffer is always the first. *)
Uncompressed_First == [i \in 1..WordBytes |-> reg.long[i] + delta_FB[0][i]]

(* lz4_uncompressed_long *)
Uncompressed == [i \in 1..WordBytes |-> reg.long[i] + delta_FB[core.index][i]]

(* S_Blit_Inflate_Lz4; ready: the video FIFO has room.                        *)
InflateLz4(b, ready) ==
  /\ At("S_Blit_Inflate_Lz4")
  /\ LET waits == pins.run \/ (ddr.write /\ Busy(b))
         next  == [core EXCEPT !.state = IF waits THEN @ ELSE "S_Blit_End_Lz4"]
         taken == [next EXCEPT !.wr = @ + 1,
                     !.px = IF ~core.FB /\ env.synced THEN @ + 1 ELSE @]
     IN  IF Takes(b)
         THEN /\ ddr' = [ddr EXCEPT !.write = TRUE, !.addr = core.wr, !.burst = 1,
                                    !.data = Uncompressed]
              /\ core' = IF core.delta
                         THEN [taken EXCEPT !.index = (@ + 1) % BlocksSize,
                                            !.delta_req = core.index = BlocksSize - 1]
                         ELSE taken
         ELSE /\ ddr' = [ddr EXCEPT !.write = @ /\ Busy(b)]
              /\ core' = next
  /\ pins' = [pins EXCEPT !.run  = /\ @ /\ ~reg.paused /\ ~reg.done /\ ~env.audio
                                  /\ env.synced /\ ~core.delta_req,
                          !.stop = ~ready /\ ~core.FB]
  /\ Quiet /\ UNCHANGED <<frame, told, delta_FB, image>>

(* Wrong: a frame is at its end when all of its bytes were read. *)
Ends_Read == Readed \/ core.abort \/ ~env.synced

(* The frame is at its end: inflated, given up, or cut by the raster. *)
Ends == reg.done \/ core.abort \/ ~env.synced

Sum(a, b) == [i \in DOMAIN b |-> b[i] + IF i \in DOMAIN a THEN a[i] ELSE 0]

(* The frame sent under the number the core has. *)
Named == IF core.frame_ddr = env.sent THEN env.next ELSE env.last

(* S_Blit_End_Lz4 *)
EndLz4 ==
  /\ At("S_Blit_End_Lz4")
  /\ ddr' = [ddr EXCEPT !.write = FALSE]
  /\ IF Ends
     THEN /\ core' = [core EXCEPT !.state = "S_Dispatcher", !.frame_lz4 = core.frame_ddr,
                       !.wr = 0, !.px = 0, !.resume = FALSE, !.abort = FALSE,
                       !.vram_reset = core.px > 0 /\ (~env.synced \/ core.px # Words)]
          /\ pins' = [pins EXCEPT !.run = ~reg.valid, !.stop = TRUE, !.reset = TRUE,
                                  !.compressed_bytes = 0]
          /\ told' = 0
          /\ image' = IF Named.delta THEN Sum(image, Named.plain) ELSE Named.plain
     ELSE /\ core' = [core EXCEPT !.resume = env.audio,
                       !.state = IF env.audio THEN "S_Dispatcher"
                                 ELSE IF core.delta_req THEN "S_Delta_Prepare"
                                                        ELSE "S_Blit_Prepare_Lz4"]
          /\ pins' = [pins EXCEPT !.run = ~reg.valid, !.stop = TRUE]
          /\ UNCHANGED <<told, image>>
  /\ Quiet /\ UNCHANGED <<frame, delta_FB>>

DeltaWords ==
  LET left == FrameBytes - core.wr * WordBytes
  IN  IF left < 0 \/ left > BlocksSize * WordBytes - 1 THEN BlocksSize
                                                       ELSE left \div WordBytes + 1

(* S_Delta_Prepare *)
DeltaPrepare(b) ==
  /\ At("S_Delta_Prepare")
  /\ IF ~Busy(b)
     THEN /\ core' = [core EXCEPT !.state = "S_Delta_Copy", !.delta_req = FALSE, !.index = 0]
          /\ ddr' = [ddr EXCEPT !.req = TRUE, !.what = "FB", !.addr = core.wr,
                                !.burst = DeltaWords]
     ELSE /\ core' = [core EXCEPT !.delta_req = FALSE]
          /\ ddr' = [ddr EXCEPT !.req = FALSE]
  /\ Quiet /\ UNCHANGED <<frame, pins, told, delta_FB, image>>

DeltaCopy(b) ==
  /\ At("S_Delta_Copy")
  /\ ddr' = [ddr EXCEPT !.req = @ /\ ~Busy(b) /\ ~port.ready]
  /\ IF port.ready
     THEN /\ delta_FB' = [delta_FB EXCEPT ![core.index] = port.dout]
          /\ core' = IF Busy(b) THEN [core EXCEPT !.index = (@ + 1) % BlocksSize]
                     ELSE [core EXCEPT !.index = 0, !.state = "S_Blit_Copy_End_Lz4"]
     ELSE UNCHANGED <<core, delta_FB>>
  /\ Quiet /\ UNCHANGED <<frame, pins, told, image>>

(* good: the video FIFO has room, and a sound comes to its end. *)
CoreClock(b, good) ==
  \/ Dispatcher(b) \/ (\E more \in {FALSE, ~good} : Audio(more))
  \/ \E late \in BOOLEAN : HeaderLz4(b, late)
  \/ BlitLz4 \/ PrepareLz4(b) \/ CopyLz4(b) \/ CopyEndLz4
  \/ \E ready \in {TRUE, good} : InflateLz4(b, ready)
  \/ EndLz4 \/ DeltaPrepare(b) \/ DeltaCopy(b)

Clock(b, d, good) == CoreClock(b, good) /\ Decoder(b) /\ Port(b, d)

-----------------------------------------------------------------------------
NoFrame == Frame(FALSE, Compress(<<>>, 0))

BlitInit ==
  /\ frame = NoFrame /\ told = 0 /\ burst = [next |-> 0, left |-> 0]
  /\ pins = [run |-> FALSE, stop |-> FALSE, reset |-> FALSE,
             compressed_bytes |-> 0, word |-> NoLong]
  /\ DecoderInit
  /\ core = [state |-> "S_Dispatcher", frame_ddr |-> 0, frame_lz4 |-> 0, FB |-> FALSE,
             auto |-> FALSE, resume |-> FALSE, abort |-> FALSE, vram_reset |-> FALSE, px |-> 0, wr |-> 0,
             delta |-> FALSE, delta_req |-> FALSE, index |-> 0]
  /\ delta_FB = [i \in 0..BlocksSize - 1 |-> Empty]
  /\ ddr = [req |-> FALSE, what |-> "zone", addr |-> 0, burst |-> 1, write |-> FALSE,
            data |-> Empty]
  /\ port = PortRegisters
  /\ fb = <<>> /\ image = <<>>
  /\ \E hps \in BlitSettings :
       env = [hps |-> hps, sent |-> 0, told |-> 0, abort |-> FALSE, cmd |-> FALSE, latch |-> NoFrame,
              next |-> NoFrame, last |-> NoFrame, audio |-> FALSE, synced |-> TRUE,
              sounds |-> 0, cuts |-> 0, lost |-> 0]

BlitNext ==
  \/ \E s \in Frames, delta \in BOOLEAN : SendFrame(s, delta)
  \/ Command \/ SendChunk \/ Sound \/ Starve
  \/ \E old \in {1, Ones} : GiveUp(old)
  \/ \E b, d \in BOOLEAN : Clock(b, d, FALSE)

BlitSpec == BlitInit /\ [][BlitNext]_blitVars

(* A clock in which the DDR port answers, the video FIFO has room and a sound *)
(* is over: each comes again and again, as the memory controller, the raster  *)
(* and the length of a sound have it.                                         *)
GoodClock == \E d \in BOOLEAN :
               /\ d = (port.reading /\ port.cmd = "none")
               /\ Clock(FALSE, d, TRUE)

FairLz4BlitSpec ==
  BlitSpec /\ WF_blitVars(GoodClock) /\ WF_blitVars(SendChunk) /\ WF_blitVars(Command)

-----------------------------------------------------------------------------
(* Properties *)

(* The core takes every long the decoder makes valid, once and in the order   *)
(* they came, whatever stops either of them (Groovy.sv:1399-1402, 1801).      *)
TakesInOrder ==
  [][core'.wr > core.wr
     => (reg.bytes + WordBytes - 1) \div WordBytes = core.wr + 1]_blitVars

Ending == At("S_Blit_End_Lz4") /\ core'.frame_lz4 > core.frame_lz4

Calm == env.cuts = 0 /\ env.lost = 0

(* A frame the core takes for inflated has had every one of its longs taken,  *)
(* whatever sound and waits came between them, as long as the raster finds    *)
(* pixels and no datagram is lost (Groovy.sv:1427-1463).                      *)
EndIsWhole == [][Ending /\ Calm => core.wr = Words]_blitVars

Same == \A i \in DOMAIN image :
          LET n == (i - 1) \div WordBytes
          IN  n \in DOMAIN fb /\ fb[n][((i - 1) % WordBytes) + 1] = image[i]

Settled == At("S_Dispatcher") /\ core.frame_lz4 = env.sent /\ ~ddr.write /\ port.cmd # "write"

(* After a frame told as it came the frame buffer holds it, or the frame      *)
(* before and the difference: no word lost, misplaced or added to another, as *)
(* long as no sound comes between (Groovy.sv:1402-1415, 1467-1496).           *)
FramebufferWhole == Settled /\ Calm /\ env.sounds = 0 /\ ~env.hps => Same

OwnLatches ==
  block_write_total > 0 /\ core.frame_lz4 < core.frame_ddr => frame.shade = Named.shade

(* Of frames told as they come the core inflates the one whose number it read *)
(* from the header, not the one of the command before or of a header since:   *)
(* "get bytes to blit from header" (Groovy.sv:1300-1326, hps_ext.v:300-311).  *)
InflatesItsFrame == ~env.hps => OwnLatches

(* The core comes to the end of every frame it has the latches of: it forgets *)
(* none over a sound or over the frame that follows (Groovy.sv:1300-1318).    *)
(* After a frame the raster cut the decoder may run on from a byte of it and  *)
(* leave nothing to be asked for: see EndChecksPixels.                        *)
FramesEnd == []<>(core.frame_lz4 = env.sent \/ ~Calm \/ ~OwnLatches)

(* Stated by the code, and not so; OwnLatches is another, of frames told when *)
(* all of them has come.                                                      *)

(* S_Blit_Inflate_Lz4, "last uncompressed isnt writed yet; try again": a long *)
(* that was taken reaches the frame buffer.                                   *)
TakenIsWritten == Settled /\ Calm => Same

(* S_Blit_End_Lz4, "Check if all pixels are writed": also of a frame after    *)
(* one that was cut, as long as it is not cut itself.                         *)
EndChecksPixels == [][Ending /\ env.synced /\ env.lost = 0 => core.wr = Words]_blitVars

(* S_Blit_Header_Lz4, "finish current frame before new one": a frame begun is *)
(* finished, also when a datagram of it was lost.                             *)
BegunIsFinished == []<>(core.frame_lz4 = env.sent)
=============================================================================
