------------------------------- MODULE FpgaBlit -------------------------------
(***************************************************************************)
(* The core (Groovy.sv, latches of rtl/hps_ext.v) polling the raw blit     *)
(* header in DDR while the server writes it byte by byte.  The server is   *)
(* GroovyServer reduced to what the core sees of it: the bytes of the      *)
(* header, a modeline, and the SPI commands, in the order of the code.     *)
(*                                                                         *)
(* A step of the core is one clock in which its state machine does         *)
(* something.  Left out: LZ4 blits, frameskip (hps_frameskip = 0 and no    *)
(* logo), interlaced regions, colours.  The raster is what the state       *)
(* machine reads of it, anything the video module may report.              *)
(***************************************************************************)
EXTENDS Naturals, Sequences

CONSTANTS
  PixelBytes,    \* bytes of a pixel: 3, 4 or 2 (rgb_mode 0, 1, 2)
  ChunkBytes,    \* payload of a full datagram (1472)
  WordBytes,     \* a DDR word (8)
  MaxBurst,      \* words of the longest burst (128)
  Byte,          \* values of a header byte (256); two stand for the three of a number
  Modes,         \* pixels of the modelines
  DefaultPixels, \* pixels of the modeline of S_Defaults
  BlitSettings,  \* hpsBlit: 0 the core polls from the first byte, 1 at the end
  MaxFrame, MaxBlits, MaxModes,   \* bounds
  MaxUpsets      \* bound of sounds, new sessions and empty FIFOs together

ASSUME FpgaAssumption ==
  /\ PixelBytes \in {2, 3, 4} /\ WordBytes = 8
  /\ {ChunkBytes, MaxBurst, Byte, DefaultPixels} \subseteq Nat \ {0}
  /\ Byte > 1 /\ Modes \subseteq Nat \ {0} /\ BlitSettings \subseteq {0, 1}
  /\ {MaxFrame, MaxBlits, MaxModes, MaxUpsets} \subseteq Nat

VARIABLES
  hpsBlit,
  hps,       \* server: reception and last modeline
  todo,      \* server: the writes its handler has still to do, in order
  header,    \* DDR: bytes of frame, pixels and numBlit
  modeline,  \* DDR: pixels of the modeline
  latch,     \* commands of hps_ext
  state, PoC, auto_blit,
  ddr,       \* the word the DDR port read, or NoWord
  burst,     \* words of the burst not yet there
  audio,     \* words of the sound not yet fetched
  vga,       \* raster: frames shown, pixels of the mode, held since SWITCHRES
  vram,      \* video FIFO: pixels since its reset, raster never found it empty
  used       \* bounds consumed

fpga   == <<state, PoC, auto_blit, ddr, burst, audio>>
video  == <<vga, vram>>
memory == <<header, modeline>>
fpgaVars == <<hpsBlit, hps, todo, memory, latch, fpga, video, used>>

-----------------------------------------------------------------------------
(* Header and writes: a write is <<where, what>>; where the SPI commands go   *)
(* follows the bytes.                                                         *)

FrameAt      == 1
PixelsAt     == 3
NumBlitAt    == 5
ModelineAt   == 7
SpiBlit      == 8
SpiSwitchres == 9
SpiAudio     == 10
SpiInit      == 11

NoWord == <<>>
Abort  == Byte * Byte - 1
Field(h, at) == h[at] + Byte * h[at + 1]
Put(at, v)   == << <<at, v % Byte>>, <<at + 1, (v \div Byte) % Byte>> >>

(* Two wrong groovy_FPGA_blit: the frame before the pixels, the number of     *)
(* pixels rounded up.                                                         *)
FPGA_blit_FrameFirst(n, bytes, nb) ==
  (IF hps.told # n THEN Put(FrameAt, n) \o << <<SpiBlit, 1>> >> ELSE <<>>)
    \o Put(PixelsAt, bytes \div PixelBytes) \o Put(NumBlitAt, nb)

(* groovy_FPGA_blit: pixels, chunks, and for a new frame its number and the   *)
(* command.                                                                   *)
FPGA_blit(n, bytes, nb) ==
  Put(PixelsAt, bytes \div PixelBytes) \o Put(NumBlitAt, nb)
    \o IF hps.told # n THEN Put(FrameAt, n) \o << <<SpiBlit, 1>> >> ELSE <<>>

-----------------------------------------------------------------------------
(* The server *)

Upsets == used.sounds + used.inits + used.starved

Free == todo = <<>> /\ ~hps.waits

ServerStep == UNCHANGED <<hpsBlit, memory, latch, fpga, video>>

(* setBlit, of a frame sent or equal to the one before *)
SetBlit(n, again) ==
  /\ Free /\ ~hps.open /\ hps.len > 0 /\ n > hps.recv /\ used.blits < MaxBlits
  /\ hps' = [hps EXCEPT !.recv = n, !.open = ~again,
                        !.bytes   = IF again THEN hps.len ELSE 0,
                        !.numBlit = IF again THEN 1 ELSE 0,
                        !.told    = IF again \/ hpsBlit = 0 THEN n ELSE @]
  /\ todo' = IF again \/ hpsBlit = 0 THEN FPGA_blit(n, hps'.bytes, hps'.numBlit)
                                     ELSE <<>>
  /\ used' = [used EXCEPT !.blits = @ + 1]
  /\ ServerStep

(* setBlitRaw, of a datagram that continues the frame *)
SetBlitRaw ==
  /\ Free /\ hps.open
  /\ LET bytes == IF hps.bytes + ChunkBytes < hps.len THEN hps.bytes + ChunkBytes
                                                      ELSE hps.len
         tell  == hpsBlit = 0 \/ bytes = hps.len
     IN  /\ hps' = [hps EXCEPT !.bytes = bytes, !.open = bytes < hps.len,
                               !.numBlit = IF tell THEN @ + 1 ELSE @,
                               !.told    = IF tell THEN hps.recv ELSE @]
         /\ todo' = IF tell THEN FPGA_blit(hps.recv, bytes, hps'.numBlit) ELSE <<>>
  /\ UNCHANGED used /\ ServerStep

(* The reception ends incomplete: told to the core by the loss detection,     *)
(* untold by groovy_copy_payload.                                             *)
Lost(tell) ==
  /\ Free /\ hps.open
  /\ hps' = [hps EXCEPT !.open = FALSE]
  /\ todo' = IF tell /\ hpsBlit = 0 THEN FPGA_blit(hps.recv, hps.len, Abort) ELSE <<>>
  /\ UNCHANGED used /\ ServerStep

(* setSwitchres; "clean pixels on ddr" leaves out the first byte. *)
SetSwitchres(px) ==
  /\ Free /\ ~hps.open /\ used.modes < MaxModes
  /\ hps' = [hps EXCEPT !.len = px * PixelBytes, !.bytes = 0, !.mode = hps.told]
  /\ todo' = << <<PixelsAt + 1, 0>>, <<NumBlitAt, 0>>, <<NumBlitAt + 1, 0>>,
                <<ModelineAt, px>>, <<SpiSwitchres, hps.told>> >>
  /\ used' = [used EXCEPT !.modes = @ + 1]
  /\ ServerStep

(* setBlitRawAudio, once all of a sound is in DDR *)
SetAudio(words) ==
  /\ Free /\ ~hps.open /\ hps.len > 0 /\ Upsets < MaxUpsets
  /\ todo' = << <<SpiAudio, words>> >>
  /\ used' = [used EXCEPT !.sounds = @ + 1]
  /\ UNCHANGED hps /\ ServerStep

NewSession == [recv |-> 0, told |-> 0, bytes |-> 0, len |-> 0, open |-> FALSE,
               numBlit |-> 0, mode |-> 0, waits |-> TRUE]

(* setInit, screensaver enabled, up to its wait and after it *)
SetInit ==
  /\ Free /\ ~hps.open /\ hps.len > 0 /\ Upsets < MaxUpsets
  /\ hps' = NewSession
  /\ todo' = Put(FrameAt, 0) \o Put(PixelsAt, 0) \o Put(NumBlitAt, 0)
               \o << <<SpiInit, 0>> >>
  /\ used' = [used EXCEPT !.inits = @ + 1]
  /\ ServerStep

InitDone ==
  /\ hps.waits /\ todo = <<>> /\ state = "S_Idle"
  /\ hps' = [hps EXCEPT !.waits = FALSE]
  /\ todo' = << <<SpiInit, 1>> >>
  /\ UNCHANGED used /\ ServerStep

(* The next write reaches the DDR, or the next command a latch. *)
Write ==
  /\ todo # <<>> /\ todo' = Tail(todo)
  /\ LET at == Head(todo)[1]
         v  == Head(todo)[2]
     IN  /\ header' = IF at \in DOMAIN header THEN [header EXCEPT ![at] = v] ELSE header
         /\ modeline' = IF at = ModelineAt THEN v ELSE modeline
         /\ latch' = CASE at = SpiBlit      -> [latch EXCEPT !.blit = TRUE]
                       [] at = SpiSwitchres -> [latch EXCEPT !.switchres = TRUE,
                                                             !.frame = v]
                       [] at = SpiAudio     -> [latch EXCEPT !.audio = v]
                       [] at = SpiInit      -> [init |-> v = 1, blit |-> FALSE,
                                                switchres |-> FALSE, frame |-> 0,
                                                audio |-> 0]
                       [] OTHER             -> latch
  /\ UNCHANGED <<hpsBlit, hps, fpga, video, used>>

-----------------------------------------------------------------------------
(* The core *)

ZeroPoC == [frame_ddr |-> 0, bl_ddr |-> 0, px_ddr |-> 0, ddr_bytes |-> 0,
            frame_vram |-> 0, bl_vram |-> 0, px_vram |-> 0, vram_bytes |-> 0,
            rgb_offset |-> 0]

(* The registers of the frame in progress, cleared when it ends. *)
Dropped(P) == [P EXCEPT !.px_vram = 0, !.bl_vram = 0, !.px_ddr = 0, !.bl_ddr = 0,
                        !.vram_bytes = 0, !.ddr_bytes = 0, !.rgb_offset = 0]

EmptyVram == [pixels |-> 0, synced |-> TRUE]

Clock == UNCHANGED <<hpsBlit, hps, todo, memory, used>>

Idle ==
  /\ state = "S_Idle" /\ latch.init
  /\ state' = "S_Dispatcher"
  /\ PoC' = ZeroPoC /\ auto_blit' = FALSE
  /\ vga' = [vga EXCEPT !.frame = 0, !.held = FALSE]
  /\ vram' = EmptyVram
  /\ UNCHANGED <<latch, ddr, burst, audio>> /\ Clock

(* S_Dispatcher, S_Defaults and S_Reset once cmd_init is clear *)
Reset ==
  /\ \/ /\ state = "S_Dispatcher" /\ ~latch.init /\ state' = "S_Defaults"
        /\ UNCHANGED video
     \/ /\ state = "S_Defaults" /\ state' = "S_Idle"
        /\ vga' = [vga EXCEPT !.frame = 0, !.pixels = DefaultPixels, !.started = FALSE]
        /\ vram' = EmptyVram
  /\ UNCHANGED <<latch, PoC, auto_blit, ddr, burst, audio>> /\ Clock

(* "request modeline (apply after blit)" *)
ModelineDue == latch.switchres /\ latch.frame <= vga.frame

DispatchSwitchres ==
  /\ state = "S_Dispatcher" /\ latch.init /\ ModelineDue
  /\ latch' = [latch EXCEPT !.switchres = FALSE]
  /\ state' = "S_Switchres_Header"
  /\ UNCHANGED <<PoC, auto_blit, ddr, burst, audio, video>> /\ Clock

(* What the dispatcher does while the raster is not between two frames: at    *)
(* frame 0 a modeline does not wait for that.                                 *)
Dispatching ==
  /\ state = "S_Dispatcher" /\ latch.init
  /\ ~(ModelineDue /\ vga.frame = 0)

DispatchAudio ==
  /\ Dispatching /\ latch.audio > 0
  /\ latch' = [latch EXCEPT !.audio = 0] /\ audio' = latch.audio
  /\ state' = "S_Audio"
  /\ UNCHANGED <<PoC, auto_blit, ddr, burst, video>> /\ Clock

DispatchBlit ==
  /\ Dispatching /\ latch.audio = 0 /\ (latch.blit \/ auto_blit)
  /\ latch' = [latch EXCEPT !.blit = @ /\ latch.switchres]
  /\ state' = "S_Blit_Header_Raw"
  /\ UNCHANGED <<PoC, auto_blit, ddr, burst, audio, video>> /\ Clock

(* The DDR port reads the header; a FIFO found empty is reset meanwhile. *)
ReadHeader ==
  /\ state = "S_Blit_Header_Raw" /\ ddr = NoWord
  /\ ddr' = header
  /\ vram' = IF vram.synced THEN vram ELSE EmptyVram
  /\ UNCHANGED <<latch, state, PoC, auto_blit, burst, audio, vga>> /\ Clock

(* "frame arrives later (discard contaminate vram -> latency)" *)
Late(n, vblank) ==
  \/ ~latch.switchres /\ n <= latch.frame
  \/ n < vga.frame \/ n < PoC.frame_ddr \/ n < PoC.frame_vram
  \/ (vblank \/ vram.pixels = 0 \/ ~vram.synced) /\ n <= vga.frame

(* A wrong wait: the first frame after a modeline goes on.                    *)
AwaitsModeline_Next(n) ==
  latch.switchres /\ n > latch.frame + 1 /\ PoC.px_vram = 0

(* A frame of the modeline requested waits for it. *)
AwaitsModeline(n) == latch.switchres /\ n > latch.frame /\ PoC.px_vram = 0

(* A wrong auto_blit: polling ends when the frame begins.                     *)
PollsOn_Begun(n) == ~(PoC.frame_ddr >= n)

(* The header is polled until its frame is drawn or passed over. *)
PollsOn(n) == ~(PoC.frame_vram >= n \/ (~latch.switchres /\ n <= latch.frame))

(* S_Blit_Header_Raw *)
BlitHeaderRaw(vblank) ==
  /\ state = "S_Blit_Header_Raw" /\ ddr # NoWord
  /\ LET n  == Field(ddr, FrameAt)
         px == Field(ddr, PixelsAt)
         bl == Field(ddr, NumBlitAt)
     IN  /\ auto_blit' = PollsOn(n)
         /\ IF Late(n, vblank)
            THEN /\ PoC' = [Dropped(PoC) EXCEPT
                       !.frame_vram = IF n > PoC.frame_vram THEN n ELSE @,
                       !.frame_ddr  = IF n > PoC.frame_vram THEN n ELSE @]
                 /\ state' = "S_Dispatcher"
            ELSE /\ PoC' = IF /\ n > PoC.frame_ddr /\ PoC.px_vram # 0
                              /\ PoC.frame_vram < PoC.frame_ddr /\ vram.synced
                           THEN [PoC EXCEPT !.px_ddr = vga.pixels,
                                            !.bl_ddr = PoC.bl_vram + 1]
                           ELSE [PoC EXCEPT !.frame_ddr = n, !.px_ddr = px,
                                            !.bl_ddr = IF px = vga.pixels
                                                       THEN PoC.bl_vram + 1 ELSE bl]
                 /\ state' = IF AwaitsModeline(n) THEN "S_Dispatcher" ELSE "S_Blit_Raw"
  /\ ddr' = NoWord
  /\ vram' = IF vram.synced THEN vram ELSE EmptyVram
  /\ UNCHANGED <<latch, burst, audio, vga>> /\ Clock

(* A wrong "prev. ddr crushed?", never asked *)
CrushedVram_Kept == vram

(* "prev. ddr crushed?" *)
CrushedVram == IF vga.pixels # vram.pixels THEN EmptyVram ELSE vram

BlitRaw ==
  /\ state = "S_Blit_Raw"
  /\ IF /\ PoC.frame_ddr > PoC.frame_vram /\ PoC.px_ddr > PoC.px_vram
        /\ PoC.bl_ddr > PoC.bl_vram
     THEN /\ PoC' = [PoC EXCEPT
                !.ddr_bytes  = PoC.px_ddr * PixelBytes,
                !.vram_bytes = IF PoC.px_vram = 0 THEN 0 ELSE @,
                !.rgb_offset = IF PoC.px_vram = 0 THEN 0 ELSE @]
          /\ vram' = IF PoC.px_vram = 0 THEN CrushedVram ELSE vram
          /\ state' = IF PoC.bl_ddr = Abort THEN "S_Blit_End_Raw"
                                            ELSE "S_Blit_Prepare_Raw"
     ELSE /\ state' = "S_Dispatcher"
          /\ UNCHANGED <<PoC, vram>>
  /\ UNCHANGED <<latch, auto_blit, ddr, burst, audio, vga>> /\ Clock

(* Bytes announced and not fetched; the last word of a frame may be partial.  *)
BytesLeft == PoC.ddr_bytes - PoC.vram_bytes
WordsLeft == BytesLeft \div WordBytes + IF PoC.px_ddr = vga.pixels THEN 1 ELSE 0

(* A wrong S_Blit_Prepare_Raw: bytes that are not a word are fetched.         *)
MoreToFetch_Bytes == PoC.vram_bytes < PoC.ddr_bytes

MoreToFetch == PoC.vram_bytes < PoC.ddr_bytes /\ WordsLeft > 0

(* vram_req_ready may be false: the step is then later. *)
PrepareRaw ==
  /\ state = "S_Blit_Prepare_Raw"
  /\ IF latch.audio = 0 /\ MoreToFetch
     THEN /\ burst' = IF BytesLeft \div WordBytes >= MaxBurst THEN MaxBurst ELSE WordsLeft
          /\ state' = "S_Blit_Copy_Raw"
     ELSE /\ state' = "S_Dispatcher" /\ UNCHANGED burst
  /\ UNCHANGED <<latch, PoC, auto_blit, ddr, audio, video>> /\ Clock

(* decode_pixel: the pixels a word completes.  Three words of RGB888 are 2, 3 *)
(* and 3 pixels.                                                              *)
PixelsOfWord ==
  IF PixelBytes = 3 THEN (IF PoC.rgb_offset = 0 THEN 2 ELSE 3)
                    ELSE WordBytes \div PixelBytes

Decoded ==
  LET left == PoC.px_ddr - PoC.px_vram
  IN  IF left < PixelsOfWord THEN left ELSE PixelsOfWord

(* S_Blit_Copy_Raw, one word of the burst.  The word after the last pixel of  *)
(* a frame completes none, and the FIFO counts on from the frame it holds     *)
(* only with a pixel written (vram_wren of rtl/vga.v).                        *)
CopyRaw ==
  /\ state = "S_Blit_Copy_Raw"
  /\ burst' = burst - 1
  /\ state' = IF burst = 1 THEN "S_Blit_End_Raw" ELSE state
  /\ IF vram.synced
     THEN /\ PoC' = [PoC EXCEPT !.vram_bytes = @ + WordBytes,
                                !.px_vram    = @ + Decoded,
                                !.rgb_offset = IF PixelBytes = 3 THEN (@ + 1) % 3
                                                                 ELSE @]
          /\ vram' = [vram EXCEPT !.pixels = IF Decoded > 0 /\ @ >= vga.pixels
                                             THEN Decoded ELSE @ + Decoded]
     ELSE /\ PoC' = [PoC EXCEPT !.vram_bytes = @ + WordBytes]
          /\ UNCHANGED vram
  /\ vga' = [vga EXCEPT !.held = FALSE, !.started = @ \/ vram.synced]
  /\ UNCHANGED <<latch, auto_blit, ddr, audio>> /\ Clock

(* S_Blit_End_Raw: the chunk is done, and perhaps the frame. *)
EndRaw ==
  /\ state = "S_Blit_End_Raw"
  /\ LET P == IF PoC.vram_bytes + 7 >= PoC.ddr_bytes
              THEN [PoC EXCEPT !.bl_vram = PoC.bl_ddr] ELSE PoC
     IN  IF PoC.px_vram >= vga.pixels \/ PoC.bl_ddr = Abort
         THEN /\ PoC' = [Dropped(P) EXCEPT
                    !.frame_vram = IF PoC.frame_ddr > @ THEN PoC.frame_ddr ELSE @]
              /\ vram' = IF ~vram.synced \/ PoC.px_vram # vga.pixels
                         THEN EmptyVram ELSE vram
              /\ state' = "S_Dispatcher"
         ELSE /\ PoC' = P
              /\ UNCHANGED vram
              /\ state' = IF latch.audio > 0 THEN "S_Dispatcher"
                                             ELSE "S_Blit_Prepare_Raw"
  /\ UNCHANGED <<latch, auto_blit, ddr, burst, audio, vga>> /\ Clock

(* S_Audio_Prepare, S_Audio_Copy, S_Audio_End: a burst *)
Audio ==
  /\ state = "S_Audio"
  /\ audio' = IF audio > MaxBurst THEN audio - MaxBurst ELSE 0
  /\ state' = IF audio' = 0 THEN "S_Dispatcher" ELSE state
  /\ UNCHANGED <<latch, PoC, auto_blit, ddr, burst, video>> /\ Clock

SwitchresHeader ==
  /\ state = "S_Switchres_Header"
  /\ state' = "S_Switchres_PLL" /\ ddr' = <<modeline>>
  /\ UNCHANGED <<latch, PoC, auto_blit, burst, audio, video>> /\ Clock

(* S_Switchres_PLL and S_Switchres_Mode, on a vblank: "raster to V + 1 and    *)
(* wait blit".                                                                *)
SwitchresMode ==
  /\ state = "S_Switchres_PLL"
  /\ vga' = [vga EXCEPT !.pixels = ddr[1], !.held = TRUE]
  /\ vram' = EmptyVram
  /\ PoC' = [PoC EXCEPT !.frame_ddr = vga.frame, !.frame_vram = 0,
                        !.px_vram = 0, !.bl_vram = 0]
  /\ auto_blit' = FALSE /\ ddr' = NoWord
  /\ state' = "S_Dispatcher"
  /\ UNCHANGED <<latch, burst, audio>> /\ Clock

-----------------------------------------------------------------------------
(* The video module *)

(* The raster begins a frame; after a modeline it stands until a blit. *)
Raster ==
  /\ vga.started /\ ~vga.held /\ vga.frame < MaxFrame
  /\ vga' = [vga EXCEPT !.frame = @ + 1]
  /\ UNCHANGED <<hpsBlit, hps, todo, memory, latch, fpga, vram, used>>

(* The raster finds the FIFO empty. *)
Starve ==
  /\ vram.synced /\ vram.pixels > 0 /\ ~vga.held /\ Upsets < MaxUpsets
  /\ vram' = [vram EXCEPT !.synced = FALSE]
  /\ used' = [used EXCEPT !.starved = @ + 1]
  /\ UNCHANGED <<hpsBlit, hps, todo, memory, latch, fpga, vga>>

-----------------------------------------------------------------------------
FpgaInit ==
  /\ hpsBlit \in BlitSettings
  /\ hps = NewSession /\ todo = <<>>
  /\ header = [at \in FrameAt .. NumBlitAt + 1 |-> 0] /\ modeline = DefaultPixels
  /\ latch = [init |-> FALSE, blit |-> FALSE, switchres |-> FALSE, frame |-> 0,
              audio |-> 0]
  /\ state = "S_Idle" /\ PoC = ZeroPoC /\ auto_blit = FALSE
  /\ ddr = NoWord /\ burst = 0 /\ audio = 0
  /\ vga = [frame |-> 0, pixels |-> DefaultPixels, held |-> FALSE, started |-> FALSE]
  /\ vram = EmptyVram
  /\ used = [blits |-> 0, modes |-> 0, sounds |-> 0, inits |-> 0, starved |-> 0]

ServerNext ==
  \/ \E n \in 1 .. MaxFrame, again \in BOOLEAN : SetBlit(n, again)
  \/ SetBlitRaw
  \/ \E tell \in BOOLEAN : Lost(tell)
  \/ \E px \in Modes : SetSwitchres(px)
  \/ SetAudio(MaxBurst + 1)
  \/ SetInit

FpgaNext ==
  \/ Idle \/ Reset
  \/ DispatchSwitchres \/ SwitchresHeader \/ SwitchresMode
  \/ DispatchAudio \/ Audio
  \/ DispatchBlit \/ ReadHeader \/ \E vblank \in BOOLEAN : BlitHeaderRaw(vblank)
  \/ BlitRaw \/ PrepareRaw \/ CopyRaw \/ EndRaw

BlitNext == ServerNext \/ Write \/ InitDone \/ FpgaNext \/ Raster \/ Starve

BlitSpec == FpgaInit /\ [][BlitNext]_fpgaVars

(* The server finishes what it writes, the core is clocked, the raster runs   *)
(* and comes to the end of a frame while a modeline waits for that.           *)
FairBlitSpec ==
  /\ BlitSpec
  /\ WF_fpgaVars(Write) /\ WF_fpgaVars(InitDone)
  /\ WF_fpgaVars(FpgaNext) /\ SF_fpgaVars(DispatchSwitchres)
  /\ WF_fpgaVars(Raster)

-----------------------------------------------------------------------------
(* Properties *)

States == {"S_Idle", "S_Dispatcher", "S_Defaults", "S_Switchres_Header",
           "S_Switchres_PLL", "S_Audio", "S_Blit_Header_Raw", "S_Blit_Raw",
           "S_Blit_Prepare_Raw", "S_Blit_Copy_Raw", "S_Blit_End_Raw"}

(* Ranges of the registers; a burst is under way exactly in S_Blit_Copy_Raw.  *)
FpgaTypeOK ==
  /\ header \in [FrameAt .. NumBlitAt + 1 -> 0 .. Byte - 1]
  /\ state \in States /\ auto_blit \in BOOLEAN
  /\ PoC \in [DOMAIN ZeroPoC -> Nat]
  /\ PoC.rgb_offset <= 2 /\ PoC.bl_ddr <= Abort
  /\ burst \in 0 .. MaxBurst /\ (burst > 0 <=> state = "S_Blit_Copy_Raw")
  /\ audio > 0 <=> state = "S_Audio"

(* The frame the core draws is the one the server receives, or has received   *)
(* whole, and neither gave it up nor went on to another.                      *)
Current ==
  /\ PoC.frame_ddr = hps.told /\ hps.told = hps.recv /\ hps.told > hps.mode
  /\ hps.open \/ hps.bytes = hps.len

Draws == PoC'.px_vram > PoC.px_vram

(* However the reads of the header fall between the writes of its bytes, a    *)
(* pixel is drawn for a frame only when all of its bytes have come.           *)
DrawsWhatCame ==
  [][Draws /\ Current => PoC'.px_vram * PixelBytes <= hps.bytes]_fpgaVars

(* As long as the raster finds pixels, a frame is drawn in the modeline it    *)
(* was sent for: not in the one before, which may still wait for the raster.  *)
OwnModeline ==
  [][Draws /\ Current /\ used.starved = 0
     => vga.pixels * PixelBytes = hps.len]_fpgaVars

(* As long as the raster finds pixels, the video FIFO holds the frame in      *)
(* progress (one that fits the modeline) from its first pixel on.             *)
VramAligned ==
  (used.starved = 0 /\ state # "S_Idle" /\ PoC.px_vram > 0 /\ PoC.px_ddr <= vga.pixels)
    => vram.pixels = PoC.px_vram

(* The last frame was told whole, and the core has not come to its end.       *)
Waiting ==
  /\ hps.recv > hps.mode /\ hps.told = hps.recv /\ hps.bytes = hps.len
  /\ PoC.frame_vram < hps.told

(* A frame received whole is drawn, or passed over for being late, unless the *)
(* server goes on to another frame, modeline or session: polling never ends   *)
(* before it, and the core never waits for it without polling.  Modelines     *)
(* that are applied are assumed (see ModelinesApplied).                       *)
FramesSettle == []<>(~latch.switchres) => []<>(~Waiting)

(* Stated by the code, and not so. *)

(* S_Dispatcher, "request modeline (apply after blit)": a modeline and a frame *)
(* sent after it do not wait for each other for ever.                         *)
ModelinesApplied == []<>(~(latch.switchres /\ Waiting))

(* S_Blit_Raw and S_Blit_End_Raw end a frame whose numBlit is 65535, which is *)
(* what the loss detection writes: no pixel of it is drawn any more.          *)
GivenUpIsNotDrawn ==
  [][Draws /\ todo = <<>> /\ hps.told = hps.recv /\ PoC.frame_ddr = hps.told
       /\ PoC.px_ddr = vga.pixels
     => hps.open \/ hps.bytes = hps.len]_fpgaVars
=============================================================================
