------------------------ MODULE GroovyReception_proofs ------------------------
(***************************************************************************)
(* Theorems about GroovyServer for every set of datagrams, whatever their  *)
(* number, order and contents, and that it implements Reception.  Besides  *)
(* the invariants of the first half the refinement needs that a frame is a *)
(* whole number of pixels, and that a frame the core is not told of until  *)
(* it is whole (hpsBlit) has indeed not been told.                         *)
(***************************************************************************)
EXTENDS GroovyReception, TLAPS

(* A datagram is dispatched out of recvbuf only after a reception was given   *)
(* up, and it is the datagram that arrived.                                   *)
RedispatchSound ==
  pc = "reconfig" => groovyServer = 2 /\ isBlitting = 0 /\ recvbuf \in Packets

(* The inductive invariant of the reception. *)
IInv == TypeOK /\ RedispatchSound /\ PriorityWhileReceiving /\ ReceptionSound

-----------------------------------------------------------------------------
(* Lemmas about the helpers *)

LEMMA ModType == ASSUME NEW a \in Nat, NEW m \in Nat \ {0}
                 PROVE  a % m \in Nat
  OBVIOUS

LEMMA BppType == ASSUME NEW rgb PROVE Bpp(rgb) \in {2, 3, 4}
  BY DEF Bpp

LEMMA PixelsType == ASSUME NEW bytes \in Nat, NEW rgb
                    PROVE  bytes \div Bpp(rgb) \in Nat /\ (bytes \div Bpp(rgb)) * Bpp(rgb) <= bytes
<1>1. CASE Bpp(rgb) = 2 BY <1>1
<1>2. CASE Bpp(rgb) = 3 BY <1>2
<1>3. CASE Bpp(rgb) = 4 BY <1>3
<1> QED BY <1>1, <1>2, <1>3, BppType

LEMMA Zero == 0 \in Nat /\ 0 \in {0, 1}
  OBVIOUS

LEMMA SizesType ==
  /\ AudioSize \in Nat /\ LZ4Size \in Nat /\ FrameRegionSize \in Nat
  /\ AudioOffset \in Nat /\ FieldOffset \in Nat
  /\ \A zone \in 0 .. 3 : LZ4Offset(zone) \in Nat
  BY DEF AudioSize, LZ4Size, FrameRegionSize, AudioOffset, FieldOffset, LZ4Offset

LEMMA ZeroPocType == ZeroPoc \in PocType /\ ZeroRaw \in RawType /\ ZeroLz4 \in Lz4Type
  BY DEF ZeroPoc, PocType, ZeroRaw, RawType, ZeroLz4, Lz4Type, Uint8, Uint16

LEMMA InitInv == Init => IInv
<1> SUFFICES ASSUME Init PROVE IInv
  OBVIOUS
<1>1. TypeOK
  BY ZeroPocType, SettingsAssumption DEF Init, TypeOK, NoReply, Uint16
<1> QED
  BY <1>1 DEF Init, IInv, RedispatchSound, PriorityWhileReceiving, ReceptionSound

-----------------------------------------------------------------------------
(* FPGA_blit keeps every field of the session but pixels_ddr and frame_ddr.    *)
LEMMA FPGA_blitType ==
  ASSUME TypeOK, NEW q \in PocType, NEW bytes \in Nat, NEW nb \in Uint16,
         FPGA_blit(q, bytes, nb)
  PROVE  /\ poc' \in PocType /\ raw' \in RawType /\ lz4' = lz4
         /\ poc'.bytes_recv = q.bytes_recv /\ poc'.bytes_len = q.bytes_len
         /\ poc'.bytes_lz4_len = q.bytes_lz4_len /\ poc'.bytes_audio_len = q.bytes_audio_len
         /\ poc'.buffer_offset = q.buffer_offset /\ poc'.field_lz4 = q.field_lz4
<1>1. bytes \div Bpp(rgbMode) \in Nat
  BY PixelsType
<1>2. q.frame_recv \in Nat /\ q.frame_recv % DdrFrameMod \in Nat
  BY FramesAssumption, ModType DEF PocType
<1>3. raw' \in RawType
  BY <1>1, <1>2 DEF FPGA_blit, RawType, TypeOK
<1>4. poc' = [q EXCEPT !.pixels_ddr = bytes \div Bpp(rgbMode), !.frame_ddr  = q.frame_recv]
  BY DEF FPGA_blit
<1> QED
  BY <1>1, <1>2, <1>3, <1>4 DEF FPGA_blit, PocType

LEMMA FPGA_blit_lz4Type ==
  ASSUME TypeOK, NEW q \in PocType, NEW bytes \in Nat, NEW nb \in Uint16,
         FPGA_blit_lz4(q, bytes, nb)
  PROVE  /\ poc' \in PocType /\ lz4' \in Lz4Type /\ raw' = raw
         /\ poc'.bytes_recv = q.bytes_recv /\ poc'.bytes_len = q.bytes_len
         /\ poc'.bytes_lz4_len = q.bytes_lz4_len /\ poc'.bytes_audio_len = q.bytes_audio_len
         /\ poc'.buffer_offset = q.buffer_offset /\ poc'.field_lz4 = q.field_lz4
<1>2. q.frame_recv \in Nat /\ q.frame_recv % DdrFrameMod \in Nat
  BY FramesAssumption, ModType DEF PocType
<1>3. lz4' \in Lz4Type
  BY <1>2 DEF FPGA_blit_lz4, Lz4Type, TypeOK
<1>4. poc' = [q EXCEPT !.bytes_lz4_ddr = bytes, !.frame_ddr = q.frame_recv]
  BY DEF FPGA_blit_lz4
<1> QED
  BY <1>2, <1>3, <1>4 DEF FPGA_blit_lz4, PocType

-----------------------------------------------------------------------------
(* What a step that ends no reception and opens none has to show. *)
LEMMA Idle ==
  ASSUME TypeOK', isBlitting' = 0, isCorePriority' = 0, pc' # "reconfig"
  PROVE  IInv'
  BY DEF IInv, RedispatchSound, PriorityWhileReceiving, ReceptionSound

(* What a step that opens or goes on with one has to show. *)
LEMMA Receiving ==
  ASSUME TypeOK', isBlitting' # 0, isCorePriority' = 1, pc' = "poll",
         groovyServer' = 2, poc' # NoPoc,
         (poc.bytes_recv < PayloadLength /\ PayloadLength <= PayloadCapacity)',
         RegionSound'
  PROVE  IInv'
  BY DEF IInv, RedispatchSound, PriorityWhileReceiving, ReceptionSound

LEMMA NoReception ==
  ASSUME IInv, isBlitting = 0 \/ isCorePriority = 0
  PROVE  isBlitting = 0 /\ isCorePriority = 0
  BY DEF IInv, PriorityWhileReceiving, TypeOK

(* What is known of a datagram that is dispatched as a command. *)
LEMMA DispatchedSound ==
  ASSUME IInv, NEW p, Dispatched(p)
  PROVE  /\ p \in PacketType /\ groovyServer = 2
         /\ isBlitting = 0 /\ isCorePriority = 0
<1>1. p \in Packets /\ groovyServer = 2 /\ isBlitting = 0
  BY DEF Dispatched, IInv, RedispatchSound
<1> QED
  BY <1>1, NoReception, PacketsAssumption

-----------------------------------------------------------------------------
(* Start and stop, and the steps of the FPGA *)

LEMMA StartWithoutMapInv == ASSUME IInv, StartWithoutMap PROVE IInv'
<1>1. TypeOK'
  BY SettingsAssumption
     DEF IInv, StartWithoutMap, TypeOK, NoReply, session, blit, headers
<1>2. isBlitting' = 0 /\ isCorePriority' = 0 /\ pc' # "reconfig"
  BY NoReception DEF StartWithoutMap, blit
<1> QED BY <1>1, <1>2, Idle

LEMMA StartInv == ASSUME IInv, NEW bound \in BOOLEAN, Start(bound) PROVE IInv'
<1>1. isBlitting' = 0 /\ isCorePriority' = 0 /\ pc' # "reconfig"
  BY NoReception DEF Start
<1>2. TypeOK'
  <2>1. CASE groovyServer = 0
    <3>1. /\ hpsBlit' \in {0, 1} /\ doScreensaver' \in {0, 1} /\ cmd_init' \in {0, 1}
          /\ raw' \in RawType /\ lz4' \in Lz4Type /\ poc' \in PocType
      BY <2>1, SettingsAssumption, ZeroPocType DEF Start
    <3>2. /\ groovyServer' \in 0 .. 2 /\ pc' \in {"poll", "logo"} /\ reply' = NoReply
          /\ UNCHANGED <<groovyLogo, isConnected, blitCompression, audioChannels,
                         rgbMode, usingOldBlit, numBlit, recvbuf, fpga_init>>
      BY DEF Start
    <3> QED
      BY <1>1, <3>1, <3>2 DEF IInv, TypeOK, NoReply
  <2>2. CASE groovyServer # 0
    BY <2>2 DEF IInv, Start, TypeOK, NoReply, headers
  <2> QED BY <2>1, <2>2
<1> QED BY <1>1, <1>2, Idle

LEMMA StopInv == ASSUME IInv, Stop PROVE IInv'
<1>1. TypeOK'
  BY DEF IInv, Stop, TypeOK, NoReply, blit, headers, fpga
<1>2. isBlitting' = 0 /\ isCorePriority' = 0 /\ pc' # "reconfig"
  BY NoReception DEF Stop, blit
<1> QED BY <1>1, <1>2, Idle

LEMMA LogoStartInv == ASSUME IInv, LogoStart PROVE IInv'
<1>1. TypeOK'
  BY DEF IInv, LogoStart, TypeOK, NoReply, WaitAt, setup, session, blit, RawType, Uint16
<1>2. isBlitting = 0
  BY DEF IInv, LogoStart, ReceptionSound
<1>3. isBlitting' = 0 /\ isCorePriority' = 0 /\ pc' # "reconfig"
  BY <1>2, NoReception DEF LogoStart, blit, WaitAt
<1> QED BY <1>1, <1>3, Idle

LEMMA InitDoneInv == ASSUME IInv, InitDone PROVE IInv'
<1>1. TypeOK'
  BY DEF IInv, InitDone, TypeOK, Ack, WaitAt, setup, session, blit, headers
<1>2. isBlitting = 0
  BY DEF IInv, InitDone, ReceptionSound
<1>3. isBlitting' = 0 /\ isCorePriority' = 0 /\ pc' # "reconfig"
  BY <1>2, NoReception DEF InitDone, blit, WaitAt
<1> QED BY <1>1, <1>3, Idle

LEMMA FpgaStepInv == ASSUME IInv, FpgaStep PROVE IInv'
<1>1. TypeOK'
  BY SMTT(60) DEF IInv, FpgaStep, FpgaLeavesIdle, FpgaReachesIdle, TypeOK, NoReply,
         setup, session, blit, headers
<1>2. UNCHANGED <<setup, session, blit, pc, recvbuf>>
  BY DEF FpgaStep, FpgaLeavesIdle, FpgaReachesIdle
<1>3. UNCHANGED <<groovyServer, pc, isBlitting, isCorePriority, recvbuf>>
  BY <1>2 DEF setup, blit
<1>4. UNCHANGED <<poc, PayloadLength, PayloadCapacity, RegionSound>>
  BY <1>2, <1>3 DEF session, PayloadLength, PayloadCapacity, RegionSound
<1>5. RedispatchSound' /\ PriorityWhileReceiving'
  BY <1>3 DEF IInv, RedispatchSound, PriorityWhileReceiving
<1>6. ReceptionSound'
  BY <1>3, <1>4 DEF IInv, ReceptionSound
<1> QED BY <1>1, <1>5, <1>6 DEF IInv

-----------------------------------------------------------------------------
(* The commands that open no reception *)

LEMMA CloseInv ==
  ASSUME IInv, NEW p, NEW allocated \in BOOLEAN, Close(p, allocated)
  PROVE  IInv'
<1>1. Dispatched(p)
  BY DEF Close, Command
<1>2. TypeOK'
  BY ZeroPocType DEF IInv, Close, TypeOK, NoReply, WaitAt, setup, Uint16
<1>3. isBlitting' = 0 /\ isCorePriority' = 0 /\ pc' # "reconfig"
  BY <1>1, DispatchedSound DEF Close, WaitAt
<1> QED BY <1>2, <1>3, Idle

LEMMA Init_Inv == ASSUME IInv, NEW p, Init_(p) PROVE IInv'
<1>1. p \in PacketType /\ isCorePriority = 0
  BY DispatchedSound DEF Init_, Command
<1>2. /\ blitCompression' \in {0, 1} /\ audioChannels' \in 0 .. 2 /\ rgbMode' \in 0 .. 2
  BY <1>1 DEF Init_, PacketType, Uint8
<1>3. cmd_init' \in {0, 1} /\ groovyLogo' \in {0, 1}
  BY DEF Init_, StopLogo, IInv, TypeOK
<1>4. TypeOK'
  BY <1>2, <1>3, ZeroPocType
     DEF IInv, Init_, TypeOK, NoReply, WaitAt, setup, Uint16
<1>5. isBlitting' = 0 /\ isCorePriority' = 0 /\ pc' # "reconfig"
  BY <1>1 DEF Init_, WaitAt
<1> QED BY <1>4, <1>5, Idle

LEMMA InitFailsInv == ASSUME IInv, NEW p, InitFails(p) PROVE IInv'
<1>1. Dispatched(p)
  BY DEF InitFails, Command
<1>2. TypeOK'
  BY DEF IInv, InitFails, TypeOK, NoReply, BackToPoll, setup, blit, headers, fpga
<1>3. isBlitting' = 0 /\ isCorePriority' = 0 /\ pc' # "reconfig"
  BY <1>1, DispatchedSound DEF InitFails, BackToPoll, blit
<1> QED BY <1>2, <1>3, Idle

LEMMA AnswerInv ==
  ASSUME IInv, NEW p, GetVersion(p) \/ GetStatus(p) \/ Ignore(p)
  PROVE  IInv'
<1>1. Dispatched(p)
  BY DEF GetVersion, GetStatus, Ignore, Command
<1>2. UNCHANGED <<setup, groovyLogo, session, blit, headers, fpga>> /\ BackToPoll
  BY DEF GetVersion, GetStatus, Ignore
<1>3. reply' \in [type : {"none", "version", "ack"}, frame : Nat]
  BY DEF GetVersion, GetStatus, Ignore, NoReply, Ack
<1>4. TypeOK'
  BY <1>2, <1>3 DEF IInv, TypeOK, BackToPoll, setup, session, blit, headers, fpga
<1>5. isBlitting' = 0 /\ isCorePriority' = 0 /\ pc' # "reconfig"
  BY <1>1, <1>2, DispatchedSound DEF BackToPoll, blit
<1> QED BY <1>4, <1>5, Idle

LEMMA SwitchresInv == ASSUME IInv, NEW p, Switchres(p) PROVE IInv'
<1>1. Dispatched(p) /\ p \in PacketType /\ poc \in PocType
  BY DispatchedSound DEF Switchres, Command, ModelineValid, IInv, TypeOK
<1>2. poc' \in PocType
  <2>1. PICK vga_frame \in VgaFrames :
          LET pixels == IF p.interlace = 1 THEN p.px \div 2 ELSE p.px
              progressive == IF p.interlace = 1 THEN 0 ELSE 1
              last == IF usingOldBlit = 1 /\ progressive = 0 /\ vga_frame > poc.frame_ddr
                      THEN vga_frame ELSE poc.frame_ddr
          IN poc' = [poc EXCEPT !.pixels_ddr = 0,
                                !.FB_progressive = progressive,
                                !.field_frame = (last + 1) % FrameMod,
                                !.field = 0,
                                !.pixels_len = pixels,
                                !.bytes_len = pixels * Bpp(rgbMode),
                                !.bytes_recv = 0,
                                !.buffer_offset = 0]
    BY DEF Switchres
  <2> DEFINE pixels == IF p.interlace = 1 THEN p.px \div 2 ELSE p.px
             progressive == IF p.interlace = 1 THEN 0 ELSE 1
             last == IF usingOldBlit = 1 /\ progressive = 0 /\ vga_frame > poc.frame_ddr
                     THEN vga_frame ELSE poc.frame_ddr
             number == (last + 1) % FrameMod
             bytes == pixels * Bpp(rgbMode)
  <2>2. pixels \in Nat
    BY <1>1 DEF PacketType
  <2>3. bytes \in Nat
    BY <2>2, BppType
  <2>4. number \in Nat
    <3>1. last + 1 \in Nat
      BY <1>1, FramesAssumption DEF PocType
    <3> QED BY <3>1, ModType, FramesAssumption
  <2>5. progressive \in {0, 1}
    OBVIOUS
  <2> HIDE DEF pixels, progressive, number, bytes
  <2>6. poc' = [poc EXCEPT !.pixels_ddr = 0,
                           !.FB_progressive = progressive,
                           !.field_frame = number,
                           !.field = 0,
                           !.pixels_len = pixels,
                           !.bytes_len = bytes,
                           !.bytes_recv = 0,
                           !.buffer_offset = 0]
    BY <2>1 DEF pixels, progressive, number, bytes
  <2> QED
    BY <1>1, <2>2, <2>3, <2>4, <2>5, <2>6, Zero, Zenon DEF PocType
<1>3. raw' \in RawType
  <2>1. raw \in RawType /\ raw.pixels \in Nat /\ 0 \in Uint16
    BY DEF IInv, TypeOK, RawType, Uint16
  <2>2. raw.pixels % 256 \in Nat
    BY <2>1
  <2>3. raw' = [raw EXCEPT !.pixels = raw.pixels % 256, !.numBlit = 0]
    BY DEF Switchres
  <2> QED BY <2>1, <2>2, <2>3, Zenon DEF RawType
<1>4. TypeOK'
  BY <1>2, <1>3 DEF IInv, Switchres, TypeOK, NoReply, BackToPoll, setup, blit, fpga
<1>5. isBlitting' = 0 /\ isCorePriority' = 0 /\ pc' # "reconfig"
  BY <1>1, DispatchedSound DEF Switchres, BackToPoll, blit
<1> QED BY <1>4, <1>5, Idle

-----------------------------------------------------------------------------
(* The commands that open a reception *)

LEMMA AudioInv == ASSUME IInv, NEW p, Audio(p) PROVE IInv'
<1>1. /\ Dispatched(p) /\ p \in PacketType /\ groovyServer = 2
      /\ poc \in PocType /\ p.size \in Nat /\ 1 <= p.size /\ p.size <= AudioSize
  <2>1. Dispatched(p) /\ Validated(p) /\ p.cmd = "AUDIO" /\ p.size \in 1 .. AudioSize
    BY Zenon DEF Audio, Command
  <2>2. p \in PacketType /\ groovyServer = 2
    BY <2>1, DispatchedSound
  <2>3. poc \in PocType
    BY <2>1 DEF Validated, IInv, TypeOK
  <2>4. p.size \in Nat
    BY <2>2 DEF PacketType
  <2> QED
    BY <2>1, <2>2, <2>3, <2>4, SizesType
<1>2. poc' = [poc EXCEPT !.bytes_audio_len = p.size, !.buffer_offset = AudioOffset,
                         !.bytes_recv = 0]
  BY DEF Audio
<1>3. poc' \in PocType
  BY <1>1, <1>2, Zero, SizesType, Zenon DEF PocType
<1>4. /\ poc'.bytes_audio_len = p.size /\ poc'.buffer_offset = AudioOffset
      /\ poc'.bytes_recv = 0
  BY <1>1, <1>2, Zenon DEF PocType
<1>5. TypeOK'
  BY <1>3 DEF IInv, Audio, TypeOK, NoReply, BackToPoll, setup, headers, fpga
<1>6. /\ isBlitting' = 2 /\ isCorePriority' = 1 /\ pc' = "poll" /\ groovyServer' = 2
      /\ UNCHANGED blitCompression
  BY <1>1 DEF Audio, BackToPoll, setup
<1>7. poc' # NoPoc
  BY <1>3, NoPocAssumption
<1>8. (poc.bytes_recv < PayloadLength /\ PayloadLength <= PayloadCapacity)'
  <2>1. PayloadLength' = p.size
    BY <1>4, <1>6, <1>7 DEF PayloadLength
  <2>2. PayloadCapacity' = AudioSize
    BY <1>6 DEF PayloadCapacity
  <2> QED BY <1>1, <1>4, <2>1, <2>2, SizesType
<1>9. RegionSound'
  BY <1>4, <1>6 DEF RegionSound
<1> QED
  BY <1>5, <1>6, <1>7, <1>8, <1>9, Receiving

(* The session after the assignments of setBlit. *)
LEMMA BlitPocType ==
  ASSUME TypeOK, NEW p \in PacketType, poc \in PocType, BlitValid(p)
  PROVE  /\ BlitPoc(p) \in PocType
         /\ BlitPoc(p).bytes_recv = IF Duplicate(p) THEN poc.bytes_len ELSE 0
         /\ BlitPoc(p).bytes_len = poc.bytes_len
         /\ BlitPoc(p).bytes_lz4_len = BlitSize(p)
         /\ BlitPoc(p).buffer_offset = IF blitCompression # 0 THEN LZ4Offset(poc.field_lz4)
                                       ELSE IF FieldOf(p) = 1 THEN FieldOffset ELSE 0
         /\ BlitPoc(p).field_lz4 = IF blitCompression # 0 THEN NextZone ELSE 0
<1> DEFINE received == IF Duplicate(p) THEN poc.bytes_len ELSE 0
           offset   == IF blitCompression # 0 THEN LZ4Offset(poc.field_lz4)
                       ELSE IF FieldOf(p) = 1 THEN FieldOffset ELSE 0
           zone     == IF blitCompression # 0 THEN NextZone ELSE 0
           delta    == IF blitCompression # 0 THEN BlitDelta(p) ELSE poc.delta_lz4
<1>1. /\ p.frame \in Nat /\ p.delta \in Uint8 /\ p.size \in Nat
      /\ poc.bytes_len \in Nat /\ poc.field_lz4 \in 0 .. 3 /\ poc.delta_lz4 \in Uint8
      /\ poc.field_frame \in Nat
  BY DEF PacketType, PocType
<1>2. received \in Nat
  BY <1>1
<1>3. offset \in Nat
  BY <1>1, SizesType
<1>4. zone \in 0 .. 3
  BY <1>1 DEF NextZone
<1>5. delta \in Uint8
  BY <1>1 DEF BlitDelta, Uint8
<1>6. BlitSize(p) \in Nat
  BY <1>1 DEF BlitSize
<1>7. FieldOf(p) \in {0, 1}
  BY <1>1 DEF FieldOf
<1>8. BlitPoc(p) =
        [poc EXCEPT !.frame_recv    = p.frame,
                    !.bytes_recv    = received,
                    !.bytes_lz4_ddr = 0,
                    !.bytes_lz4_len = BlitSize(p),
                    !.field         = FieldOf(p),
                    !.buffer_offset = offset,
                    !.field_lz4     = zone,
                    !.delta_lz4     = delta]
  BY DEF BlitPoc
<1> HIDE DEF received, offset, zone, delta
<1> DEFINE half == [poc EXCEPT !.frame_recv = p.frame, !.bytes_recv = received,
                               !.bytes_lz4_ddr = 0, !.bytes_lz4_len = BlitSize(p)]
           whole == [half EXCEPT !.field = FieldOf(p), !.buffer_offset = offset,
                                 !.field_lz4 = zone, !.delta_lz4 = delta]
<1>9. BlitPoc(p) \in PocType
  <2>1. half \in PocType
    BY <1>1, <1>2, <1>6, Zero, Zenon DEF PocType
  <2>2. BlitPoc(p) = whole
    BY <1>8, Zenon
  <2> HIDE DEF half
  <2>3. whole \in PocType
    BY <2>1, <1>3, <1>4, <1>5, <1>7, Zenon DEF PocType
  <2> QED
    BY <2>2, <2>3
<1>10. /\ BlitPoc(p).bytes_recv = received /\ BlitPoc(p).bytes_len = poc.bytes_len
       /\ BlitPoc(p).bytes_lz4_len = BlitSize(p) /\ BlitPoc(p).buffer_offset = offset
       /\ BlitPoc(p).field_lz4 = zone
  BY <1>8, Zenon DEF PocType
<1> QED
  BY <1>9, <1>10 DEF received, offset, zone

(* What setBlit leaves: the session, the globals and the header the FPGA polls. *)
LEMMA BlitEffect ==
  ASSUME IInv, NEW p, Blit(p)
  PROVE  /\ p \in PacketType /\ BlitValid(p)
         /\ groovyServer = 2 /\ isBlitting = 0 /\ poc \in PocType /\ TypeOK
         /\ isBlitting' = IF Duplicate(p) THEN 0 ELSE 1
         /\ isCorePriority' = IF Duplicate(p) THEN 0 ELSE 1
         /\ numBlit' = IF Duplicate(p) THEN 1 ELSE 0
         /\ usingOldBlit' = IF p.cmd = "BLIT_VSYNC" THEN 1 ELSE usingOldBlit
         /\ reply' = Ack(p.frame) /\ pc' = "poll" /\ recvbuf' = NoPacket
         /\ UNCHANGED <<setup, groovyLogo, isConnected, blitCompression, audioChannels,
                        rgbMode, fpga>>
         /\ poc' \in PocType /\ raw' \in RawType /\ lz4' \in Lz4Type
         /\ poc'.bytes_recv = BlitPoc(p).bytes_recv /\ poc'.bytes_len = BlitPoc(p).bytes_len
         /\ poc'.bytes_lz4_len = BlitPoc(p).bytes_lz4_len
         /\ poc'.buffer_offset = BlitPoc(p).buffer_offset
         /\ poc'.field_lz4 = BlitPoc(p).field_lz4
<1>1. /\ Dispatched(p) /\ BlitValid(p) /\ IsBlit(p) /\ poc # NoPoc
  BY Zenon DEF Blit, BlitValid
<1>2. /\ p \in PacketType /\ groovyServer = 2 /\ isBlitting = 0 /\ poc \in PocType /\ TypeOK
  BY <1>1, DispatchedSound DEF IInv, TypeOK
<1>3. /\ isBlitting' = IF Duplicate(p) THEN 0 ELSE 1
      /\ isCorePriority' = IF Duplicate(p) THEN 0 ELSE 1
      /\ numBlit' = IF Duplicate(p) THEN 1 ELSE 0
      /\ usingOldBlit' = IF p.cmd = "BLIT_VSYNC" THEN 1 ELSE usingOldBlit
      /\ reply' = Ack(p.frame) /\ pc' = "poll" /\ recvbuf' = NoPacket
      /\ UNCHANGED <<setup, groovyLogo, isConnected, blitCompression, audioChannels,
                     rgbMode, fpga>>
  BY DEF Blit, BackToPoll
<1>4. numBlit' \in Uint16 /\ 0 \in Uint16 /\ BlitPoc(p).bytes_recv \in Nat
  BY <1>1, <1>2, <1>3, BlitPocType DEF Uint16, PocType
<1>5. /\ poc' \in PocType /\ raw' \in RawType /\ lz4' \in Lz4Type
      /\ poc'.bytes_recv = BlitPoc(p).bytes_recv /\ poc'.bytes_len = BlitPoc(p).bytes_len
      /\ poc'.bytes_lz4_len = BlitPoc(p).bytes_lz4_len
      /\ poc'.buffer_offset = BlitPoc(p).buffer_offset
      /\ poc'.field_lz4 = BlitPoc(p).field_lz4
  <2> DEFINE Q == BlitPoc(p)
  <2>1. Q \in PocType
    BY <1>1, <1>2, BlitPocType
  <2>2. raw \in RawType /\ lz4 \in Lz4Type
    BY <1>2 DEF TypeOK
  <2> HIDE DEF Q
  <2>3. CASE (hpsBlit = 0 \/ Duplicate(p)) /\ blitCompression # 0
    <3>1. FPGA_blit_lz4(Q, 0, 0)
      BY <2>3 DEF Blit, Q
    <3> QED BY <1>2, <1>4, <2>1, <2>2, <3>1, FPGA_blit_lz4Type DEF Q
  <2>4. CASE (hpsBlit = 0 \/ Duplicate(p)) /\ blitCompression = 0
    <3>1. FPGA_blit(Q, Q.bytes_recv, numBlit')
      BY <2>4 DEF Blit, Q
    <3> QED BY <1>2, <1>4, <2>1, <2>2, <3>1, FPGA_blitType DEF Q
  <2>5. CASE ~ (hpsBlit = 0 \/ Duplicate(p))
    <3>1. poc' = [Q EXCEPT !.pixels_ddr = 0] /\ raw' = raw /\ lz4' = lz4
      BY <2>5 DEF Blit, Q, headers
    <3>2. poc' \in PocType
      BY <2>1, <3>1, Zero, Zenon DEF PocType
    <3>3. /\ poc'.bytes_recv = Q.bytes_recv /\ poc'.bytes_len = Q.bytes_len
          /\ poc'.bytes_lz4_len = Q.bytes_lz4_len /\ poc'.buffer_offset = Q.buffer_offset
          /\ poc'.field_lz4 = Q.field_lz4
      BY <2>1, <3>1, Zenon DEF PocType
    <3> QED BY <2>2, <3>1, <3>2, <3>3 DEF Q
  <2> QED BY <2>3, <2>4, <2>5
<1> QED BY <1>1, <1>2, <1>3, <1>5

LEMMA BlitInv == ASSUME IInv, NEW p, Blit(p) PROVE IInv'
<1> USE BlitEffect
<1>1. TypeOK'
  <2>1. p.frame \in Nat
    BY DEF PacketType
  <2> QED BY <2>1 DEF TypeOK, Ack, setup, fpga, Uint16
<1>2. CASE Duplicate(p)
  BY <1>1, <1>2, Idle
<1>3. CASE ~ Duplicate(p)
  <2>1. poc' # NoPoc
    BY NoPocAssumption
  <2>2. (poc.bytes_recv < PayloadLength /\ PayloadLength <= PayloadCapacity)'
    <3>1. poc'.bytes_recv = 0
      BY <1>3, BlitPocType
    <3>2. CASE blitCompression = 0
      <4>1. PayloadLength' = poc.bytes_len /\ PayloadCapacity' = FrameRegionSize
        BY <1>3, <2>1, <3>2, BlitPocType
           DEF PayloadLength, PayloadCapacity
      <4> QED
        BY <3>1, <4>1, SizesType DEF BlitValid
    <3>3. CASE blitCompression # 0
      <4>1. PayloadLength' = BlitSize(p) /\ PayloadCapacity' = LZ4Size
        BY <1>3, <2>1, <3>3, BlitPocType
           DEF PayloadLength, PayloadCapacity
      <4> QED
        BY <3>1, <3>3, <4>1, SizesType DEF BlitValid
    <3> QED BY <3>2, <3>3
  <2>3. RegionSound'
    <3>1. poc.field_lz4 \in 0 .. 3
      BY DEF PocType
    <3>2. /\ blitCompression # 0 => poc'.buffer_offset = LZ4Offset(poc.field_lz4)
          /\ blitCompression = 0 => poc'.buffer_offset \in {0, FieldOffset}
      BY BlitPocType
    <3> QED BY <1>3, <3>1, <3>2 DEF RegionSound
  <2> QED
    BY <1>1, <1>3, <2>1, <2>2, <2>3, Receiving DEF setup
<1> QED BY <1>2, <1>3

-----------------------------------------------------------------------------
(* Payload *)

(* What is known when a datagram arrives inside a reception. *)
LEMMA PayloadSound ==
  ASSUME IInv, NEW p, Payload(p)
  PROVE  /\ p \in PacketType /\ p.len \in Nat /\ TypeOK
         /\ groovyServer = 2 /\ pc = "poll" /\ poc \in PocType /\ poc # NoPoc
         /\ isBlitting # 0 /\ isCorePriority = 1
         /\ poc.bytes_recv < PayloadLength /\ PayloadLength <= PayloadCapacity
         /\ RegionSound
<1>1. p \in PacketType /\ p.len \in Nat
  BY PacketsAssumption DEF Payload, PacketType
<1> QED
  BY <1>1 DEF Payload, IInv, ReceptionSound, PriorityWhileReceiving, TypeOK

LEMMA RejectPayloadInv == ASSUME IInv, NEW p, RejectPayload(p) PROVE IInv'
<1>1. isBlitting' = 0 /\ isCorePriority' = 0 /\ pc' # "reconfig"
  BY PayloadSound DEF RejectPayload
<1>2. TypeOK'
  BY PayloadSound DEF RejectPayload, TypeOK, Quiet, NoReply, setup, session, headers, fpga
<1> QED BY <1>1, <1>2, Idle

LEMMA SkipNoModelineInv == ASSUME IInv, NEW p, SkipNoModeline(p) PROVE IInv'
<1>1. isBlitting' = 0 /\ isCorePriority' = 0 /\ pc' # "reconfig"
  BY PayloadSound DEF SkipNoModeline
<1>2. TypeOK'
  BY PayloadSound DEF SkipNoModeline, TypeOK, Quiet, NoReply, setup, session, headers, fpga
<1> QED BY <1>1, <1>2, Idle

LEMMA LosePayloadInv == ASSUME IInv, NEW p, LosePayload(p) PROVE IInv'
<1>1. Payload(p) /\ p \in Packets
  BY DEF LosePayload, LossDetected, Payload
<1>2. /\ TypeOK /\ poc \in PocType /\ groovyServer = 2 /\ pc = "poll"
      /\ AbortBlit \in Uint16 /\ poc.bytes_len \in Nat /\ poc.bytes_lz4_len \in Nat
  BY <1>1, PayloadSound DEF AbortBlit, Uint16, PocType
<1>3. poc' \in PocType /\ raw' \in RawType /\ lz4' \in Lz4Type
  <2>1. CASE isBlitting = 1 /\ hpsBlit = 0 /\ blitCompression # 0
    <3>1. FPGA_blit_lz4(poc, poc.bytes_lz4_len, AbortBlit)
      BY <2>1, Zenon DEF LosePayload
    <3> QED BY <1>2, <3>1, FPGA_blit_lz4Type DEF TypeOK
  <2>2. CASE isBlitting = 1 /\ hpsBlit = 0 /\ blitCompression = 0
    <3>1. FPGA_blit(poc, poc.bytes_len, AbortBlit)
      BY <2>2, Zenon DEF LosePayload
    <3> QED BY <1>2, <3>1, FPGA_blitType DEF TypeOK
  <2>3. CASE ~ (isBlitting = 1 /\ hpsBlit = 0)
    <3>1. UNCHANGED <<poc, raw, lz4>>
      BY <2>3, Zenon DEF LosePayload, headers
    <3> QED BY <1>2, <3>1 DEF TypeOK
  <2> QED BY <2>1, <2>2, <2>3
<1>4. /\ isBlitting' = 0 /\ isCorePriority' = 0 /\ reply' = NoReply
      /\ UNCHANGED <<setup, groovyLogo, isConnected, blitCompression, audioChannels,
                     rgbMode, usingOldBlit, numBlit, fpga>>
      /\ \/ pc' = "reconfig" /\ recvbuf' = p
         \/ UNCHANGED <<pc, recvbuf>>
  BY Zenon DEF LosePayload
<1>5. TypeOK'
  BY <1>1, <1>2, <1>3, <1>4 DEF TypeOK, NoReply, setup, fpga
<1>6. RedispatchSound'
  BY <1>1, <1>2, <1>4 DEF RedispatchSound, setup
<1> QED
  BY <1>4, <1>5, <1>6 DEF IInv, PriorityWhileReceiving, ReceptionSound

(* A chunk that was accepted: only the progress of the reception changes. *)
LEMMA ChunkInv ==
  ASSUME IInv, NEW p, NEW kind \in {1, 2}, Accepted(p, kind),
         Progress(poc.bytes_recv + p.len, PayloadLength, kind),
         poc' \in PocType, raw' \in RawType, lz4' \in Lz4Type, numBlit' \in Uint16,
         poc'.bytes_recv = poc.bytes_recv + p.len,
         poc.bytes_recv + p.len < PayloadLength => poc'.buffer_offset = poc.buffer_offset,
         poc'.bytes_len = poc.bytes_len, poc'.bytes_lz4_len = poc.bytes_lz4_len,
         poc'.bytes_audio_len = poc.bytes_audio_len
  PROVE  IInv'
<1>1. /\ TypeOK /\ pc = "poll" /\ groovyServer = 2 /\ isBlitting = kind
      /\ isCorePriority = 1 /\ poc # NoPoc /\ PayloadLength <= PayloadCapacity
      /\ RegionSound
  BY PayloadSound DEF Accepted
<1>2. /\ reply' = NoReply
      /\ UNCHANGED <<setup, groovyLogo, isConnected, blitCompression, audioChannels,
                     rgbMode, usingOldBlit, pc, recvbuf, fpga>>
  BY DEF Accepted
<1>3. TypeOK'
  <2>1. isBlitting' \in {0, kind} /\ isCorePriority' \in {0, 1}
    BY <1>1 DEF Progress
  <2> QED BY <1>1, <1>2, <2>1 DEF TypeOK, NoReply, setup, fpga
<1>4. poc' # NoPoc
  BY NoPocAssumption
<1>5. CASE poc.bytes_recv + p.len >= PayloadLength
  <2>1. isBlitting' = 0 /\ isCorePriority' = 0
    BY <1>5 DEF Progress
  <2> QED BY <1>1, <1>2, <1>3, <2>1, Idle
<1>6. CASE poc.bytes_recv + p.len < PayloadLength
  <2>1. isBlitting' = kind /\ isCorePriority' = 1
    <3>1. ~ (poc.bytes_recv + p.len >= PayloadLength)
      <4>1. poc.bytes_recv + p.len \in Nat /\ PayloadLength \in Nat
        BY PayloadSound DEF Accepted, PayloadLength, PocType
      <4> QED BY <1>6, <4>1
    <3> QED BY <1>1, <3>1, Zenon DEF Progress
  <2>2. PayloadLength' = PayloadLength /\ PayloadCapacity' = PayloadCapacity
    BY <1>1, <1>2, <1>4, <2>1 DEF PayloadLength, PayloadCapacity
  <2>3. RegionSound'
    BY <1>1, <1>2, <1>6, <2>1 DEF RegionSound
  <2>4. groovyServer' = 2 /\ pc' = "poll"
    BY <1>1, <1>2 DEF setup
  <2> QED
    BY <1>1, <1>3, <1>4, <1>6, <2>1, <2>2, <2>3, <2>4, Receiving
<1>7. PayloadLength \in Int /\ poc.bytes_recv + p.len \in Int
  BY PayloadSound DEF Accepted, PayloadLength, PocType
<1> QED BY <1>5, <1>6, <1>7

LEMMA RawChunkInv == ASSUME IInv, NEW p, RawChunk(p) PROVE IInv'
<1> DEFINE received == poc.bytes_recv + p.len
           done  == received >= poc.bytes_len
           asap  == hpsBlit = 0
           told  == IF asap THEN received \div Bpp(rgbMode) ELSE poc.pixels_ddr
           atEnd == done /\ told < poc.pixels_len
           times == (IF asap THEN 1 ELSE 0) + (IF atEnd THEN 1 ELSE 0)
           rest  == IF done THEN 0 ELSE poc.buffer_offset
           q     == [poc EXCEPT !.bytes_recv = received, !.buffer_offset = rest]
<1>1. /\ Accepted(p, 1) /\ blitCompression = 0
      /\ Progress(received, poc.bytes_len, 1)
      /\ numBlit' = Increment(numBlit, times)
      /\ IF times > 0
         THEN FPGA_blit(q, received, numBlit')
         ELSE poc' = q /\ spi' = <<>> /\ UNCHANGED headers
  BY DEF RawChunk
<1>2. /\ p.len \in Nat /\ poc \in PocType /\ poc # NoPoc /\ TypeOK /\ isBlitting = 1
      /\ poc.bytes_recv \in Nat /\ poc.buffer_offset \in Nat
  BY <1>1, PayloadSound DEF Accepted, PocType
<1>3. PayloadLength = poc.bytes_len
  BY <1>1, <1>2 DEF PayloadLength
<1>4. numBlit' \in Uint16
  <2>1. numBlit \in Nat /\ times \in Nat
    BY <1>2 DEF TypeOK, Uint16
  <2> HIDE DEF times
  <2> QED BY <1>1, <2>1 DEF Increment, Uint16
<1>5. received \in Nat /\ rest \in Nat
  BY <1>2
<1> HIDE DEF received, rest, times
<1>6. q \in PocType
  BY <1>2, <1>5, Zenon DEF PocType
<1>7. /\ q.bytes_recv = received /\ q.buffer_offset = rest
      /\ q.bytes_len = poc.bytes_len /\ q.bytes_lz4_len = poc.bytes_lz4_len
      /\ q.bytes_audio_len = poc.bytes_audio_len
  BY <1>2, Zenon DEF PocType
<1> HIDE DEF q
<1>8. /\ poc' \in PocType /\ raw' \in RawType /\ lz4' \in Lz4Type
      /\ poc'.bytes_recv = q.bytes_recv /\ poc'.buffer_offset = q.buffer_offset
      /\ poc'.bytes_len = q.bytes_len /\ poc'.bytes_lz4_len = q.bytes_lz4_len
      /\ poc'.bytes_audio_len = q.bytes_audio_len
  <2>1. CASE times > 0
    <3>1. FPGA_blit(q, received, numBlit')
      BY <1>1, <2>1
    <3> QED BY <1>2, <1>4, <1>5, <1>6, <3>1, FPGA_blitType DEF TypeOK
  <2>2. CASE ~ (times > 0)
    <3>1. poc' = q /\ raw' = raw /\ lz4' = lz4
      BY <1>1, <2>2, Zenon DEF headers
    <3> QED BY <1>2, <1>6, <3>1 DEF TypeOK
  <2> QED BY <2>1, <2>2
<1>9. received < poc.bytes_len => rest = poc.buffer_offset
  <2>1. poc.bytes_len \in Nat
    BY <1>2 DEF PocType
  <2> QED BY <1>5, <2>1 DEF rest
<1> QED
  BY <1>1, <1>3, <1>4, <1>7, <1>8, <1>9, ChunkInv DEF received

LEMMA Lz4ChunkInv == ASSUME IInv, NEW p, Lz4Chunk(p) PROVE IInv'
<1> DEFINE received == poc.bytes_recv + p.len
           done  == received >= poc.bytes_lz4_len
           asap  == hpsBlit = 0
           told  == IF asap THEN received ELSE poc.bytes_lz4_ddr
           atEnd == done /\ told < poc.bytes_lz4_len
           times == (IF asap THEN 1 ELSE 0) + (IF atEnd THEN 1 ELSE 0)
           rest  == IF done THEN 0 ELSE poc.buffer_offset
           q     == [poc EXCEPT !.bytes_recv = received, !.buffer_offset = rest]
<1>1. /\ Accepted(p, 1) /\ blitCompression # 0
      /\ Progress(received, poc.bytes_lz4_len, 1)
      /\ numBlit' = Increment(numBlit, times)
      /\ IF times > 0
         THEN FPGA_blit_lz4(q, received, numBlit')
         ELSE poc' = q /\ spi' = <<>> /\ UNCHANGED headers
  BY DEF Lz4Chunk
<1>2. /\ p.len \in Nat /\ poc \in PocType /\ poc # NoPoc /\ TypeOK /\ isBlitting = 1
      /\ poc.bytes_recv \in Nat /\ poc.buffer_offset \in Nat
  BY <1>1, PayloadSound DEF Accepted, PocType
<1>3. PayloadLength = poc.bytes_lz4_len
  BY <1>1, <1>2 DEF PayloadLength
<1>4. numBlit' \in Uint16
  <2>1. numBlit \in Nat /\ times \in Nat
    BY <1>2 DEF TypeOK, Uint16
  <2> HIDE DEF times
  <2> QED BY <1>1, <2>1 DEF Increment, Uint16
<1>5. received \in Nat /\ rest \in Nat
  BY <1>2
<1> HIDE DEF received, rest, times
<1>6. q \in PocType
  BY <1>2, <1>5, Zenon DEF PocType
<1>7. /\ q.bytes_recv = received /\ q.buffer_offset = rest
      /\ q.bytes_len = poc.bytes_len /\ q.bytes_lz4_len = poc.bytes_lz4_len
      /\ q.bytes_audio_len = poc.bytes_audio_len
  BY <1>2, Zenon DEF PocType
<1> HIDE DEF q
<1>8. /\ poc' \in PocType /\ raw' \in RawType /\ lz4' \in Lz4Type
      /\ poc'.bytes_recv = q.bytes_recv /\ poc'.buffer_offset = q.buffer_offset
      /\ poc'.bytes_len = q.bytes_len /\ poc'.bytes_lz4_len = q.bytes_lz4_len
      /\ poc'.bytes_audio_len = q.bytes_audio_len
  <2>1. CASE times > 0
    <3>1. FPGA_blit_lz4(q, received, numBlit')
      BY <1>1, <2>1
    <3> QED BY <1>2, <1>4, <1>5, <1>6, <3>1, FPGA_blit_lz4Type DEF TypeOK
  <2>2. CASE ~ (times > 0)
    <3>1. poc' = q /\ raw' = raw /\ lz4' = lz4
      BY <1>1, <2>2, Zenon DEF headers
    <3> QED BY <1>2, <1>6, <3>1 DEF TypeOK
  <2> QED BY <2>1, <2>2
<1>9. received < poc.bytes_lz4_len => rest = poc.buffer_offset
  <2>1. poc.bytes_lz4_len \in Nat
    BY <1>2 DEF PocType
  <2> QED BY <1>5, <2>1 DEF rest
<1> QED
  BY <1>1, <1>3, <1>4, <1>7, <1>8, <1>9, ChunkInv DEF received

LEMMA AudioChunkInv == ASSUME IInv, NEW p, AudioChunk(p) PROVE IInv'
<1> DEFINE received == poc.bytes_recv + p.len
           rest == IF received >= poc.bytes_audio_len THEN 0 ELSE poc.buffer_offset
<1>1. /\ Accepted(p, 2) /\ Progress(received, poc.bytes_audio_len, 2)
      /\ poc' = [poc EXCEPT !.bytes_recv = received, !.buffer_offset = rest]
      /\ numBlit' = numBlit /\ raw' = raw /\ lz4' = lz4
  BY DEF AudioChunk, headers
<1>2. /\ p.len \in Nat /\ poc \in PocType /\ poc # NoPoc /\ TypeOK /\ isBlitting = 2
      /\ poc.bytes_recv \in Nat /\ poc.buffer_offset \in Nat /\ poc.bytes_audio_len \in Nat
  BY <1>1, PayloadSound DEF Accepted, PocType
<1>3. PayloadLength = poc.bytes_audio_len
  BY <1>2 DEF PayloadLength
<1>4. received \in Nat /\ rest \in Nat
  BY <1>2
<1>5. received < poc.bytes_audio_len => rest = poc.buffer_offset
  BY <1>2, <1>4
<1> HIDE DEF received, rest
<1>6. poc' \in PocType
  BY <1>1, <1>2, <1>4, Zenon DEF PocType
<1>7. /\ poc'.bytes_recv = received /\ poc'.buffer_offset = rest
      /\ poc'.bytes_len = poc.bytes_len /\ poc'.bytes_lz4_len = poc.bytes_lz4_len
      /\ poc'.bytes_audio_len = poc.bytes_audio_len
  BY <1>1, <1>2, Zenon DEF PocType
<1>8. raw' \in RawType /\ lz4' \in Lz4Type /\ numBlit' \in Uint16
  BY <1>1, <1>2 DEF TypeOK
<1> QED
  BY <1>1, <1>3, <1>5, <1>6, <1>7, <1>8, ChunkInv DEF received

-----------------------------------------------------------------------------
(* Every step *)

(* The actions of Next, one by one: the datagram of a resumed handler is the   *)
(* one recvbuf holds.                                                          *)
LEMMA Steps ==
  ASSUME Next
  PROVE  \/ StartWithoutMap \/ Stop \/ LogoStart \/ InitDone \/ FpgaStep
         \/ \E bound \in BOOLEAN : Start(bound)
         \/ \E p : HandleCommand(p)
         \/ \E p : HandlePayload(p)
  BY Zenon DEF Next, Resume

LEMMA CommandInv == ASSUME IInv, NEW p, HandleCommand(p) PROVE IInv'
<1>1. CASE \E allocated \in BOOLEAN : Close(p, allocated)
  BY <1>1, CloseInv, Zenon
<1>2. CASE Init_(p)       BY <1>2, Init_Inv, Zenon
<1>3. CASE InitFails(p)   BY <1>3, InitFailsInv, Zenon
<1>4. CASE GetVersion(p) \/ GetStatus(p) \/ Ignore(p)
  BY <1>4, AnswerInv, Zenon
<1>5. CASE Switchres(p)   BY <1>5, SwitchresInv, Zenon
<1>6. CASE Audio(p)       BY <1>6, AudioInv, Zenon
<1>7. CASE Blit(p)        BY <1>7, BlitInv, Zenon
<1> QED
  BY <1>1, <1>2, <1>3, <1>4, <1>5, <1>6, <1>7, Zenon DEF HandleCommand

LEMMA PayloadInv == ASSUME IInv, NEW p, HandlePayload(p) PROVE IInv'
<1>1. CASE RejectPayload(p)   BY <1>1, RejectPayloadInv, Zenon
<1>2. CASE LosePayload(p)     BY <1>2, LosePayloadInv, Zenon
<1>3. CASE RawChunk(p)        BY <1>3, RawChunkInv, Zenon
<1>4. CASE Lz4Chunk(p)        BY <1>4, Lz4ChunkInv, Zenon
<1>5. CASE AudioChunk(p)      BY <1>5, AudioChunkInv, Zenon
<1>6. CASE SkipNoModeline(p)  BY <1>6, SkipNoModelineInv, Zenon
<1> QED
  BY <1>1, <1>2, <1>3, <1>4, <1>5, <1>6, Zenon DEF HandlePayload

LEMMA StepInv == IInv /\ [Next]_vars => IInv'
<1> SUFFICES ASSUME IInv, [Next]_vars PROVE IInv'
  OBVIOUS
<1>1. CASE StartWithoutMap  BY <1>1, StartWithoutMapInv, Zenon
<1>2. CASE Stop             BY <1>2, StopInv, Zenon
<1>3. CASE LogoStart        BY <1>3, LogoStartInv, Zenon
<1>4. CASE InitDone         BY <1>4, InitDoneInv, Zenon
<1>5. CASE FpgaStep         BY <1>5, FpgaStepInv, Zenon
<1>6. CASE \E bound \in BOOLEAN : Start(bound)
  BY <1>6, StartInv, Zenon
<1>7. CASE \E p : HandleCommand(p)   BY <1>7, CommandInv, Zenon
<1>8. CASE \E p : HandlePayload(p)   BY <1>8, PayloadInv, Zenon
<1>9. CASE UNCHANGED vars
  BY <1>9 DEF vars, setup, session, blit, headers, fpga, IInv, TypeOK, RedispatchSound,
              PriorityWhileReceiving, ReceptionSound, PayloadLength, PayloadCapacity,
              RegionSound
<1> QED
  BY <1>1, <1>2, <1>3, <1>4, <1>5, <1>6, <1>7, <1>8, <1>9, Steps, Zenon

LEMMA Invariant == Spec => []IInv
  BY InitInv, StepInv, PTL DEF Spec

(* The globals of groovy.cpp keep the ranges of their types, whatever arrives. *)
THEOREM TypeCorrect == Spec => []TypeOK
<1>1. IInv => TypeOK
  BY DEF IInv
<1> QED BY <1>1, Invariant, PTL

(* Whatever arrives, and in whatever order, an open reception has a session,   *)
(* expects at least one more byte, and writes inside the region of its kind.   *)
THEOREM ReceptionSafe == Spec => []ReceptionSound
<1>1. IInv => ReceptionSound
  BY DEF IInv
<1> QED BY <1>1, Invariant, PTL

(* The poll loop keeps the core exactly while a reception is open, whatever    *)
(* ends the reception: its last byte, a loss, a datagram that does not fit.    *)
THEOREM PrioritySafe == Spec => []PriorityWhileReceiving
<1>1. IInv => PriorityWhileReceiving
  BY DEF IInv
<1> QED BY <1>1, Invariant, PTL

-----------------------------------------------------------------------------
(* The header the FPGA polls while a frame arrives *)

HInv == IInv /\ HeaderHonest /\ ChunkCountBounded

(* A frame is open after a step that leaves it alone, opens it or adds a chunk. *)
LEMMA FrameOpen ==
  ASSUME IInv, Next, isBlitting' = 1
  PROVE  FpgaStep \/ \E p : Blit(p) \/ RawChunk(p) \/ Lz4Chunk(p)
<1>1. CASE StartWithoutMap \/ Stop
  BY <1>1, NoReception DEF StartWithoutMap, Stop, blit
<1>2. CASE LogoStart \/ InitDone
  BY <1>2 DEF LogoStart, InitDone, IInv, ReceptionSound, blit
<1>3. CASE \E bound \in BOOLEAN : Start(bound)
  BY <1>3, NoReception DEF Start
<1>4. CASE \E p : HandleCommand(p)
  <2>1. PICK p : HandleCommand(p)
    BY <1>4
  <2>2. CASE \E allocated \in BOOLEAN : Close(p, allocated)
    BY <2>2 DEF Close
  <2>3. CASE Init_(p) \/ Audio(p)
    BY <2>3 DEF Init_, Audio
  <2>4. CASE InitFails(p) \/ GetVersion(p) \/ GetStatus(p) \/ Switchres(p) \/ Ignore(p)
    <3>1. Dispatched(p) /\ isBlitting' = isBlitting
      BY <2>4 DEF InitFails, GetVersion, GetStatus, Switchres, Ignore, Command, blit
    <3> QED BY <3>1, DispatchedSound
  <2> QED BY <2>1, <2>2, <2>3, <2>4 DEF HandleCommand
<1>5. CASE \E p : HandlePayload(p)
  <2>1. PICK p : HandlePayload(p)
    BY <1>5
  <2>2. CASE RejectPayload(p) \/ LosePayload(p) \/ SkipNoModeline(p)
    BY <2>2 DEF RejectPayload, LosePayload, SkipNoModeline
  <2>3. CASE AudioChunk(p)
    BY <2>3 DEF AudioChunk, Progress
  <2> QED BY <2>1, <2>2, <2>3 DEF HandlePayload
<1> QED BY <1>1, <1>2, <1>3, <1>4, <1>5, Steps

LEMMA BlitHeader ==
  ASSUME HInv, NEW p, Blit(p), isBlitting' = 1
  PROVE  (HeaderHonest /\ ChunkCountBounded)'
<1> USE DEF HInv
<1>1. /\ ~ Duplicate(p) /\ numBlit' = 0 /\ p \in PacketType /\ poc \in PocType /\ TypeOK
      /\ BlitValid(p) /\ UNCHANGED <<setup, blitCompression, rgbMode>>
  BY BlitEffect
<1>2. BlitPoc(p).bytes_recv = 0 /\ poc'.bytes_recv = 0
  BY <1>1, BlitEffect, BlitPocType
<1>3. ChunkCountBounded'
  BY <1>1, <1>2 DEF ChunkCountBounded, ChunkLen
<1>4. ASSUME hpsBlit # 0 PROVE HeaderHonest'
  BY <1>1, <1>4 DEF HeaderHonest, setup
<1>5. ASSUME hpsBlit = 0 /\ blitCompression # 0 PROVE HeaderHonest'
  <2>1. FPGA_blit_lz4(BlitPoc(p), 0, 0)
    BY <1>5, Zenon DEF Blit
  <2>2. lz4'.bytes = 0 /\ lz4'.numBlit = 0
    BY <2>1 DEF FPGA_blit_lz4
  <2> QED BY <1>1, <1>2, <1>5, <2>2 DEF HeaderHonest, AbortBlit
<1>6. ASSUME hpsBlit = 0 /\ blitCompression = 0 PROVE HeaderHonest'
  <2>1. FPGA_blit(BlitPoc(p), BlitPoc(p).bytes_recv, numBlit')
    BY <1>6, Zenon DEF Blit
  <2>2. raw'.pixels = 0 \div Bpp(rgbMode) /\ raw'.numBlit = 0
    BY <1>1, <1>2, <2>1 DEF FPGA_blit
  <2>3. raw'.pixels * Bpp(rgbMode) <= 0
    BY <2>2, PixelsType
  <2> QED BY <1>1, <1>2, <1>6, <2>2, <2>3 DEF HeaderHonest, AbortBlit
<1> QED BY <1>3, <1>4, <1>5, <1>6

LEMMA RawChunkHeader ==
  ASSUME HInv, NEW p, RawChunk(p), isBlitting' = 1
  PROVE  (HeaderHonest /\ ChunkCountBounded)'
<1> DEFINE received == poc.bytes_recv + p.len
           done  == received >= poc.bytes_len
           asap  == hpsBlit = 0
           told  == IF asap THEN received \div Bpp(rgbMode) ELSE poc.pixels_ddr
           atEnd == done /\ told < poc.pixels_len
           times == (IF asap THEN 1 ELSE 0) + (IF atEnd THEN 1 ELSE 0)
           rest  == IF done THEN 0 ELSE poc.buffer_offset
           q     == [poc EXCEPT !.bytes_recv = received, !.buffer_offset = rest]
<1>1. /\ Accepted(p, 1) /\ blitCompression = 0
      /\ Progress(received, poc.bytes_len, 1)
      /\ numBlit' = Increment(numBlit, times)
      /\ IF times > 0
         THEN FPGA_blit(q, received, numBlit')
         ELSE poc' = q /\ spi' = <<>> /\ UNCHANGED headers
  BY DEF RawChunk
<1>2. /\ IInv /\ p.len \in Nat /\ poc \in PocType /\ poc # NoPoc /\ TypeOK /\ isBlitting = 1
      /\ poc.bytes_recv \in Nat /\ poc.bytes_len \in Nat
      /\ PayloadLength = poc.bytes_len /\ PayloadLength <= 1658880
      /\ numBlit * 1472 <= poc.bytes_recv /\ numBlit \in Nat
      /\ UNCHANGED <<setup, blitCompression, rgbMode>>
  <2>1. IInv /\ Accepted(p, 1) /\ isBlitting = 1
    BY <1>1 DEF HInv, Accepted
  <2>2. /\ p.len \in Nat /\ poc \in PocType /\ poc # NoPoc /\ TypeOK
        /\ PayloadLength <= PayloadCapacity
    BY <2>1, PayloadSound DEF Accepted
  <2>3. PayloadLength = poc.bytes_len /\ PayloadCapacity = 1658880
    BY <1>1, <2>1, <2>2 DEF PayloadLength, PayloadCapacity, FrameRegionSize, LZ4Size
  <2>4. numBlit * 1472 <= poc.bytes_recv
    BY <2>1 DEF HInv, ChunkCountBounded, ChunkLen
  <2> QED BY <2>1, <2>2, <2>3, <2>4 DEF Accepted, PocType, TypeOK, Uint16
<1>3. ~ done
  BY <1>1 DEF Progress
<1>4. p.len >= 1472
  <2>1. received # PayloadLength
    BY <1>2, <1>3
  <2>2. ~ (p.len < ChunkLen /\ received # PayloadLength)
    BY <1>1, Zenon DEF Accepted, LossDetected
  <2> QED BY <1>2, <2>1, <2>2 DEF ChunkLen
<1>5. numBlit' = IF asap THEN numBlit + 1 ELSE numBlit
  <2>1. times = IF asap THEN 1 ELSE 0
    BY <1>3
  <2>2. numBlit + 1 < 65536
    BY <1>2, <1>3
  <2>3. numBlit' = (numBlit + times) % 65536
    BY <1>1 DEF Increment
  <2>4. numBlit \in Nat
    BY <1>2
  <2> HIDE DEF times
  <2> QED BY <2>1, <2>2, <2>3, <2>4, SMT
<1>6. numBlit' * 1472 <= received /\ numBlit' < 65535 /\ numBlit' \in Nat
  BY <1>2, <1>3, <1>4, <1>5
<1>7. received \in Nat /\ rest \in Nat /\ poc \in PocType /\ TypeOK
  BY <1>2 DEF PocType
<1> HIDE DEF received, rest, times
<1>8. q \in PocType /\ q.bytes_recv = received
  BY <1>7, Zenon DEF PocType
<1> HIDE DEF q
<1>9. poc'.bytes_recv = received
  <2>1. CASE times > 0
    <3>1. FPGA_blit(q, received, numBlit')
      BY <1>1, <2>1
    <3>2. received \in Nat /\ numBlit' \in Uint16
      BY <1>6, <1>7 DEF Uint16
    <3> QED BY <1>7, <1>8, <3>1, <3>2, FPGA_blitType
  <2>2. CASE ~ (times > 0)
    BY <1>1, <1>8, <2>2
  <2> QED BY <2>1, <2>2
<1>10. ChunkCountBounded'
  BY <1>6, <1>9 DEF ChunkCountBounded, ChunkLen
<1>11. HeaderHonest'
  <2> SUFFICES ASSUME hpsBlit' = 0 PROVE HeaderHonest'
    BY DEF HeaderHonest
  <2>1. FPGA_blit(q, received, numBlit')
    BY <1>1, <1>2 DEF setup, times
  <2>2. raw'.pixels = received \div Bpp(rgbMode) /\ raw'.numBlit = numBlit'
    BY <2>1 DEF FPGA_blit
  <2>3. raw'.pixels * Bpp(rgbMode) <= received
    BY <1>7, <2>2, PixelsType
  <2>4. raw'.numBlit # AbortBlit
    BY <1>6, <2>2 DEF AbortBlit
  <2> QED BY <1>1, <1>2, <1>9, <2>3, <2>4 DEF HeaderHonest
<1> QED BY <1>10, <1>11

LEMMA Lz4ChunkHeader ==
  ASSUME HInv, NEW p, Lz4Chunk(p), isBlitting' = 1
  PROVE  (HeaderHonest /\ ChunkCountBounded)'
<1> DEFINE received == poc.bytes_recv + p.len
           done  == received >= poc.bytes_lz4_len
           asap  == hpsBlit = 0
           told  == IF asap THEN received ELSE poc.bytes_lz4_ddr
           atEnd == done /\ told < poc.bytes_lz4_len
           times == (IF asap THEN 1 ELSE 0) + (IF atEnd THEN 1 ELSE 0)
           rest  == IF done THEN 0 ELSE poc.buffer_offset
           q     == [poc EXCEPT !.bytes_recv = received, !.buffer_offset = rest]
<1>1. /\ Accepted(p, 1) /\ blitCompression # 0
      /\ Progress(received, poc.bytes_lz4_len, 1)
      /\ numBlit' = Increment(numBlit, times)
      /\ IF times > 0
         THEN FPGA_blit_lz4(q, received, numBlit')
         ELSE poc' = q /\ spi' = <<>> /\ UNCHANGED headers
  BY DEF Lz4Chunk
<1>2. /\ IInv /\ p.len \in Nat /\ poc \in PocType /\ poc # NoPoc /\ TypeOK /\ isBlitting = 1
      /\ poc.bytes_recv \in Nat /\ poc.bytes_lz4_len \in Nat
      /\ PayloadLength = poc.bytes_lz4_len /\ PayloadLength <= 1658880
      /\ numBlit * 1472 <= poc.bytes_recv /\ numBlit \in Nat
      /\ UNCHANGED <<setup, blitCompression, rgbMode>>
  <2>1. IInv /\ Accepted(p, 1) /\ isBlitting = 1
    BY <1>1 DEF HInv, Accepted
  <2>2. /\ p.len \in Nat /\ poc \in PocType /\ poc # NoPoc /\ TypeOK
        /\ PayloadLength <= PayloadCapacity
    BY <2>1, PayloadSound DEF Accepted
  <2>3. PayloadLength = poc.bytes_lz4_len /\ PayloadCapacity = 1658880
    BY <1>1, <2>1, <2>2 DEF PayloadLength, PayloadCapacity, FrameRegionSize, LZ4Size
  <2>4. numBlit * 1472 <= poc.bytes_recv
    BY <2>1 DEF HInv, ChunkCountBounded, ChunkLen
  <2> QED BY <2>1, <2>2, <2>3, <2>4 DEF Accepted, PocType, TypeOK, Uint16
<1>3. ~ done
  BY <1>1 DEF Progress
<1>4. p.len >= 1472
  <2>1. received # PayloadLength
    BY <1>2, <1>3
  <2>2. ~ (p.len < ChunkLen /\ received # PayloadLength)
    BY <1>1, Zenon DEF Accepted, LossDetected
  <2> QED BY <1>2, <2>1, <2>2 DEF ChunkLen
<1>5. numBlit' = IF asap THEN numBlit + 1 ELSE numBlit
  <2>1. times = IF asap THEN 1 ELSE 0
    BY <1>3
  <2>2. numBlit + 1 < 65536
    BY <1>2, <1>3
  <2>3. numBlit' = (numBlit + times) % 65536
    BY <1>1 DEF Increment
  <2>4. numBlit \in Nat
    BY <1>2
  <2> HIDE DEF times
  <2> QED BY <2>1, <2>2, <2>3, <2>4, SMT
<1>6. numBlit' * 1472 <= received /\ numBlit' < 65535 /\ numBlit' \in Nat
  BY <1>2, <1>3, <1>4, <1>5
<1>7. received \in Nat /\ rest \in Nat /\ poc \in PocType /\ TypeOK
  BY <1>2 DEF PocType
<1> HIDE DEF received, rest, times
<1>8. q \in PocType /\ q.bytes_recv = received
  BY <1>7, Zenon DEF PocType
<1> HIDE DEF q
<1>9. poc'.bytes_recv = received
  <2>1. CASE times > 0
    <3>1. FPGA_blit_lz4(q, received, numBlit')
      BY <1>1, <2>1
    <3>2. received \in Nat /\ numBlit' \in Uint16
      BY <1>6, <1>7 DEF Uint16
    <3> QED BY <1>7, <1>8, <3>1, <3>2, FPGA_blit_lz4Type
  <2>2. CASE ~ (times > 0)
    BY <1>1, <1>8, <2>2
  <2> QED BY <2>1, <2>2
<1>10. ChunkCountBounded'
  BY <1>6, <1>9 DEF ChunkCountBounded, ChunkLen
<1>11. HeaderHonest'
  <2> SUFFICES ASSUME hpsBlit' = 0 PROVE HeaderHonest'
    BY DEF HeaderHonest
  <2>1. FPGA_blit_lz4(q, received, numBlit')
    BY <1>1, <1>2 DEF setup, times
  <2>2. lz4'.bytes = received /\ lz4'.numBlit = numBlit'
    BY <2>1 DEF FPGA_blit_lz4
  <2>3. lz4'.bytes <= received
    BY <1>7, <2>2, PixelsType
  <2>4. lz4'.numBlit # AbortBlit
    BY <1>6, <2>2 DEF AbortBlit
  <2> QED BY <1>1, <1>2, <1>9, <2>3, <2>4 DEF HeaderHonest
<1> QED BY <1>10, <1>11

LEMMA HeaderStep == HInv /\ [Next]_vars => HInv'
<1> SUFFICES ASSUME HInv, [Next]_vars PROVE (HeaderHonest /\ ChunkCountBounded)'
  BY StepInv DEF HInv
<1>1. CASE isBlitting' # 1
  BY <1>1 DEF HeaderHonest, ChunkCountBounded
<1>2. CASE isBlitting' = 1 /\ Next
  <2>1. CASE FpgaStep
    BY <2>1 DEF HInv, HeaderHonest, ChunkCountBounded, FpgaStep, FpgaLeavesIdle,
                FpgaReachesIdle, setup, session, blit, headers
  <2>2. CASE \E p : Blit(p) \/ RawChunk(p) \/ Lz4Chunk(p)
    BY <1>2, <2>2, BlitHeader, RawChunkHeader, Lz4ChunkHeader, Zenon
  <2> QED BY <1>2, <2>1, <2>2, FrameOpen DEF HInv
<1>3. CASE UNCHANGED vars
  BY <1>3 DEF HInv, HeaderHonest, ChunkCountBounded, vars, setup, session, blit, headers
<1> QED BY <1>1, <1>2, <1>3

LEMMA HeaderInvariant == Spec => []HInv
<1>1. Init => HInv
  BY InitInv DEF Init, HInv, HeaderHonest, ChunkCountBounded
<1> QED BY <1>1, HeaderStep, PTL DEF Spec

(* While the payload of a frame arrives, the header the FPGA polls claims only *)
(* what is already in DDR, and does not say "give up".                         *)
THEOREM HeaderSafe == Spec => []HeaderHonest
<1>1. HInv => HeaderHonest
  BY DEF HInv
<1> QED BY <1>1, HeaderInvariant, PTL

(* The 16 bit chunk counter of the header neither wraps nor comes near the     *)
(* value that means "give up".                                                 *)
THEOREM ChunkCountSafe == Spec => []ChunkCountBounded
<1>1. HInv => ChunkCountBounded
  BY DEF HInv
<1> QED BY <1>1, HeaderInvariant, PTL

-----------------------------------------------------------------------------
(* The logo *)

(* A client is connected only while the server runs, and the server waits to   *)
(* draw its logo only without one.                                             *)
LInv ==
  /\ LogoOnlyWhenDisconnected
  /\ groovyServer # 2 \/ pc = "logo" => isConnected = 0

LEMMA LogoStep == IInv /\ LInv /\ [Next]_vars => LInv'
<1> SUFFICES ASSUME IInv, LInv, [Next]_vars PROVE LInv'
  OBVIOUS
<1> USE DEF LInv, LogoOnlyWhenDisconnected
<1>1. CASE StartWithoutMap
  BY <1>1 DEF StartWithoutMap, session
<1>2. CASE \E bound \in BOOLEAN : Start(bound)
  BY <1>2 DEF Start
<1>3. CASE Stop
  BY <1>3 DEF Stop
<1>4. CASE LogoStart
  BY <1>4 DEF LogoStart, WaitAt, session, setup
<1>5. CASE InitDone
  BY <1>5 DEF InitDone, WaitAt, session, setup
<1>6. CASE FpgaStep
  BY <1>6 DEF FpgaStep, FpgaLeavesIdle, FpgaReachesIdle, session, setup
<1>7. CASE \E p : HandleCommand(p)
  <2>1. PICK p : HandleCommand(p)
    BY <1>7
  <2>2. CASE \E allocated \in BOOLEAN : Close(p, allocated)
    BY <2>2 DEF Close, WaitAt
  <2>3. CASE Init_(p)
    <3>1. groovyServer = 2
      BY <2>3, DispatchedSound DEF Init_, Command
    <3>2. doScreensaver \in {0, 1}
      BY DEF IInv, TypeOK
    <3> QED BY <2>3, <3>1, <3>2 DEF Init_, StopLogo, WaitAt, setup
  <2>4. CASE InitFails(p)
    BY <2>4 DEF InitFails, BackToPoll, setup
  <2>5. CASE GetVersion(p) \/ GetStatus(p) \/ Switchres(p) \/ Audio(p) \/ Blit(p) \/ Ignore(p)
    <3>1. UNCHANGED <<groovyServer, doScreensaver, groovyLogo, isConnected>> /\ pc' = "poll"
      BY <2>5 DEF GetVersion, GetStatus, Switchres, Audio, Blit, Ignore, BackToPoll,
                  setup, session
    <3> QED BY <3>1
  <2> QED BY <2>1, <2>2, <2>3, <2>4, <2>5 DEF HandleCommand
<1>8. CASE \E p : HandlePayload(p)
  <2>1. PICK p : HandlePayload(p)
    BY <1>8
  <2>2. UNCHANGED <<groovyServer, doScreensaver, groovyLogo, isConnected>> /\ pc' # "logo"
    BY <2>1 DEF HandlePayload, Payload, RejectPayload, LosePayload, LossDetected, RawChunk,
                Lz4Chunk, AudioChunk, Accepted, SkipNoModeline, setup, session
  <2> QED BY <2>2
<1>9. CASE UNCHANGED vars
  BY <1>9 DEF vars, setup, session
<1> QED
  BY <1>1, <1>2, <1>3, <1>4, <1>5, <1>6, <1>7, <1>8, <1>9, Steps, Zenon

(* The poll loop never draws the logo over the frames of a connected client.   *)
THEOREM LogoSafe == Spec => []LogoOnlyWhenDisconnected
<1>1. Init => LInv
  BY DEF Init, LInv, LogoOnlyWhenDisconnected
<1>2. LInv => LogoOnlyWhenDisconnected
  BY DEF LInv
<1> QED BY <1>1, <1>2, LogoStep, Invariant, PTL DEF Spec

-----------------------------------------------------------------------------
(* The LZ4 zones *)

(* The zone of the last BLIT: setBlit has advanced PoC_field_lz4. *)
LastZone == IF poc.field_lz4 = 0 THEN 3 ELSE poc.field_lz4 - 1

(* An LZ4 frame is being written to the zone of the last BLIT. *)
ZInv == isBlitting = 1 /\ blitCompression # 0 => poc.buffer_offset = LZ4Offset(LastZone)

(* What the FPGA is told of a zone, and when nothing is told of one. *)
LEMMA ToldZone ==
  ASSUME NEW q, NEW bytes, NEW nb, FPGA_blit_lz4(q, bytes, nb),
         NEW i \in DOMAIN spi'
  PROVE  spi'[i].zone = IF q.field_lz4 = 0 THEN 3 ELSE q.field_lz4 - 1
<1>1. q.frame_ddr # q.frame_recv
  BY DEF FPGA_blit_lz4
<1>2. spi' = <<[op    |-> "BLIT_LZ4",
                zone  |-> IF q.field_lz4 = 0 THEN 3 ELSE q.field_lz4 - 1,
                size  |-> q.bytes_lz4_len,
                field |-> q.field,
                delta |-> q.delta_lz4]>>
  BY <1>1 DEF FPGA_blit_lz4
<1>3. i = 1
  BY <1>2
<1> QED BY <1>2, <1>3

LEMMA ToldNoZone ==
  ASSUME NEW q, NEW bytes, NEW nb, FPGA_blit(q, bytes, nb),
         NEW i \in DOMAIN spi'
  PROVE  spi'[i].op # "BLIT_LZ4"
<1>1. q.frame_ddr # q.frame_recv
  BY DEF FPGA_blit
<1>2. spi' = <<[op |-> "BLIT"]>>
  BY <1>1 DEF FPGA_blit
<1>3. i = 1
  BY <1>2
<1> QED BY <1>2, <1>3

LEMMA BlitZone ==
  ASSUME IInv, NEW p, Blit(p), blitCompression # 0
  PROVE  poc'.buffer_offset = LZ4Offset(poc.field_lz4) /\ LastZone' = poc.field_lz4
<1>1. /\ p \in PacketType /\ BlitValid(p) /\ poc \in PocType /\ TypeOK
      /\ poc'.buffer_offset = BlitPoc(p).buffer_offset
      /\ poc'.field_lz4 = BlitPoc(p).field_lz4
  BY BlitEffect
<1>2. BlitPoc(p).buffer_offset = LZ4Offset(poc.field_lz4) /\ BlitPoc(p).field_lz4 = NextZone
  BY <1>1, BlitPocType
<1>3. poc.field_lz4 \in 0 .. 3
  BY <1>1 DEF PocType
<1> QED BY <1>1, <1>2, <1>3 DEF LastZone, NextZone

(* The session as a chunk leaves it before the FPGA is told. *)
LEMMA ChunkZone ==
  ASSUME IInv, ZInv, NEW p, Lz4Chunk(p)
  PROVE  /\ poc'.field_lz4 = poc.field_lz4
         /\ isBlitting' = 1 => poc'.buffer_offset = poc.buffer_offset
         /\ isBlitting = 1 /\ blitCompression # 0 /\ blitCompression' = blitCompression
         /\ \A i \in DOMAIN spi' : spi'[i].zone = LastZone
<1> DEFINE received == poc.bytes_recv + p.len
           done  == received >= poc.bytes_lz4_len
           asap  == hpsBlit = 0
           told  == IF asap THEN received ELSE poc.bytes_lz4_ddr
           atEnd == done /\ told < poc.bytes_lz4_len
           times == (IF asap THEN 1 ELSE 0) + (IF atEnd THEN 1 ELSE 0)
           rest  == IF done THEN 0 ELSE poc.buffer_offset
           q     == [poc EXCEPT !.bytes_recv = received, !.buffer_offset = rest]
<1>1. /\ Accepted(p, 1) /\ blitCompression # 0
      /\ Progress(received, poc.bytes_lz4_len, 1)
      /\ IF times > 0
         THEN FPGA_blit_lz4(q, received, numBlit')
         ELSE poc' = q /\ spi' = <<>>
  BY DEF Lz4Chunk
<1>2. /\ isBlitting = 1 /\ blitCompression' = blitCompression /\ poc \in PocType /\ TypeOK
      /\ received \in Nat /\ rest \in Nat /\ numBlit' \in Uint16
  <2>1. numBlit' \in Uint16
    BY Lz4ChunkInv DEF IInv, TypeOK
  <2> QED BY <1>1, <2>1, PayloadSound DEF Accepted, PocType
<1>3. isBlitting' = 1 => rest = poc.buffer_offset
  BY <1>1 DEF Progress
<1> HIDE DEF rest, received, times
<1>4. q.field_lz4 = poc.field_lz4 /\ q.buffer_offset = rest
  BY <1>2, Zenon DEF PocType
<1>5. q \in PocType
  BY <1>2, Zenon DEF PocType
<1> HIDE DEF q
<1>6. CASE times > 0
  <2>1. FPGA_blit_lz4(q, received, numBlit')
    BY <1>1, <1>6
  <2>2. poc'.field_lz4 = poc.field_lz4 /\ poc'.buffer_offset = rest
    BY <1>2, <1>4, <1>5, <2>1, FPGA_blit_lz4Type
  <2>3. \A i \in DOMAIN spi' : spi'[i].zone = LastZone
    BY <1>4, <2>1, ToldZone DEF LastZone
  <2> QED BY <1>1, <1>2, <1>3, <2>2, <2>3
<1>7. CASE ~ (times > 0)
  BY <1>1, <1>2, <1>3, <1>4, <1>7
<1> QED BY <1>6, <1>7

LEMMA ZoneStep == IInv /\ ZInv /\ [Next]_vars => ZInv'
<1> SUFFICES ASSUME IInv, ZInv, [Next]_vars PROVE ZInv'
  OBVIOUS
<1>1. CASE isBlitting' # 1
  BY <1>1 DEF ZInv
<1>2. CASE isBlitting' = 1 /\ Next
  <2>1. CASE FpgaStep
    BY <2>1 DEF FpgaStep, FpgaLeavesIdle, FpgaReachesIdle, session, blit, ZInv, LastZone
  <2>2. ASSUME NEW p, Blit(p) PROVE ZInv'
    <3>1. blitCompression' = blitCompression
      BY <2>2, BlitEffect
    <3>2. CASE blitCompression # 0
      BY <2>2, <3>2, BlitZone DEF ZInv
    <3> QED BY <3>1, <3>2 DEF ZInv
  <2>3. ASSUME NEW p, RawChunk(p) PROVE ZInv'
    BY <2>3 DEF RawChunk, Accepted, ZInv
  <2>4. ASSUME NEW p, Lz4Chunk(p) PROVE ZInv'
    <3>1. LastZone' = LastZone
      BY <2>4, ChunkZone DEF LastZone
    <3> QED BY <1>2, <2>4, <3>1, ChunkZone DEF ZInv
  <2> QED BY <1>2, <2>1, <2>2, <2>3, <2>4, FrameOpen
<1>3. CASE UNCHANGED vars
  BY <1>3 DEF vars, session, blit, ZInv, LastZone
<1> QED BY <1>1, <1>2, <1>3

(* The offset the payload of the frame goes to, before or after it arrives. *)
PayloadZone == IF isBlitting # 0 THEN poc.buffer_offset ELSE poc'.buffer_offset

LEMMA ZoneTold ==
  ASSUME IInv, ZInv, Next, NEW i \in DOMAIN spi', spi'[i].op = "BLIT_LZ4"
  PROVE  LZ4Offset(spi'[i].zone) = PayloadZone
<1>1. CASE StartWithoutMap \/ Stop \/ LogoStart \/ InitDone \/ FpgaStep
  BY <1>1 DEF StartWithoutMap, Stop, LogoStart, InitDone, FpgaStep, FpgaLeavesIdle,
              FpgaReachesIdle
<1>2. CASE \E bound \in BOOLEAN : Start(bound)
  BY <1>2 DEF Start
<1>3. CASE \E p : HandleCommand(p)
  <2>1. PICK p : HandleCommand(p)
    BY <1>3
  <2>2. CASE \E allocated \in BOOLEAN : Close(p, allocated)
    BY <2>2 DEF Close
  <2>3. CASE Init_(p) \/ InitFails(p)
    BY <2>3 DEF Init_, StopLogo, InitFails
  <2>4. CASE GetVersion(p) \/ GetStatus(p) \/ Audio(p) \/ Ignore(p)
    <3>1. spi' = <<>>
      BY <2>4, Zenon DEF GetVersion, GetStatus, Audio, Ignore
    <3> QED BY <3>1
  <2>5. CASE Switchres(p)
    <3>1. spi' = <<[op |-> "SWITCHRES", frame |-> poc.frame_ddr]>>
      BY <2>5, Zenon DEF Switchres
    <3> QED BY <3>1
  <2>6. CASE Blit(p)
    <3>1. /\ isBlitting = 0 /\ TypeOK /\ poc \in PocType /\ p \in PacketType /\ BlitValid(p)
      BY <2>6, BlitEffect
    <3>2. hpsBlit = 0 \/ Duplicate(p)
      BY <2>6 DEF Blit
    <3>3. blitCompression # 0
      <4> SUFFICES ASSUME blitCompression = 0 PROVE FALSE
        OBVIOUS
      <4>1. FPGA_blit(BlitPoc(p), BlitPoc(p).bytes_recv, numBlit')
        BY <2>6, <3>2, Zenon DEF Blit
      <4> QED BY <4>1, ToldNoZone
    <3>4. FPGA_blit_lz4(BlitPoc(p), 0, 0)
      BY <2>6, <3>2, <3>3, Zenon DEF Blit
    <3>5. spi'[i].zone = LastZone'
      <4>1. poc'.field_lz4 = BlitPoc(p).field_lz4
        BY <2>6, BlitEffect
      <4> QED BY <3>4, <4>1, ToldZone DEF LastZone
    <3> QED BY <2>6, <3>1, <3>3, <3>5, BlitZone DEF PayloadZone
  <2> QED BY <2>1, <2>2, <2>3, <2>4, <2>5, <2>6 DEF HandleCommand
<1>4. CASE \E p : HandlePayload(p)
  <2>1. PICK p : HandlePayload(p)
    BY <1>4
  <2>2. CASE RejectPayload(p) \/ SkipNoModeline(p) \/ AudioChunk(p)
    BY <2>2 DEF RejectPayload, SkipNoModeline, AudioChunk, Quiet
  <2>3. CASE RawChunk(p)
    <3>1. spi' = <<>> \/ \E q, bytes, nb : FPGA_blit(q, bytes, nb)
      BY <2>3, Zenon DEF RawChunk
    <3> QED BY <3>1, ToldNoZone
  <2>4. CASE Lz4Chunk(p)
    BY <2>4, ChunkZone DEF ZInv, PayloadZone
  <2>5. CASE LosePayload(p)
    <3>1. isBlitting = 1 /\ hpsBlit = 0
      <4> SUFFICES ASSUME ~ (isBlitting = 1 /\ hpsBlit = 0) PROVE FALSE
        OBVIOUS
      <4>1. spi' = <<>>
        BY <2>5, Zenon DEF LosePayload
      <4> QED BY <4>1
    <3>2. CASE blitCompression # 0
      <4>1. FPGA_blit_lz4(poc, poc.bytes_lz4_len, AbortBlit)
        BY <2>5, <3>1, <3>2, Zenon DEF LosePayload
      <4> QED BY <3>1, <3>2, <4>1, ToldZone DEF ZInv, LastZone, PayloadZone
    <3>3. CASE blitCompression = 0
      <4>1. FPGA_blit(poc, poc.bytes_len, AbortBlit)
        BY <2>5, <3>1, <3>3, Zenon DEF LosePayload
      <4> QED BY <4>1, ToldNoZone
    <3> QED BY <3>2, <3>3
  <2> QED BY <2>1, <2>2, <2>3, <2>4, <2>5 DEF HandlePayload
<1> QED BY <1>1, <1>2, <1>3, <1>4, Steps

(* The FPGA is always told the zone the payload of its frame is written to.    *)
THEOREM ZoneSafe == Spec => ZoneToldIsZoneWritten
<1>1. Init => ZInv
  BY DEF Init, ZInv
<1>2. IInv /\ ZInv /\ [Next]_vars =>
        [\A i \in DOMAIN spi' :
           spi'[i].op = "BLIT_LZ4" =>
             LZ4Offset(spi'[i].zone) =
               IF isBlitting # 0 THEN poc.buffer_offset ELSE poc'.buffer_offset]_vars
  BY ZoneTold DEF PayloadZone
<1> QED BY <1>1, <1>2, ZoneStep, Invariant, PTL DEF Spec, ZoneToldIsZoneWritten

-----------------------------------------------------------------------------
(* GroovyServer implements Reception: RInv.                                   *)

WholePixels == poc # NoPoc => poc.bytes_len = poc.pixels_len * Bpp(rgbMode)

Untold ==
  isBlitting = 1 /\ hpsBlit = 1 =>
    IF blitCompression # 0 THEN poc.bytes_lz4_ddr = 0 ELSE poc.pixels_ddr = 0

Silent == isBlitting # 0 => ~Played

RInv == HInv /\ WholePixels /\ Untold /\ Silent

-----------------------------------------------------------------------------
LEMMA MultipleOfBpp ==
  ASSUME NEW n \in Nat, NEW rgb
  PROVE  (n * Bpp(rgb)) \div Bpp(rgb) = n
<1>1. CASE Bpp(rgb) = 2 BY <1>1
<1>2. CASE Bpp(rgb) = 3 BY <1>2
<1>3. CASE Bpp(rgb) = 4 BY <1>3
<1> QED BY <1>1, <1>2, <1>3, BppType

LEMMA PixelsGrow ==
  ASSUME NEW n \in Nat, NEW bytes \in Nat, NEW rgb, n * Bpp(rgb) <= bytes
  PROVE  n * Bpp(rgb) <= (bytes \div Bpp(rgb)) * Bpp(rgb)
<1>1. CASE Bpp(rgb) = 2 BY <1>1
<1>2. CASE Bpp(rgb) = 3 BY <1>2
<1>3. CASE Bpp(rgb) = 4 BY <1>3
<1> QED BY <1>1, <1>2, <1>3, BppType

(* What FPGA_blit writes, and the fields of the session it keeps.              *)
LEMMA FPGA_blitTold ==
  ASSUME TypeOK, NEW q \in PocType, NEW bytes \in Nat, NEW nb, FPGA_blit(q, bytes, nb)
  PROVE  /\ raw'.pixels = bytes \div Bpp(rgbMode) /\ raw'.numBlit = nb /\ lz4' = lz4
         /\ poc'.pixels_len = q.pixels_len /\ poc'.bytes_len = q.bytes_len
         /\ ~Played'
<1>1. bytes \div Bpp(rgbMode) \in Nat
  BY PixelsType
<1>2. poc' = [q EXCEPT !.pixels_ddr = bytes \div Bpp(rgbMode), !.frame_ddr  = q.frame_recv]
  BY DEF FPGA_blit
<1>3. poc'.pixels_len = q.pixels_len /\ poc'.bytes_len = q.bytes_len
  BY <1>2, Zenon DEF PocType
<1>4. spi' = <<[op |-> "BLIT"]>> \/ spi' = <<>>
  BY DEF FPGA_blit
<1>5. ~Played'
  BY <1>4 DEF Played
<1> QED BY <1>3, <1>5 DEF FPGA_blit

LEMMA FPGA_blit_lz4Told ==
  ASSUME TypeOK, NEW q \in PocType, NEW bytes \in Nat, NEW nb, FPGA_blit_lz4(q, bytes, nb)
  PROVE  /\ lz4'.bytes = bytes /\ lz4'.numBlit = nb /\ raw' = raw
         /\ poc'.pixels_len = q.pixels_len /\ poc'.bytes_len = q.bytes_len
         /\ ~Played'
<1>2. poc' = [q EXCEPT !.bytes_lz4_ddr = bytes, !.frame_ddr = q.frame_recv]
  BY DEF FPGA_blit_lz4
<1>3. poc'.pixels_len = q.pixels_len /\ poc'.bytes_len = q.bytes_len
  BY <1>2, Zenon DEF PocType
<1>4. spi' = <<>> \/ \E z, s, f, d : spi' = <<[op |-> "BLIT_LZ4", zone |-> z, size |-> s,
                                               field |-> f, delta |-> d]>>
  BY DEF FPGA_blit_lz4
<1>5. ~Played'
  BY <1>4 DEF Played
<1> QED BY <1>3, <1>5 DEF FPGA_blit_lz4

-----------------------------------------------------------------------------
(* Steps of the server as steps of a reception.                                *)

LEMMA BetweenStep ==
  ASSUME isBlitting = 0, isBlitting' = 0, ~Played'
  PROVE  R!ReceptionNext
  BY DEF R!ReceptionNext, R!Between, Kind, Expected, Got

LEMMA GiveUpStep ==
  ASSUME isBlitting # 0, isBlitting' = 0, hpsBlit' = hpsBlit, ~Played',
         UNCHANGED <<BytesTold, ChunksTold>>
  PROVE  R!ReceptionNext
  BY DEF R!ReceptionNext, R!GiveUp, R!Closed, R!Header, Kind, Expected, Got

LEMMA AbortStep ==
  ASSUME isBlitting = 1, hpsBlit = 0, isBlitting' = 0, hpsBlit' = hpsBlit, ~Played',
         BytesTold' = PayloadLength, ChunksTold' = AbortBlit
  PROVE  R!ReceptionNext
  BY DEF R!ReceptionNext, R!GiveUp, R!Closed, R!Header, Kind, Expected, Got

LEMMA AnnounceFrameStep ==
  ASSUME isBlitting = 0, isBlitting' = 1, hpsBlit' = hpsBlit, ~Played',
         PayloadLength' \in Nat \ {0}, poc'.bytes_recv = 0,
         hpsBlit = 1 => UNCHANGED <<BytesTold, ChunksTold>>,
         hpsBlit # 1 => BytesTold' = 0 /\ ChunksTold' # AbortBlit
  PROVE  R!ReceptionNext
  BY DEF R!ReceptionNext, R!AnnounceFrame, R!Header, Kind, Expected, Got

LEMMA AnnounceSoundStep ==
  ASSUME isBlitting = 0, isBlitting' = 2, hpsBlit' = hpsBlit, ~Played',
         PayloadLength' \in Nat \ {0}, poc'.bytes_recv = 0,
         UNCHANGED <<BytesTold, ChunksTold>>
  PROVE  R!ReceptionNext
  BY DEF R!ReceptionNext, R!AnnounceSound, R!Header, Kind, Expected, Got

LEMMA ReceiveFrameStep ==
  ASSUME isBlitting = 1, isBlitting' = 1, hpsBlit' = hpsBlit, ~Played',
         PayloadLength' = PayloadLength,
         poc.bytes_recv < poc'.bytes_recv, poc'.bytes_recv < PayloadLength,
         hpsBlit = 1 => UNCHANGED <<BytesTold, ChunksTold>>,
         hpsBlit # 1 => /\ BytesTold <= BytesTold' /\ BytesTold' <= poc'.bytes_recv
                        /\ ChunksTold # AbortBlit /\ ChunksTold' # AbortBlit
  PROVE  R!ReceptionNext
  BY DEF R!ReceptionNext, R!Receive, R!Header, Kind, Expected, Got

LEMMA ReceiveSoundStep ==
  ASSUME isBlitting = 2, isBlitting' = 2, hpsBlit' = hpsBlit, ~Played',
         PayloadLength' = PayloadLength,
         poc.bytes_recv < poc'.bytes_recv, poc'.bytes_recv < PayloadLength,
         UNCHANGED <<BytesTold, ChunksTold>>
  PROVE  R!ReceptionNext
  BY DEF R!ReceptionNext, R!Receive, R!Header, Kind, Expected, Got

LEMMA CompleteFrameStep ==
  ASSUME isBlitting = 1, isBlitting' = 0, hpsBlit' = hpsBlit, ~Played',
         poc.bytes_recv < PayloadLength,
         BytesTold' = PayloadLength, ChunksTold' # AbortBlit
  PROVE  R!ReceptionNext
  BY DEF R!ReceptionNext, R!Complete, R!Closed, R!Header, Kind, Expected, Got

LEMMA CompleteSoundStep ==
  ASSUME isBlitting = 2, isBlitting' = 0, hpsBlit' = hpsBlit, Played',
         poc.bytes_recv < PayloadLength,
         UNCHANGED <<BytesTold, ChunksTold>>
  PROVE  R!ReceptionNext
  BY DEF R!ReceptionNext, R!Complete, R!Closed, R!Header, Kind, Expected, Got

-----------------------------------------------------------------------------
(* Chunks of a frame: what a step leaves in the session and in the header.     *)

LEMMA AcceptedSound ==
  ASSUME RInv, NEW p, NEW kind \in {1, 2}, Accepted(p, kind)
  PROVE  /\ IInv /\ TypeOK /\ p.len \in Nat \ {0} /\ isBlitting = kind
         /\ poc \in PocType /\ poc # NoPoc /\ poc.bytes_recv \in Nat
         /\ PayloadLength \in Nat /\ poc.bytes_recv < PayloadLength
         /\ poc.bytes_recv + p.len <= PayloadLength /\ PayloadLength <= 1658880
         /\ UNCHANGED <<setup, blitCompression, rgbMode>>
<1>1. IInv /\ Payload(p) /\ isBlitting = kind /\ PayloadBoundsValid(p.len)
  BY DEF RInv, HInv, Accepted
<1>2. /\ p \in PacketType /\ TypeOK /\ poc \in PocType /\ poc # NoPoc
      /\ poc.bytes_recv < PayloadLength /\ PayloadLength <= PayloadCapacity
  BY <1>1, PayloadSound
<1>3. PayloadCapacity <= 1658880 /\ PayloadCapacity \in Nat
  BY DEF PayloadCapacity, FrameRegionSize, LZ4Size, AudioSize
<1>4. PayloadLength \in Nat /\ poc.bytes_recv \in Nat
  BY <1>2 DEF PayloadLength, PocType
<1> QED
  BY <1>1, <1>2, <1>3, <1>4 DEF Accepted, PayloadBoundsValid, PacketType

LEMMA RawChunkEffect ==
  ASSUME RInv, NEW p, RawChunk(p)
  PROVE  /\ isBlitting = 1 /\ blitCompression = 0 /\ PayloadLength = poc.bytes_len
         /\ poc'.bytes_recv = poc.bytes_recv + p.len
         /\ poc' \in PocType /\ poc' # NoPoc
         /\ poc'.bytes_len = poc.bytes_len /\ poc'.pixels_len = poc.pixels_len
         /\ isBlitting' = IF poc'.bytes_recv = poc.bytes_len THEN 0 ELSE 1
         /\ ~Played'
         /\ IF hpsBlit = 0 \/ isBlitting' = 0
            THEN raw'.pixels = poc'.bytes_recv \div Bpp(rgbMode) /\ raw'.numBlit # AbortBlit
            ELSE raw' = raw /\ poc'.pixels_ddr = poc.pixels_ddr
<1> DEFINE received == poc.bytes_recv + p.len
           done  == received >= poc.bytes_len
           asap  == hpsBlit = 0
           told  == IF asap THEN received \div Bpp(rgbMode) ELSE poc.pixels_ddr
           atEnd == done /\ told < poc.pixels_len
           times == (IF asap THEN 1 ELSE 0) + (IF atEnd THEN 1 ELSE 0)
           rest  == IF done THEN 0 ELSE poc.buffer_offset
           q     == [poc EXCEPT !.bytes_recv = received, !.buffer_offset = rest]
<1>1. /\ Accepted(p, 1) /\ blitCompression = 0
      /\ Progress(received, poc.bytes_len, 1)
      /\ numBlit' = Increment(numBlit, times)
      /\ IF times > 0
         THEN FPGA_blit(q, received, numBlit')
         ELSE poc' = q /\ spi' = <<>> /\ UNCHANGED headers
  BY DEF RawChunk
<1>2. /\ TypeOK /\ isBlitting = 1 /\ poc \in PocType /\ poc # NoPoc
      /\ PayloadLength = poc.bytes_len /\ poc.bytes_len \in Nat /\ received \in Nat
      /\ received <= poc.bytes_len /\ poc.bytes_recv < poc.bytes_len
      /\ poc.bytes_recv \in Nat /\ poc.bytes_len <= 1658880
      /\ numBlit \in Nat /\ numBlit * 1472 <= poc.bytes_recv
  <2>1. PayloadLength = poc.bytes_len
    BY <1>1, AcceptedSound DEF PayloadLength
  <2>2. numBlit \in Nat /\ numBlit * 1472 <= poc.bytes_recv
    BY <1>1, AcceptedSound DEF RInv, HInv, ChunkCountBounded, ChunkLen, TypeOK, Uint16
  <2> QED BY <1>1, <2>1, <2>2, AcceptedSound
<1>3. isBlitting' = IF received = poc.bytes_len THEN 0 ELSE 1
  BY <1>1, <1>2 DEF Progress
<1>4. times \in 0 .. 2 /\ (hpsBlit = 0 => times > 0)
  OBVIOUS
<1>5. isBlitting' = 0 /\ hpsBlit # 0 => times > 0
  <2> SUFFICES ASSUME isBlitting' = 0, hpsBlit # 0 PROVE times > 0
    OBVIOUS
  <2>1. done
    BY <1>2, <1>3
  <2>2. poc.pixels_ddr = 0
    BY <1>1, <1>2 DEF RInv, Untold, TypeOK
  <2>3. poc.pixels_len > 0
    <3>1. poc.bytes_len = poc.pixels_len * Bpp(rgbMode) /\ poc.pixels_len \in Nat
      BY <1>2 DEF RInv, WholePixels, PocType
    <3>2. poc.pixels_len # 0
      BY <1>2, <3>1, BppType
    <3> QED BY <3>1, <3>2
  <2> QED BY <2>1, <2>2, <2>3
<1>6. isBlitting' # 0 /\ hpsBlit # 0 => ~ (times > 0)
  BY <1>2, <1>3
<1>7. rest \in Nat
  BY <1>2 DEF PocType
<1> HIDE DEF received, rest, times, q
<1>8. numBlit' # AbortBlit
  <2>1. numBlit' = (numBlit + times) % 65536
    BY <1>1 DEF Increment
  <2>2. numBlit + times \in 0 .. 1129
    BY <1>2, <1>4
  <2>3. \A n \in 0 .. 1129 : n % 65536 # 65535
    OBVIOUS
  <2> QED BY <2>1, <2>2, <2>3 DEF AbortBlit
<1>9. /\ q \in PocType /\ q.bytes_recv = received /\ q.bytes_len = poc.bytes_len
      /\ q.pixels_len = poc.pixels_len /\ q.pixels_ddr = poc.pixels_ddr
  <2>1. /\ poc \in PocType /\ received \in Nat /\ rest \in Nat
        /\ q = [poc EXCEPT !.bytes_recv = received, !.buffer_offset = rest]
    BY <1>2, <1>7 DEF q
  <2> QED BY <2>1, Zenon DEF PocType
<1>10. /\ isBlitting = 1 /\ blitCompression = 0 /\ PayloadLength = poc.bytes_len
       /\ received = poc.bytes_recv + p.len
  BY <1>1, <1>2 DEF received
<1>11. CASE times > 0
  <2>1. FPGA_blit(q, received, numBlit')
    BY <1>1, <1>11
  <2>2. poc' = [q EXCEPT !.pixels_ddr = received \div Bpp(rgbMode), !.frame_ddr = q.frame_recv]
    BY <2>1 DEF FPGA_blit
  <2>3. received \div Bpp(rgbMode) \in Nat
    BY <1>2, PixelsType
  <2>4. poc' \in PocType /\ poc'.bytes_recv = received
    BY <1>9, <2>2, <2>3, Zenon DEF PocType
  <2>5. /\ raw'.pixels = received \div Bpp(rgbMode) /\ raw'.numBlit = numBlit' /\ ~Played'
        /\ poc'.bytes_len = poc.bytes_len /\ poc'.pixels_len = poc.pixels_len
    BY <1>2, <1>9, <2>1, FPGA_blitTold
  <2>6. poc' # NoPoc
    BY <2>4, NoPocAssumption
  <2>7. hpsBlit = 0 \/ isBlitting' = 0
    BY <1>6, <1>11
  <2>8. raw'.pixels = poc'.bytes_recv \div Bpp(rgbMode) /\ raw'.numBlit # AbortBlit
    BY <1>8, <2>4, <2>5
  <2> QED BY <1>3, <1>10, <2>4, <2>5, <2>6, <2>7, <2>8
<1>12. CASE ~ (times > 0)
  <2>1. poc' = q /\ spi' = <<>> /\ raw' = raw
    BY <1>1, <1>12 DEF headers
  <2>2. ~Played'
    BY <2>1 DEF Played
  <2>3. hpsBlit # 0 /\ isBlitting' # 0
    BY <1>4, <1>5, <1>12
  <2>4. poc' # NoPoc
    BY <1>9, <2>1, NoPocAssumption
  <2> QED BY <1>3, <1>9, <1>10, <2>1, <2>2, <2>3, <2>4
<1> QED BY <1>11, <1>12

LEMMA Lz4ChunkEffect ==
  ASSUME RInv, NEW p, Lz4Chunk(p)
  PROVE  /\ isBlitting = 1 /\ blitCompression # 0 /\ PayloadLength = poc.bytes_lz4_len
         /\ poc'.bytes_recv = poc.bytes_recv + p.len
         /\ poc' \in PocType /\ poc' # NoPoc
         /\ poc'.bytes_len = poc.bytes_len /\ poc'.bytes_lz4_len = poc.bytes_lz4_len
         /\ poc'.pixels_len = poc.pixels_len
         /\ isBlitting' = IF poc'.bytes_recv = poc.bytes_lz4_len THEN 0 ELSE 1
         /\ ~Played'
         /\ IF hpsBlit = 0 \/ isBlitting' = 0
            THEN lz4'.bytes = poc'.bytes_recv /\ lz4'.numBlit # AbortBlit
            ELSE lz4' = lz4 /\ poc'.bytes_lz4_ddr = poc.bytes_lz4_ddr
<1> DEFINE received == poc.bytes_recv + p.len
           done  == received >= poc.bytes_lz4_len
           asap  == hpsBlit = 0
           told  == IF asap THEN received ELSE poc.bytes_lz4_ddr
           atEnd == done /\ told < poc.bytes_lz4_len
           times == (IF asap THEN 1 ELSE 0) + (IF atEnd THEN 1 ELSE 0)
           rest  == IF done THEN 0 ELSE poc.buffer_offset
           q     == [poc EXCEPT !.bytes_recv = received, !.buffer_offset = rest]
<1>1. /\ Accepted(p, 1) /\ blitCompression # 0
      /\ Progress(received, poc.bytes_lz4_len, 1)
      /\ numBlit' = Increment(numBlit, times)
      /\ IF times > 0
         THEN FPGA_blit_lz4(q, received, numBlit')
         ELSE poc' = q /\ spi' = <<>> /\ UNCHANGED headers
  BY DEF Lz4Chunk
<1>2. /\ TypeOK /\ isBlitting = 1 /\ poc \in PocType /\ poc # NoPoc
      /\ PayloadLength = poc.bytes_lz4_len /\ poc.bytes_lz4_len \in Nat /\ received \in Nat
      /\ received <= poc.bytes_lz4_len /\ poc.bytes_recv < poc.bytes_lz4_len
      /\ poc.bytes_recv \in Nat /\ poc.bytes_lz4_len <= 1658880
      /\ numBlit \in Nat /\ numBlit * 1472 <= poc.bytes_recv
  <2>1. PayloadLength = poc.bytes_lz4_len
    BY <1>1, AcceptedSound DEF PayloadLength
  <2>2. numBlit \in Nat /\ numBlit * 1472 <= poc.bytes_recv
    BY <1>1, AcceptedSound DEF RInv, HInv, ChunkCountBounded, ChunkLen, TypeOK, Uint16
  <2> QED BY <1>1, <2>1, <2>2, AcceptedSound
<1>3. isBlitting' = IF received = poc.bytes_lz4_len THEN 0 ELSE 1
  BY <1>1, <1>2 DEF Progress
<1>4. times \in 0 .. 2 /\ (hpsBlit = 0 => times > 0)
  OBVIOUS
<1>5. isBlitting' = 0 /\ hpsBlit # 0 => times > 0
  <2> SUFFICES ASSUME isBlitting' = 0, hpsBlit # 0 PROVE times > 0
    OBVIOUS
  <2>1. done
    BY <1>2, <1>3
  <2>2. poc.bytes_lz4_ddr = 0
    BY <1>1, <1>2 DEF RInv, Untold, TypeOK
  <2> QED BY <1>2, <2>1, <2>2
<1>6. isBlitting' # 0 /\ hpsBlit # 0 => ~ (times > 0)
  BY <1>2, <1>3
<1>7. rest \in Nat
  BY <1>2 DEF PocType
<1> HIDE DEF received, rest, times, q
<1>8. numBlit' # AbortBlit
  <2>1. numBlit' = (numBlit + times) % 65536
    BY <1>1 DEF Increment
  <2>2. numBlit + times \in 0 .. 1129
    BY <1>2, <1>4
  <2>3. \A n \in 0 .. 1129 : n % 65536 # 65535
    OBVIOUS
  <2> QED BY <2>1, <2>2, <2>3 DEF AbortBlit
<1>9. /\ q \in PocType /\ q.bytes_recv = received /\ q.bytes_len = poc.bytes_len
      /\ q.pixels_len = poc.pixels_len /\ q.bytes_lz4_len = poc.bytes_lz4_len
      /\ q.bytes_lz4_ddr = poc.bytes_lz4_ddr
  <2>1. /\ poc \in PocType /\ received \in Nat /\ rest \in Nat
        /\ q = [poc EXCEPT !.bytes_recv = received, !.buffer_offset = rest]
    BY <1>2, <1>7 DEF q
  <2> QED BY <2>1, Zenon DEF PocType
<1>10. /\ isBlitting = 1 /\ blitCompression # 0 /\ PayloadLength = poc.bytes_lz4_len
       /\ received = poc.bytes_recv + p.len
  BY <1>1, <1>2 DEF received
<1>11. CASE times > 0
  <2>1. FPGA_blit_lz4(q, received, numBlit')
    BY <1>1, <1>11
  <2>2. poc' = [q EXCEPT !.bytes_lz4_ddr = received, !.frame_ddr = q.frame_recv]
    BY <2>1 DEF FPGA_blit_lz4
  <2>3. poc' \in PocType /\ poc'.bytes_recv = received /\ poc'.bytes_lz4_len = poc.bytes_lz4_len
    <3>1. q \in PocType /\ received \in Nat
      BY <1>2, <1>9
    <3>2. /\ poc' \in PocType /\ poc'.bytes_recv = q.bytes_recv
          /\ poc'.bytes_lz4_len = q.bytes_lz4_len
      BY <2>2, <3>1, Zenon DEF PocType
    <3> QED BY <1>9, <3>2
  <2>4. /\ lz4'.bytes = received /\ lz4'.numBlit = numBlit' /\ ~Played'
        /\ poc'.bytes_len = poc.bytes_len /\ poc'.pixels_len = poc.pixels_len
    BY <1>2, <1>9, <2>1, FPGA_blit_lz4Told
  <2>5. poc' # NoPoc
    BY <2>3, NoPocAssumption
  <2>6. hpsBlit = 0 \/ isBlitting' = 0
    BY <1>6, <1>11
  <2>7. lz4'.bytes = poc'.bytes_recv /\ lz4'.numBlit # AbortBlit
    BY <1>8, <2>3, <2>4
  <2> QED BY <1>3, <1>10, <2>3, <2>4, <2>5, <2>6, <2>7
<1>12. CASE ~ (times > 0)
  <2>1. poc' = q /\ spi' = <<>> /\ lz4' = lz4
    BY <1>1, <1>12 DEF headers
  <2>2. ~Played'
    BY <2>1 DEF Played
  <2>3. hpsBlit # 0 /\ isBlitting' # 0
    BY <1>4, <1>5, <1>12
  <2>4. poc' # NoPoc
    BY <1>9, <2>1, NoPocAssumption
  <2> QED BY <1>3, <1>9, <1>10, <2>1, <2>2, <2>3, <2>4
<1> QED BY <1>11, <1>12

(* A chunk of sound leaves the headers alone, and plays the sound if it is last. *)
LEMMA AudioChunkEffect ==
  ASSUME RInv, NEW p, AudioChunk(p)
  PROVE  /\ isBlitting = 2 /\ PayloadLength = poc.bytes_audio_len
         /\ poc'.bytes_recv = poc.bytes_recv + p.len
         /\ poc' \in PocType /\ poc' # NoPoc
         /\ poc'.bytes_len = poc.bytes_len /\ poc'.pixels_len = poc.pixels_len
         /\ poc'.bytes_audio_len = poc.bytes_audio_len
         /\ isBlitting' = IF poc'.bytes_recv = poc.bytes_audio_len THEN 0 ELSE 2
         /\ Played' <=> isBlitting' = 0
         /\ UNCHANGED headers
<1> DEFINE received == poc.bytes_recv + p.len
           done == received >= poc.bytes_audio_len
           rest == IF done THEN 0 ELSE poc.buffer_offset
           samples == CASE audioChannels = 0 -> 0
                        [] audioChannels = 1 -> poc.bytes_audio_len \div 2
                        [] OTHER             -> poc.bytes_audio_len \div 4
<1>1. /\ Accepted(p, 2) /\ Progress(received, poc.bytes_audio_len, 2)
      /\ poc' = [poc EXCEPT !.bytes_recv = received, !.buffer_offset = rest]
      /\ spi' = IF done THEN <<[op |-> "AUDIO", samples |-> samples]>> ELSE <<>>
      /\ UNCHANGED headers
  BY DEF AudioChunk
<1>2. /\ isBlitting = 2 /\ poc \in PocType /\ poc # NoPoc
      /\ PayloadLength = poc.bytes_audio_len /\ poc.bytes_audio_len \in Nat
      /\ received \in Nat /\ received <= poc.bytes_audio_len
  <2>1. PayloadLength = poc.bytes_audio_len
    BY <1>1, AcceptedSound DEF PayloadLength
  <2> QED BY <1>1, <2>1, AcceptedSound
<1>3. isBlitting' = IF done THEN 0 ELSE 2
  BY <1>1 DEF Progress
<1>4. rest \in Nat
  BY <1>2 DEF PocType
<1> HIDE DEF samples
<1>5. Played' <=> done
  BY <1>1 DEF Played
<1> HIDE DEF received, rest
<1>6. /\ poc' \in PocType /\ poc'.bytes_recv = received /\ poc'.bytes_len = poc.bytes_len
      /\ poc'.pixels_len = poc.pixels_len /\ poc'.bytes_audio_len = poc.bytes_audio_len
  BY <1>1, <1>2, <1>4, Zenon DEF PocType
<1>7. poc' # NoPoc
  BY <1>6, NoPocAssumption
<1> QED BY <1>1, <1>2, <1>3, <1>5, <1>6, <1>7 DEF received

-----------------------------------------------------------------------------
(* What setBlit leaves of the frame's size, and what it tells the core.        *)
LEMMA BlitPixels ==
  ASSUME TypeOK, NEW p, poc \in PocType, BlitPoc(p) \in PocType
  PROVE  BlitPoc(p).pixels_len = poc.pixels_len /\ BlitPoc(p).bytes_lz4_ddr = 0
  BY DEF BlitPoc, PocType

LEMMA BlitTold ==
  ASSUME RInv, NEW p, Blit(p)
  PROVE  /\ poc' # NoPoc /\ poc'.pixels_len = poc.pixels_len /\ poc'.bytes_len = poc.bytes_len
         /\ ~Played'
         /\ isBlitting' = 1 /\ hpsBlit # 0 =>
              UNCHANGED headers /\ poc'.pixels_ddr = 0 /\ poc'.bytes_lz4_ddr = 0
         /\ isBlitting' = 1 /\ hpsBlit = 0 =>
              IF blitCompression # 0 THEN lz4'.bytes = 0 /\ lz4'.numBlit = 0
                                     ELSE raw'.pixels = 0 /\ raw'.numBlit = 0
<1>1. /\ IInv /\ TypeOK /\ p \in PacketType /\ poc \in PocType /\ poc' \in PocType
      /\ BlitValid(p) /\ poc'.bytes_len = BlitPoc(p).bytes_len
      /\ isBlitting' = IF Duplicate(p) THEN 0 ELSE 1
      /\ numBlit' = IF Duplicate(p) THEN 1 ELSE 0
  BY BlitEffect DEF RInv, HInv
<1>2. /\ BlitPoc(p) \in PocType /\ BlitPoc(p).bytes_len = poc.bytes_len
      /\ BlitPoc(p).bytes_recv = IF Duplicate(p) THEN poc.bytes_len ELSE 0
  BY <1>1, BlitPocType
<1>3. BlitPoc(p).pixels_len = poc.pixels_len /\ BlitPoc(p).bytes_lz4_ddr = 0
  BY <1>1, <1>2, BlitPixels
<1>4. poc' # NoPoc /\ poc'.bytes_len = poc.bytes_len
  BY <1>1, <1>2, NoPocAssumption
<1>5. CASE ~ (hpsBlit = 0 \/ Duplicate(p))
  <2>1. poc' = [BlitPoc(p) EXCEPT !.pixels_ddr = 0] /\ spi' = <<>> /\ UNCHANGED headers
    BY <1>5, Zenon DEF Blit
  <2>2. /\ poc'.pixels_len = BlitPoc(p).pixels_len /\ poc'.pixels_ddr = 0
        /\ poc'.bytes_lz4_ddr = BlitPoc(p).bytes_lz4_ddr
    BY <1>2, <2>1, Zenon DEF PocType
  <2>3. ~Played'
    BY <2>1 DEF Played
  <2> QED BY <1>3, <1>4, <1>5, <2>1, <2>2, <2>3
<1>6. CASE (hpsBlit = 0 \/ Duplicate(p)) /\ blitCompression # 0
  <2>1. FPGA_blit_lz4(BlitPoc(p), 0, 0)
    BY <1>6, Zenon DEF Blit
  <2>2. /\ lz4'.bytes = 0 /\ lz4'.numBlit = 0 /\ ~Played'
        /\ poc'.pixels_len = BlitPoc(p).pixels_len
    BY <1>1, <1>2, <2>1, FPGA_blit_lz4Told
  <2> QED BY <1>1, <1>3, <1>4, <1>6, <2>2
<1>7. CASE (hpsBlit = 0 \/ Duplicate(p)) /\ blitCompression = 0
  <2>1. FPGA_blit(BlitPoc(p), BlitPoc(p).bytes_recv, numBlit')
    BY <1>7, Zenon DEF Blit
  <2>2. BlitPoc(p).bytes_recv \in Nat
    BY <1>2 DEF PocType
  <2>3. /\ raw'.pixels = BlitPoc(p).bytes_recv \div Bpp(rgbMode) /\ raw'.numBlit = numBlit'
        /\ ~Played' /\ poc'.pixels_len = BlitPoc(p).pixels_len
    BY <1>1, <1>2, <2>1, <2>2, FPGA_blitTold
  <2>4. 0 \div Bpp(rgbMode) = 0
    BY BppType
  <2>5. isBlitting' = 1 => raw'.pixels = 0 /\ raw'.numBlit = 0
    BY <1>1, <1>2, <2>3, <2>4
  <2> QED BY <1>1, <1>3, <1>4, <1>7, <2>3, <2>5
<1> QED BY <1>5, <1>6, <1>7

(* What the loss of a payload tells the core.                                   *)
LEMMA LoseTold ==
  ASSUME RInv, NEW p, LosePayload(p)
  PROVE  /\ isBlitting # 0 /\ isBlitting' = 0 /\ UNCHANGED <<setup, blitCompression, rgbMode>>
         /\ ~Played'
         /\ poc # NoPoc /\ poc' # NoPoc
         /\ poc'.pixels_len = poc.pixels_len /\ poc'.bytes_len = poc.bytes_len
         /\ IF isBlitting = 1 /\ hpsBlit = 0
            THEN BytesTold' = PayloadLength /\ ChunksTold' = AbortBlit
            ELSE UNCHANGED headers
<1>1. /\ IInv /\ TypeOK /\ isBlitting # 0 /\ isBlitting' = 0 /\ poc \in PocType /\ poc # NoPoc
      /\ UNCHANGED <<setup, blitCompression, rgbMode>> /\ poc' \in PocType \union {NoPoc}
      /\ LossDetected(p)
  <2>1. Payload(p) /\ IInv
    BY DEF LosePayload, LossDetected, RInv, HInv
  <2>2. TypeOK'
    BY <2>1, LosePayloadInv DEF IInv
  <2> QED BY <2>1, <2>2, PayloadSound DEF LosePayload, IInv, TypeOK
<1>2. CASE ~ (isBlitting = 1 /\ hpsBlit = 0)
  <2>1. spi' = <<>> /\ poc' = poc /\ UNCHANGED headers
    BY <1>2, Zenon DEF LosePayload
  <2>2. ~Played'
    BY <2>1 DEF Played
  <2> QED BY <1>1, <1>2, <2>1, <2>2
<1>3. CASE isBlitting = 1 /\ hpsBlit = 0 /\ blitCompression # 0
  <2>1. FPGA_blit_lz4(poc, poc.bytes_lz4_len, AbortBlit)
    BY <1>3, Zenon DEF LosePayload
  <2>2. poc.bytes_lz4_len \in Nat
    BY <1>1 DEF PocType
  <2>3. /\ lz4'.bytes = poc.bytes_lz4_len /\ lz4'.numBlit = AbortBlit /\ ~Played'
        /\ poc'.pixels_len = poc.pixels_len /\ poc'.bytes_len = poc.bytes_len
    BY <1>1, <2>1, <2>2, FPGA_blit_lz4Told
  <2>4. PayloadLength = poc.bytes_lz4_len
    BY <1>1, <1>3 DEF PayloadLength
  <2>5. poc' # NoPoc
    <3>1. poc' = [poc EXCEPT !.bytes_lz4_ddr = poc.bytes_lz4_len, !.frame_ddr = poc.frame_recv]
      BY <2>1 DEF FPGA_blit_lz4
    <3>2. poc.frame_recv \in Nat
      BY <1>1 DEF PocType
    <3>3. poc' \in PocType
      BY <1>1, <2>2, <3>1, <3>2, Zenon DEF PocType
    <3> QED BY <3>3, NoPocAssumption
  <2> QED BY <1>1, <1>3, <2>3, <2>4, <2>5 DEF BytesTold, ChunksTold
<1>4. CASE isBlitting = 1 /\ hpsBlit = 0 /\ blitCompression = 0
  <2>1. FPGA_blit(poc, poc.bytes_len, AbortBlit)
    BY <1>4, Zenon DEF LosePayload
  <2>2. poc.bytes_len \in Nat /\ poc.pixels_len \in Nat
    BY <1>1 DEF PocType
  <2>3. /\ raw'.pixels = poc.bytes_len \div Bpp(rgbMode) /\ raw'.numBlit = AbortBlit /\ ~Played'
        /\ poc'.pixels_len = poc.pixels_len /\ poc'.bytes_len = poc.bytes_len
    BY <1>1, <2>1, <2>2, FPGA_blitTold
  <2>4. PayloadLength = poc.bytes_len
    BY <1>1, <1>4 DEF PayloadLength
  <2>5. poc' # NoPoc
    <3>1. poc' = [poc EXCEPT !.pixels_ddr = poc.bytes_len \div Bpp(rgbMode),
                             !.frame_ddr = poc.frame_recv]
      BY <2>1 DEF FPGA_blit
    <3>2. poc.frame_recv \in Nat /\ poc.bytes_len \div Bpp(rgbMode) \in Nat
      BY <1>1, <2>2, PixelsType DEF PocType
    <3>3. poc' \in PocType
      BY <1>1, <3>1, <3>2, Zenon DEF PocType
    <3> QED BY <3>3, NoPocAssumption
  <2>6. poc.bytes_len = poc.pixels_len * Bpp(rgbMode)
    BY <1>1 DEF RInv, WholePixels
  <2>7. raw'.pixels * Bpp(rgbMode) = poc.bytes_len
    BY <2>2, <2>3, <2>6, MultipleOfBpp
  <2>8. BytesTold' = raw'.pixels * Bpp(rgbMode) /\ ChunksTold' = raw'.numBlit
    BY <1>1, <1>4 DEF BytesTold, ChunksTold, Bpp
  <2> QED BY <1>1, <1>4, <2>3, <2>4, <2>5, <2>7, <2>8
<1> QED BY <1>1, <1>2, <1>3, <1>4 DEF IInv, TypeOK

-----------------------------------------------------------------------------
(* Only the last chunk of a sound posts UIO_SET_GROOVY_AUDIO.                   *)
LEMMA NotPlayed ==
  ASSUME RInv, Next, Played'
  PROVE  \E p : AudioChunk(p)
<1>1. IInv /\ TypeOK
  BY DEF RInv, HInv, IInv
<1>2. CASE StartWithoutMap \/ Stop \/ LogoStart \/ InitDone \/ FpgaStep
  BY <1>2 DEF StartWithoutMap, Stop, LogoStart, InitDone, FpgaStep, FpgaLeavesIdle,
              FpgaReachesIdle, Played
<1>3. CASE \E bound \in BOOLEAN : Start(bound)
  BY <1>3 DEF Start, Played
<1>4. CASE \E p : HandleCommand(p)
  <2>1. PICK p : HandleCommand(p)
    BY <1>4
  <2>2. CASE \E allocated \in BOOLEAN : Close(p, allocated)
    BY <2>2 DEF Close, Played
  <2>3. CASE Init_(p) \/ InitFails(p)
    BY <2>3 DEF Init_, StopLogo, InitFails, Played
  <2>4. CASE GetVersion(p) \/ GetStatus(p) \/ Audio(p) \/ Ignore(p)
    <3>1. spi' = <<>>
      BY <2>4, Zenon DEF GetVersion, GetStatus, Audio, Ignore
    <3> QED BY <3>1 DEF Played
  <2>5. CASE Switchres(p)
    <3>1. spi' = <<[op |-> "SWITCHRES", frame |-> poc.frame_ddr]>>
      BY <2>5, Zenon DEF Switchres
    <3> QED BY <3>1 DEF Played
  <2>6. CASE Blit(p)
    BY <2>6, BlitTold
  <2> QED BY <2>1, <2>2, <2>3, <2>4, <2>5, <2>6 DEF HandleCommand
<1>5. CASE \E p : HandlePayload(p)
  <2>1. PICK p : HandlePayload(p)
    BY <1>5
  <2>2. CASE RejectPayload(p) \/ SkipNoModeline(p)
    BY <2>2 DEF RejectPayload, SkipNoModeline, Quiet, Played
  <2>3. CASE LosePayload(p)
    BY <2>3, LoseTold
  <2>4. CASE RawChunk(p)   BY <2>4, RawChunkEffect
  <2>5. CASE Lz4Chunk(p)   BY <2>5, Lz4ChunkEffect
  <2>6. CASE AudioChunk(p) BY <2>6
  <2> QED BY <2>1, <2>2, <2>3, <2>4, <2>5, <2>6 DEF HandlePayload
<1> QED BY <1>2, <1>3, <1>4, <1>5, Steps

(* A reception is opened by a blit or by the announcement of a sound.          *)
LEMMA SoundOpens ==
  ASSUME IInv, Next, isBlitting = 0, isBlitting' = 2
  PROVE  \E p : Audio(p)
<1>1. CASE StartWithoutMap \/ Stop \/ LogoStart \/ InitDone \/ FpgaStep
  BY <1>1 DEF StartWithoutMap, Stop, LogoStart, InitDone, FpgaStep, FpgaLeavesIdle,
              FpgaReachesIdle, blit
<1>2. CASE \E bound \in BOOLEAN : Start(bound)
  BY <1>2 DEF Start
<1>3. CASE \E p : HandleCommand(p)
  <2>1. PICK p : HandleCommand(p)
    BY <1>3
  <2>2. CASE \E allocated \in BOOLEAN : Close(p, allocated)
    BY <2>2 DEF Close
  <2>3. CASE Init_(p)
    BY <2>3 DEF Init_
  <2>5. CASE InitFails(p) \/ GetVersion(p) \/ GetStatus(p) \/ Ignore(p) \/ Switchres(p)
    <3>1. isBlitting' = isBlitting
      BY <2>5 DEF InitFails, GetVersion, GetStatus, Switchres, Ignore, blit
    <3> QED BY <3>1
  <2>4. CASE Blit(p)
    <3>1. isBlitting' = 0 \/ isBlitting' = 1
      BY <2>4, Zenon DEF Blit
    <3> QED BY <3>1
  <2> QED BY <2>1, <2>2, <2>3, <2>4, <2>5 DEF HandleCommand
<1>4. CASE \E p : HandlePayload(p)
  BY <1>4 DEF HandlePayload, RejectPayload, LosePayload, SkipNoModeline, RawChunk, Lz4Chunk,
              AudioChunk, Accepted, LossDetected, Payload
<1> QED BY <1>1, <1>2, <1>3, <1>4, Steps

(* While one is open the poll loop only takes payload.                         *)
LEMMA WhileReceiving ==
  ASSUME IInv, Next, isBlitting # 0
  PROVE  FpgaStep \/ \E p : HandlePayload(p)
<1>1. pc = "poll" /\ isCorePriority # 0
  BY NoReception DEF IInv, ReceptionSound
<1>2. ASSUME NEW p, HandleCommand(p) PROVE FALSE
  <2>1. Dispatched(p)
    BY <1>2, Zenon DEF HandleCommand, Close, Init_, InitFails, GetVersion, GetStatus, Switchres,
                Audio, Blit, Ignore, Command
  <2> QED BY <2>1, DispatchedSound
<1> QED
  BY <1>1, <1>2, Steps DEF StartWithoutMap, Stop, LogoStart, InitDone, Start

-----------------------------------------------------------------------------
(* Frames stay a whole number of pixels.                                       *)
LEMMA SwitchresPixels ==
  ASSUME IInv, NEW p, Switchres(p)
  PROVE  poc'.bytes_len = poc'.pixels_len * Bpp(rgbMode) /\ rgbMode' = rgbMode
<1>1. poc \in PocType
  BY DEF Switchres, ModelineValid, IInv, TypeOK
<1> DEFINE pixels == IF p.interlace = 1 THEN p.px \div 2 ELSE p.px
           progressive == IF p.interlace = 1 THEN 0 ELSE 1
<1>2. PICK vga_frame \in VgaFrames :
        LET last == IF usingOldBlit = 1 /\ progressive = 0 /\ vga_frame > poc.frame_ddr
                    THEN vga_frame ELSE poc.frame_ddr
        IN poc' = [poc EXCEPT !.pixels_ddr = 0,
                              !.FB_progressive = progressive,
                              !.field_frame = (last + 1) % FrameMod,
                              !.field = 0,
                              !.pixels_len = pixels,
                              !.bytes_len = pixels * Bpp(rgbMode),
                              !.bytes_recv = 0,
                              !.buffer_offset = 0]
  BY DEF Switchres
<1> HIDE DEF pixels, progressive
<1>3. poc'.bytes_len = pixels * Bpp(rgbMode) /\ poc'.pixels_len = pixels
  BY <1>1, <1>2 DEF PocType
<1>4. rgbMode' = rgbMode
  BY Zenon DEF Switchres
<1> QED BY <1>3, <1>4

LEMMA WholePixelsStep ==
  ASSUME RInv, Next
  PROVE  WholePixels'
<1>1. IInv /\ WholePixels
  BY DEF RInv, HInv
<1>2. ASSUME poc' = poc, rgbMode' = rgbMode PROVE WholePixels'
  BY <1>1, <1>2 DEF WholePixels, Bpp
<1>3. ASSUME poc' = ZeroPoc \/ poc' = NoPoc PROVE WholePixels'
  <2>1. 0 * Bpp(rgbMode') = 0
    BY BppType
  <2> QED BY <1>3, <2>1 DEF WholePixels, ZeroPoc, Bpp
<1>4. ASSUME poc'.bytes_len = poc.bytes_len, poc'.pixels_len = poc.pixels_len,
             rgbMode' = rgbMode, poc # NoPoc
      PROVE WholePixels'
  BY <1>1, <1>4 DEF WholePixels, Bpp
<1>5. CASE StartWithoutMap \/ Stop \/ LogoStart \/ InitDone \/ FpgaStep
  BY <1>2, <1>3, <1>5 DEF StartWithoutMap, Stop, LogoStart, InitDone, FpgaStep, FpgaLeavesIdle,
                          FpgaReachesIdle, session
<1>6. CASE \E bound \in BOOLEAN : Start(bound)
  BY <1>2, <1>3, <1>6 DEF Start
<1>7. CASE \E p : HandleCommand(p)
  <2>1. PICK p : HandleCommand(p)
    BY <1>7
  <2>2. CASE \E allocated \in BOOLEAN : Close(p, allocated)
    BY <1>3, <2>2 DEF Close
  <2>3. CASE Init_(p)
    BY <1>3, <2>3 DEF Init_
  <2>4. CASE InitFails(p) \/ GetVersion(p) \/ GetStatus(p) \/ Ignore(p)
    BY <1>2, <2>4 DEF InitFails, GetVersion, GetStatus, Ignore, session
  <2>5. CASE Switchres(p)
    BY <1>1, <2>5, SwitchresPixels DEF WholePixels, Bpp
  <2>6. CASE Audio(p)
    <3>1. /\ poc \in PocType /\ poc # NoPoc /\ rgbMode' = rgbMode
          /\ poc' = [poc EXCEPT !.bytes_audio_len = p.size, !.buffer_offset = AudioOffset,
                                !.bytes_recv = 0]
      BY <1>1, <2>6 DEF Audio, Command, Validated, IInv, TypeOK
    <3>2. poc'.bytes_len = poc.bytes_len /\ poc'.pixels_len = poc.pixels_len
      BY <3>1 DEF PocType
    <3> QED BY <1>4, <3>1, <3>2
  <2>7. CASE Blit(p)
    <3>1. poc # NoPoc /\ rgbMode' = rgbMode
      BY <1>1, <2>7, BlitEffect DEF BlitValid
    <3> QED BY <1>4, <2>7, <3>1, BlitTold
  <2> QED BY <2>1, <2>2, <2>3, <2>4, <2>5, <2>6, <2>7 DEF HandleCommand
<1>8. CASE \E p : HandlePayload(p)
  <2>1. PICK p : HandlePayload(p)
    BY <1>8
  <2>2. CASE RejectPayload(p) \/ SkipNoModeline(p)
    BY <1>2, <2>2 DEF RejectPayload, SkipNoModeline, session
  <2>3. CASE LosePayload(p)
    BY <1>4, <2>3, LoseTold
  <2>4. CASE RawChunk(p)
    <3>1. poc # NoPoc /\ rgbMode' = rgbMode
      BY <2>4, AcceptedSound DEF RawChunk
    <3> QED BY <1>4, <2>4, <3>1, RawChunkEffect
  <2>5. CASE Lz4Chunk(p)
    <3>1. poc # NoPoc /\ rgbMode' = rgbMode
      BY <2>5, AcceptedSound DEF Lz4Chunk
    <3> QED BY <1>4, <2>5, <3>1, Lz4ChunkEffect
  <2>6. CASE AudioChunk(p)
    <3>1. poc # NoPoc /\ rgbMode' = rgbMode
      BY <2>6, AcceptedSound DEF AudioChunk
    <3> QED BY <1>4, <2>6, <3>1, AudioChunkEffect
  <2> QED BY <2>1, <2>2, <2>3, <2>4, <2>5, <2>6 DEF HandlePayload
<1> QED BY <1>5, <1>6, <1>7, <1>8, Steps

(* A frame the core is not told of until it is whole has not been told.        *)
LEMMA UntoldStep ==
  ASSUME RInv, Next
  PROVE  Untold'
<1>1. IInv /\ Untold
  BY DEF RInv, HInv
<1>2. CASE isBlitting' # 1
  BY <1>2 DEF Untold
<1>3. CASE isBlitting' = 1
  <2>1. CASE FpgaStep
    BY <1>1, <2>1 DEF Untold, FpgaStep, FpgaLeavesIdle, FpgaReachesIdle, setup, session, blit
  <2>2. ASSUME NEW p, Blit(p) PROVE Untold'
    BY <1>1, <1>3, <2>2, BlitEffect, BlitTold DEF Untold, setup
  <2>3. ASSUME NEW p, RawChunk(p) PROVE Untold'
    <3>1. UNCHANGED <<setup, blitCompression>>
      BY <2>3, AcceptedSound DEF RawChunk
    <3> QED BY <1>1, <1>3, <2>3, <3>1, RawChunkEffect DEF Untold, setup
  <2>4. ASSUME NEW p, Lz4Chunk(p) PROVE Untold'
    <3>1. UNCHANGED <<setup, blitCompression>>
      BY <2>4, AcceptedSound DEF Lz4Chunk
    <3> QED BY <1>1, <1>3, <2>4, <3>1, Lz4ChunkEffect DEF Untold, setup
  <2> QED BY <1>1, <1>3, <2>1, <2>2, <2>3, <2>4, FrameOpen
<1> QED BY <1>2, <1>3

(* Only a step that ends a reception plays.                                    *)
LEMMA SilentStep ==
  ASSUME RInv, Next
  PROVE  Silent'
  BY NotPlayed, AudioChunkEffect DEF Silent

LEMMA RInvStep == RInv /\ [Next]_vars => RInv'
<1>1. CASE UNCHANGED vars
  BY <1>1, HeaderStep DEF RInv, vars, setup, session, blit, headers, WholePixels, Untold,
                          Silent, Played, Bpp
<1>2. CASE Next
  BY <1>2, HeaderStep, WholePixelsStep, UntoldStep, SilentStep DEF RInv
<1> QED BY <1>1, <1>2

-----------------------------------------------------------------------------
(* Every step of the server is a step of a reception or none.                  *)

LEMMA SameHeader ==
  ASSUME UNCHANGED headers, UNCHANGED <<blitCompression, rgbMode>>
  PROVE  UNCHANGED <<BytesTold, ChunksTold>>
  BY DEF headers, BytesTold, ChunksTold, Bpp

LEMMA BlitRefines ==
  ASSUME RInv, NEW p, Blit(p), isBlitting' = 1
  PROVE  R!ReceptionNext
<1>1. /\ IInv /\ TypeOK /\ isBlitting = 0 /\ UNCHANGED <<setup, blitCompression, rgbMode>>
      /\ p \in PacketType /\ poc \in PocType /\ BlitValid(p) /\ ~Duplicate(p)
  BY BlitEffect DEF RInv, HInv
<1>2. poc'.bytes_recv = 0 /\ poc'.bytes_len = poc.bytes_len /\ poc'.bytes_lz4_len = BlitSize(p)
  BY <1>1, BlitEffect, BlitPocType
<1>3. poc' # NoPoc /\ ~Played'
  BY BlitTold
<1>4. PayloadLength' \in Nat \ {0}
  <2>1. PayloadLength' = IF blitCompression # 0 THEN poc'.bytes_lz4_len ELSE poc'.bytes_len
    BY <1>1, <1>3 DEF PayloadLength
  <2> QED BY <1>1, <1>2, <2>1, SizesType DEF BlitValid
<1>5. hpsBlit # 0 => UNCHANGED <<BytesTold, ChunksTold>>
  BY <1>1, BlitTold, SameHeader
<1>6. hpsBlit = 0 => BytesTold' = 0 /\ ChunksTold' # AbortBlit
  <2> SUFFICES ASSUME hpsBlit = 0 PROVE BytesTold' = 0 /\ ChunksTold' # AbortBlit
    OBVIOUS
  <2>1. CASE blitCompression # 0
    BY <1>1, <2>1, BlitTold DEF BytesTold, ChunksTold, AbortBlit
  <2>2. CASE blitCompression = 0
    <3>1. raw'.pixels = 0 /\ raw'.numBlit = 0
      BY <2>2, BlitTold
    <3>2. BytesTold' = 0 * Bpp(rgbMode) /\ ChunksTold' = 0
      BY <1>1, <2>2, <3>1 DEF BytesTold, ChunksTold, Bpp
    <3> QED BY <3>2, BppType DEF AbortBlit
  <2> QED BY <2>1, <2>2
<1> QED BY <1>1, <1>2, <1>3, <1>4, <1>5, <1>6, AnnounceFrameStep DEF setup, IInv, TypeOK

LEMMA AudioRefines ==
  ASSUME RInv, NEW p, Audio(p)
  PROVE  R!ReceptionNext
<1>1. /\ isBlitting = 0 /\ poc \in PocType /\ p.size \in Nat \ {0}
      /\ poc' = [poc EXCEPT !.bytes_audio_len = p.size, !.buffer_offset = AudioOffset,
                            !.bytes_recv = 0]
      /\ isBlitting' = 2 /\ spi' = <<>> /\ UNCHANGED headers
      /\ UNCHANGED <<setup, blitCompression, rgbMode>>
  <2>1. Dispatched(p) /\ Validated(p) /\ p.cmd = "AUDIO" /\ p.size \in 1 .. AudioSize
    BY Zenon DEF Audio, Command
  <2>2. poc \in PocType /\ isBlitting = 0
    BY <2>1, DispatchedSound DEF Validated, RInv, HInv, IInv, TypeOK
  <2>3. p.size \in Nat \ {0}
    BY <2>1, SizesType
  <2> QED BY <2>2, <2>3 DEF Audio
<1>2. poc' \in PocType /\ poc'.bytes_audio_len = p.size /\ poc'.bytes_recv = 0
  BY <1>1, Zero, SizesType, Zenon DEF PocType
<1>3. PayloadLength' = p.size
  BY <1>1, <1>2, NoPocAssumption DEF PayloadLength
<1>4. ~Played'
  BY <1>1 DEF Played
<1> QED BY <1>1, <1>2, <1>3, <1>4, SameHeader, AnnounceSoundStep DEF setup

LEMMA RawChunkRefines ==
  ASSUME RInv, NEW p, RawChunk(p)
  PROVE  R!ReceptionNext
<1>1. /\ IInv /\ TypeOK /\ isBlitting = 1 /\ UNCHANGED <<setup, blitCompression, rgbMode>>
      /\ poc.bytes_recv \in Nat /\ poc.bytes_recv < PayloadLength
      /\ p.len \in Nat \ {0} /\ poc.bytes_recv + p.len <= PayloadLength /\ PayloadLength \in Nat
      /\ poc \in PocType /\ poc # NoPoc
  BY AcceptedSound DEF RawChunk
<1>2. /\ blitCompression = 0 /\ PayloadLength = poc.bytes_len
      /\ poc'.bytes_recv = poc.bytes_recv + p.len
      /\ poc' # NoPoc /\ poc'.bytes_len = poc.bytes_len /\ ~Played'
      /\ isBlitting' = IF poc'.bytes_recv = poc.bytes_len THEN 0 ELSE 1
  BY RawChunkEffect
<1>3. CASE isBlitting' = 0
  <2>1. poc'.bytes_recv = poc.bytes_len
    BY <1>2, <1>3
  <2>2. raw'.pixels = poc'.bytes_recv \div Bpp(rgbMode) /\ raw'.numBlit # AbortBlit
    BY <1>3, RawChunkEffect
  <2>3. poc.bytes_len = poc.pixels_len * Bpp(rgbMode) /\ poc.pixels_len \in Nat
    BY <1>1 DEF RInv, WholePixels, PocType
  <2>4. raw'.pixels * Bpp(rgbMode) = poc.bytes_len
    BY <2>1, <2>2, <2>3, MultipleOfBpp
  <2>5. BytesTold' = raw'.pixels * Bpp(rgbMode) /\ ChunksTold' = raw'.numBlit
    BY <1>1, <1>2 DEF BytesTold, ChunksTold, Bpp
  <2> QED BY <1>1, <1>2, <1>3, <2>2, <2>4, <2>5, CompleteFrameStep DEF setup
<1>4. CASE isBlitting' = 1
  <2>1. poc'.bytes_recv < PayloadLength /\ poc.bytes_recv < poc'.bytes_recv
    BY <1>1, <1>2, <1>4
  <2>2. PayloadLength' = PayloadLength
    BY <1>1, <1>2, <1>4 DEF PayloadLength
  <2>3. hpsBlit # 0 => UNCHANGED <<BytesTold, ChunksTold>>
    BY <1>1, <1>2, <1>4, RawChunkEffect DEF BytesTold, ChunksTold, Bpp
  <2>4. hpsBlit = 0 => /\ BytesTold <= BytesTold' /\ BytesTold' <= poc'.bytes_recv
                       /\ ChunksTold # AbortBlit /\ ChunksTold' # AbortBlit
    <3> SUFFICES ASSUME hpsBlit = 0
                 PROVE  /\ BytesTold <= BytesTold' /\ BytesTold' <= poc'.bytes_recv
                        /\ ChunksTold # AbortBlit /\ ChunksTold' # AbortBlit
      OBVIOUS
    <3>1. raw.pixels * Bpp(rgbMode) <= poc.bytes_recv /\ raw.numBlit # AbortBlit
      BY <1>1, <1>2 DEF RInv, HInv, HeaderHonest
    <3>2. raw'.pixels = poc'.bytes_recv \div Bpp(rgbMode) /\ raw'.numBlit # AbortBlit
      BY RawChunkEffect
    <3>3. /\ BytesTold' = raw'.pixels * Bpp(rgbMode) /\ ChunksTold' = raw'.numBlit
          /\ BytesTold = raw.pixels * Bpp(rgbMode) /\ ChunksTold = raw.numBlit
      BY <1>1, <1>2 DEF BytesTold, ChunksTold, Bpp
    <3>4. raw.pixels \in Nat /\ poc'.bytes_recv \in Nat /\ raw.pixels * Bpp(rgbMode) \in Nat
      BY <1>1, <1>2, BppType DEF TypeOK, RawType
    <3>5. raw.pixels * Bpp(rgbMode) <= poc'.bytes_recv
      BY <1>1, <2>1, <3>1, <3>4
    <3>6. raw'.pixels * Bpp(rgbMode) <= poc'.bytes_recv
      BY <3>2, <3>4, PixelsType
    <3>7. raw.pixels * Bpp(rgbMode) <= raw'.pixels * Bpp(rgbMode)
      BY <3>2, <3>4, <3>5, PixelsGrow
    <3> QED BY <3>1, <3>2, <3>3, <3>6, <3>7
  <2> QED BY <1>1, <1>2, <1>4, <2>1, <2>2, <2>3, <2>4, ReceiveFrameStep DEF setup, TypeOK
<1> QED BY <1>2, <1>3, <1>4

LEMMA Lz4ChunkRefines ==
  ASSUME RInv, NEW p, Lz4Chunk(p)
  PROVE  R!ReceptionNext
<1>1. /\ IInv /\ TypeOK /\ isBlitting = 1 /\ UNCHANGED <<setup, blitCompression, rgbMode>>
      /\ poc.bytes_recv \in Nat /\ poc.bytes_recv < PayloadLength
      /\ p.len \in Nat \ {0} /\ poc.bytes_recv + p.len <= PayloadLength /\ PayloadLength \in Nat
      /\ poc \in PocType /\ poc # NoPoc
  BY AcceptedSound DEF Lz4Chunk
<1>2. /\ blitCompression # 0 /\ PayloadLength = poc.bytes_lz4_len
      /\ poc'.bytes_recv = poc.bytes_recv + p.len
      /\ poc' # NoPoc /\ poc'.bytes_lz4_len = poc.bytes_lz4_len /\ ~Played'
      /\ isBlitting' = IF poc'.bytes_recv = poc.bytes_lz4_len THEN 0 ELSE 1
  BY Lz4ChunkEffect
<1>3. CASE isBlitting' = 0
  <2>1. poc'.bytes_recv = poc.bytes_lz4_len
    BY <1>2, <1>3
  <2>2. lz4'.bytes = poc'.bytes_recv /\ lz4'.numBlit # AbortBlit
    BY <1>3, Lz4ChunkEffect
  <2>3. BytesTold' = lz4'.bytes /\ ChunksTold' = lz4'.numBlit
    BY <1>1, <1>2 DEF BytesTold, ChunksTold
  <2> QED BY <1>1, <1>2, <1>3, <2>1, <2>2, <2>3, CompleteFrameStep DEF setup
<1>4. CASE isBlitting' = 1
  <2>1. poc'.bytes_recv < PayloadLength /\ poc.bytes_recv < poc'.bytes_recv
    BY <1>1, <1>2, <1>4
  <2>2. PayloadLength' = PayloadLength
    BY <1>1, <1>2, <1>4 DEF PayloadLength
  <2>3. hpsBlit # 0 => UNCHANGED <<BytesTold, ChunksTold>>
    BY <1>1, <1>2, <1>4, Lz4ChunkEffect DEF BytesTold, ChunksTold
  <2>4. hpsBlit = 0 => /\ BytesTold <= BytesTold' /\ BytesTold' <= poc'.bytes_recv
                       /\ ChunksTold # AbortBlit /\ ChunksTold' # AbortBlit
    <3> SUFFICES ASSUME hpsBlit = 0
                 PROVE  /\ BytesTold <= BytesTold' /\ BytesTold' <= poc'.bytes_recv
                        /\ ChunksTold # AbortBlit /\ ChunksTold' # AbortBlit
      OBVIOUS
    <3>1. lz4.bytes <= poc.bytes_recv /\ lz4.numBlit # AbortBlit /\ lz4.bytes \in Nat
      BY <1>1, <1>2 DEF RInv, HInv, HeaderHonest, TypeOK, Lz4Type
    <3>2. lz4'.bytes = poc'.bytes_recv /\ lz4'.numBlit # AbortBlit
      BY Lz4ChunkEffect
    <3>3. /\ BytesTold' = lz4'.bytes /\ ChunksTold' = lz4'.numBlit
          /\ BytesTold = lz4.bytes /\ ChunksTold = lz4.numBlit
      BY <1>1, <1>2 DEF BytesTold, ChunksTold
    <3> QED BY <1>1, <1>2, <3>1, <3>2, <3>3
  <2> QED BY <1>1, <1>2, <1>4, <2>1, <2>2, <2>3, <2>4, ReceiveFrameStep DEF setup, TypeOK
<1> QED BY <1>2, <1>3, <1>4

LEMMA AudioChunkRefines ==
  ASSUME RInv, NEW p, AudioChunk(p)
  PROVE  R!ReceptionNext
<1>1. /\ isBlitting = 2 /\ UNCHANGED <<setup, blitCompression, rgbMode>>
      /\ poc.bytes_recv \in Nat /\ poc.bytes_recv < PayloadLength /\ PayloadLength \in Nat
      /\ p.len \in Nat \ {0} /\ poc.bytes_recv + p.len <= PayloadLength /\ poc # NoPoc
  BY AcceptedSound DEF AudioChunk
<1>2. /\ PayloadLength = poc.bytes_audio_len
      /\ poc'.bytes_recv = poc.bytes_recv + p.len
      /\ poc' # NoPoc /\ poc'.bytes_audio_len = poc.bytes_audio_len
      /\ isBlitting' = IF poc'.bytes_recv = poc.bytes_audio_len THEN 0 ELSE 2
      /\ Played' <=> isBlitting' = 0
      /\ UNCHANGED headers
  BY AudioChunkEffect
<1>3. UNCHANGED <<BytesTold, ChunksTold>>
  BY <1>1, <1>2, SameHeader
<1>4. CASE isBlitting' = 0
  BY <1>1, <1>2, <1>3, <1>4, CompleteSoundStep DEF setup
<1>5. CASE isBlitting' = 2
  <2>1. PayloadLength' = PayloadLength
    BY <1>1, <1>2, <1>5 DEF PayloadLength
  <2> QED BY <1>1, <1>2, <1>3, <1>5, <2>1, ReceiveSoundStep DEF setup
<1> QED BY <1>2, <1>4, <1>5

LEMMA RefinementStep ==
  RInv /\ [Next]_vars => [R!ReceptionNext]_(R!receptionVars)
<1> SUFFICES ASSUME RInv, [Next]_vars
             PROVE  R!ReceptionNext \/ UNCHANGED R!receptionVars
  OBVIOUS
<1>1. IInv /\ TypeOK
  BY DEF RInv, HInv, IInv
<1>2. ASSUME UNCHANGED <<setup, session, isBlitting, headers>>, Played' <=> Played
      PROVE  UNCHANGED R!receptionVars
  BY <1>2 DEF setup, session, headers, R!receptionVars, Kind, Expected, Got, BytesTold,
              ChunksTold, PayloadLength, Bpp
<1>3. CASE UNCHANGED vars
  BY <1>2, <1>3 DEF vars, blit, Played
<1>4. CASE Next /\ isBlitting # 0
  <2>1. CASE FpgaStep
    <3>1. UNCHANGED <<setup, session, isBlitting, headers>> /\ spi' = <<>>
      BY <2>1 DEF FpgaStep, FpgaLeavesIdle, FpgaReachesIdle, blit
    <3>2. ~Played /\ ~Played'
      BY <1>4, <3>1 DEF RInv, Silent, Played
    <3> QED BY <1>2, <3>1, <3>2
  <2>2. ASSUME NEW p, RejectPayload(p) \/ SkipNoModeline(p) PROVE R!ReceptionNext
    <3>1. /\ isBlitting' = 0 /\ hpsBlit' = hpsBlit /\ UNCHANGED headers /\ spi' = <<>>
          /\ UNCHANGED <<blitCompression, rgbMode>>
      BY <2>2 DEF RejectPayload, SkipNoModeline, Quiet, session, setup
    <3>2. ~Played'
      BY <3>1 DEF Played
    <3> QED BY <1>4, <3>1, <3>2, SameHeader, GiveUpStep
  <2>3. ASSUME NEW p, LosePayload(p) PROVE R!ReceptionNext
    <3>1. CASE isBlitting = 1 /\ hpsBlit = 0
      BY <2>3, <3>1, LoseTold, AbortStep DEF setup
    <3>2. CASE ~ (isBlitting = 1 /\ hpsBlit = 0)
      BY <1>4, <2>3, <3>2, LoseTold, SameHeader, GiveUpStep DEF setup
    <3> QED BY <3>1, <3>2
  <2> QED
    BY <1>1, <1>4, <2>1, <2>2, <2>3, WhileReceiving, RawChunkRefines, Lz4ChunkRefines,
       AudioChunkRefines, Zenon DEF HandlePayload
<1>5. CASE Next /\ isBlitting = 0 /\ isBlitting' = 0
  <2>1. ~Played'
    BY <1>5, NotPlayed, AudioChunkEffect
  <2> QED BY <1>5, <2>1, BetweenStep
<1>6. CASE Next /\ isBlitting = 0 /\ isBlitting' = 1
  BY <1>1, <1>6, FrameOpen, BlitRefines, RawChunkEffect, Lz4ChunkEffect
     DEF FpgaStep, FpgaLeavesIdle, FpgaReachesIdle, blit
<1>7. CASE Next /\ isBlitting = 0 /\ isBlitting' = 2
  BY <1>1, <1>7, SoundOpens, AudioRefines
<1>8. isBlitting' \in 0 .. 2
  BY <1>1, StepInv DEF IInv, TypeOK
<1> QED BY <1>3, <1>4, <1>5, <1>6, <1>7, <1>8

(* The server implements the reception of frames and sounds, whatever          *)
(* datagrams it is sent.                                                       *)
THEOREM ReceptionImplemented == Spec => KeepsReception
<1>1. Init => RInv
  <2> SUFFICES ASSUME Init PROVE RInv
    OBVIOUS
  <2>1. HInv
    BY InitInv DEF Init, HInv, HeaderHonest, ChunkCountBounded
  <2> QED BY <2>1 DEF Init, RInv, WholePixels, Untold, Silent
<1>2. Init => R!ReceptionInit
  <2> SUFFICES ASSUME Init PROVE R!ReceptionInit
    OBVIOUS
  <2>1. raw.pixels = 0 /\ raw.numBlit = 0 /\ blitCompression = 0 /\ spi = <<>> /\ isBlitting = 0
    BY DEF Init, ZeroRaw
  <2>2. 0 * Bpp(rgbMode) = 0
    BY BppType
  <2> QED BY <2>1, <2>2 DEF R!ReceptionInit, Kind, Expected, Got, BytesTold, ChunksTold,
                            AbortBlit, Played
<1> QED BY <1>1, <1>2, RInvStep, RefinementStep, PTL DEF Spec, KeepsReception, R!ReceptionSpec
=============================================================================
