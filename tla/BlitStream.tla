------------------------------ MODULE BlitStream ------------------------------
(***************************************************************************)
(* A client of the API (api/groovymister.cpp) streaming frames and sound   *)
(* to the server of GroovyServer through a network that may lose any       *)
(* datagram.                                                               *)
(*                                                                         *)
(* No call of the client waits for the server while it streams, so what    *)
(* the server sees depends on the order of the datagrams only: a call puts *)
(* all of its datagrams on the network, and the next call is made when     *)
(* they have arrived or are lost.  Datagrams do not overtake each other.   *)
(*                                                                         *)
(* The session is open: INIT and a first SWITCHRES have been handled.      *)
(***************************************************************************)
EXTENDS GroovyServer, FiniteSets

CONSTANTS
  Modes,        \* the modelines: numbers of pixels, progressive
  Sizes,        \* what LZ4 makes of a frame, in bytes
  Compressions, \* lz4Frames of CmdInit: 0, 1
  Sounds,       \* soundSize of CmdAudio
  MaxFrame,     \* bound: the client blits frames 1 .. MaxFrame
  MaxLosses     \* bound: datagrams the network loses

ASSUME StreamAssumption ==
  /\ Modes \subseteq Nat \ {0} /\ Sizes \subseteq Nat \ {0} /\ Sounds \subseteq Nat \ {0}
  /\ Compressions \subseteq {0, 1} /\ MaxFrame \in Nat /\ MaxLosses \in Nat

VARIABLES
  net,      \* datagrams of the client's last call still on their way
  frame,    \* m_frame
  mode,     \* m_RGBSize, in pixels
  losses,   \* datagrams lost so far
  clean,    \* no datagram of the last call was lost
  placed    \* the frame region since the last BLIT: the datagrams copied to it

client   == <<net, frame, mode, losses, clean>>
streamVars == <<vars, client, placed>>

-----------------------------------------------------------------------------
(* The client *)

Blank == [cmd |-> "unknown", len |-> 1, frame |-> 0, field |-> 0, size |-> 0,
          delta |-> 0, compression |-> 0, channels |-> 0, rgb |-> 0, px |-> 0,
          timing |-> TRUE, interlace |-> 0]

Message(kind, n, index, p) == [kind |-> kind, of |-> n, index |-> index, p |-> p]

(* SendStream: chunks of m_mtu bytes and a rest.  Their first byte is pixels  *)
(* or samples, taken not to look like a command of the same length.           *)
Chunks(total) == (total + ChunkLen - 1) \div ChunkLen

SendStream(kind, n, total) ==
  [i \in 1 .. Chunks(total) |->
     Message(kind, n, i, [Blank EXCEPT
       !.len = IF i * ChunkLen <= total THEN ChunkLen ELSE total % ChunkLen])]

(* CmdSwitchres(px) *)
CallSwitchres(px) ==
  <<Message("mode", 0, 0, [Blank EXCEPT !.cmd = "SWITCHRES", !.len = 26, !.px = px])>>

(* CmdBlit(n, ...) of a frame of total bytes, lz4 or not *)
CallBlit(n, total, lz4Frames) ==
  <<Message("frame", n, 0, [Blank EXCEPT !.cmd = "BLIT_FIELD_VSYNC", !.frame = n,
                     !.len  = IF lz4Frames = 0 THEN 8 ELSE 12,
                     !.size = IF lz4Frames = 0 THEN 0 ELSE total])>>
    \o SendStream("frame", n, total)

(* CmdBlit of a raw frame equal to the one before: no payload *)
CallRepeat(n) ==
  <<Message("frame", n, 0, [Blank EXCEPT !.cmd = "BLIT_FIELD_VSYNC", !.frame = n,
                     !.len = 9, !.delta = 1])>>

(* CmdAudio(size) *)
CallAudio(size) ==
  <<Message("sound", 0, 0, [Blank EXCEPT !.cmd = "AUDIO", !.len = 3, !.size = size])>>
    \o SendStream("sound", 0, size)

Call(messages) ==
  /\ net = <<>> /\ pc = "poll"
  /\ net' = messages
  /\ clean' = TRUE
  /\ UNCHANGED <<vars, losses, placed>>

Switch ==
  \E px \in Modes \ {mode} :
    Call(CallSwitchres(px)) /\ mode' = px /\ UNCHANGED frame

FrameBytes == IF blitCompression = 0 THEN {mode * Bpp(rgbMode)} ELSE Sizes

Frame ==
  /\ frame < MaxFrame
  /\ \/ \E total \in FrameBytes : Call(CallBlit(frame + 1, total, blitCompression))
     \/ blitCompression = 0 /\ frame > 0 /\ Call(CallRepeat(frame + 1))
  /\ frame' = frame + 1 /\ UNCHANGED mode

Sound ==
  /\ frame \in 1 .. MaxFrame - 1
  /\ \E size \in Sounds : Call(CallAudio(size))
  /\ UNCHANGED <<frame, mode>>

(* The network drops the next datagram. *)
Lose ==
  /\ net # <<>> /\ pc = "poll" /\ losses < MaxLosses
  /\ net' = Tail(net) /\ losses' = losses + 1 /\ clean' = FALSE
  /\ UNCHANGED <<vars, frame, mode, placed>>

-----------------------------------------------------------------------------
(* The server *)

(* groovy_copy_payload writes at bytes_recv, from the start of the region. *)
Place(m) ==
  placed' = CASE isBlitting = 1 /\ PayloadBoundsValid(m.p.len)
                   -> Append(placed, <<m.kind, m.of, m.index>>)
              [] isBlitting = 0 /\ isBlitting' = 1 -> <<>>
              [] OTHER                             -> placed

(* The poll loop receives the next datagram. *)
Deliver ==
  /\ net # <<>> /\ pc = "poll"
  /\ HandleCommand(Head(net).p) \/ HandlePayload(Head(net).p)
  /\ Place(Head(net))
  /\ net' = Tail(net)
  /\ UNCHANGED <<frame, mode, losses, clean>>

(* ... and goes on with the one the loss detection turned into a command. *)
Redispatch ==
  /\ pc = "reconfig"
  /\ HandleCommand(recvbuf)
  /\ placed' = IF isBlitting' = 1 THEN <<>> ELSE placed
  /\ UNCHANGED client

StreamInit ==
  /\ groovyServer = 2 /\ hpsBlit \in BlitSettings /\ doScreensaver = 0
  /\ groovyLogo = 0 /\ isConnected = 1
  /\ blitCompression \in Compressions /\ audioChannels = 2 /\ rgbMode = 0
  /\ mode \in Modes
  /\ poc = [ZeroPoc EXCEPT !.FB_progressive = 1, !.field_frame = 1 % FrameMod,
                           !.pixels_len = mode, !.bytes_len = mode * Bpp(rgbMode)]
  /\ isBlitting = 0 /\ isCorePriority = 0 /\ usingOldBlit = 0 /\ numBlit = 0
  /\ pc = "poll" /\ recvbuf = NoPacket
  /\ raw = ZeroRaw /\ lz4 = ZeroLz4
  /\ spi = <<[op |-> "SWITCHRES", frame |-> 0]>> /\ reply = NoReply
  /\ cmd_init = 1 /\ fpga_init = 1
  /\ net = <<>> /\ frame = 0 /\ losses = 0 /\ clean = TRUE /\ placed = <<>>

StreamNext == Switch \/ Frame \/ Sound \/ Lose \/ Deliver \/ Redispatch

StreamSpec == StreamInit /\ [][StreamNext]_streamVars
-----------------------------------------------------------------------------
(* What the theorems ask of the sizes: every payload fits its region; no last  *)
(* datagram is as short as a command; a frame takes two datagrams at least,   *)
(* the last not full, modelines differ in its length, and no sound that is    *)
(* one datagram has the length of a frame's last.                             *)
FrameSizes == { px * Bpp(0) : px \in Modes } \union Sizes
Payloads   == FrameSizes \union Sounds

SizesFit ==
  /\ { px * Bpp(0) : px \in Modes } \subseteq 1 .. FrameRegionSize
  /\ Sizes \subseteq 1 .. LZ4Size /\ Sounds \subseteq 1 .. AudioSize

LongRests ==
  \A total \in Payloads : total % ChunkLen = 0 \/ total % ChunkLen > MaxCommandLen

RestsDiffer ==
  /\ \A total \in FrameSizes : total > ChunkLen /\ total % ChunkLen # 0
  /\ \A px1, px2 \in Modes :
       (px1 * Bpp(0)) % ChunkLen = (px2 * Bpp(0)) % ChunkLen => px1 = px2
  /\ \A total \in FrameSizes, size \in Sounds :
       size <= ChunkLen => size # total % ChunkLen

-----------------------------------------------------------------------------
(* Properties *)

Told    == IF blitCompression = 0 THEN raw.numBlit ELSE lz4.numBlit
Claimed == IF blitCompression = 0 THEN raw.pixels = poc.pixels_len
                              ELSE lz4.bytes = poc.bytes_lz4_len

(* The blit header the FPGA polls says that the frame announced is all there. *)
HeaderComplete ==
  /\ isBlitting # 1 /\ poc.frame_ddr = poc.frame_recv
  /\ Claimed /\ Told \notin {0, AbortBlit}

(* What lies in the frame region is the first datagrams of one frame, in      *)
(* their order: nothing missing, nothing of another frame, no command.        *)
PlacedIsFrame(n) ==
  \A i \in DOMAIN placed : placed[i] = <<"frame", n, i>>

(* When the header says a frame is complete, its pixels are the pixels the     *)
(* client sent for that frame.  The stream has no sequence numbers: it rests   *)
(* on the lengths, and on fewer losses than a frame has datagrams.             *)
FrameIntegrity ==
  [][isBlitting = 1 /\ HeaderComplete' => PlacedIsFrame(poc.frame_recv)']_streamVars

(* Whatever was lost before, a frame none of whose datagrams is lost is        *)
(* received whole (as long as client and server agree on the modeline): a loss *)
(* never costs a frame of its own to the frames after it.                      *)
CleanFrameCompletes ==
  [][/\ net # <<>> /\ net' = <<>> /\ clean'
     /\ Head(net).kind = "frame" /\ Head(net).index > 0
     /\ blitCompression = 0 => poc.pixels_len = mode
     => /\ HeaderComplete' /\ PlacedIsFrame(frame)'
        /\ poc'.frame_ddr = frame]_streamVars

(* The same of sound: received whole, it is played.                            *)
CleanSoundPlays ==
  [][/\ net # <<>> /\ net' = <<>> /\ clean'
     /\ Head(net).kind = "sound" /\ Head(net).index > 0
     => \E i \in DOMAIN spi' : spi'[i].op = "AUDIO"]_streamVars

(* Stated by the code, and not so. *)

(* process_packet's "udp error lost detection": when the reception of a frame  *)
(* the FPGA polls for ends, the header is complete or says it is given up.     *)
LossIsTold ==
  [][isBlitting = 1 /\ isBlitting' = 0 /\ hpsBlit = 0 =>
       HeaderComplete' \/ Told' = AbortBlit]_streamVars
=============================================================================
