-------------------------- MODULE BlitStream_proofs ---------------------------
(***************************************************************************)
(* Theorems about BlitStream, for any modelines, sizes of frames and sound *)
(* that keep the hypotheses named, any number of frames and calls, and     *)
(* both settings of the server.                                            *)
(*                                                                         *)
(* CleanInv says of a call none of whose datagrams was lost that what is   *)
(* still on the network is the rest of the payload being received.  It     *)
(* holds after any number of losses.  IntegrityInv counts the losses: what *)
(* is missing in the frame region was lost, and so was whatever keeps a    *)
(* reception open beyond its own call.                                     *)
(***************************************************************************)
EXTENDS BlitStream, GroovyReception_proofs, SequenceTheorems

-----------------------------------------------------------------------------
(* The inductive invariant *)

Kinds       == {"mode", "frame", "sound"}
MessageType == [kind : Kinds, of : Nat, index : Nat, p : PacketType]

ChunkOf(kind, n, total, j) ==
  Message(kind, n, j, [Blank EXCEPT
    !.len = IF j * ChunkLen <= total THEN ChunkLen ELSE total % ChunkLen])

(* s is what SendStream sent, from datagram j + 1 on. *)
Streaming(s, kind, n, total, j) ==
  /\ Len(s) = Chunks(total) - j
  /\ \A i \in 1 .. Len(s) : s[i] = ChunkOf(kind, n, total, j + i)

(* The commands of a call. *)
IsMode(p) ==
  /\ p.cmd = "SWITCHRES" /\ p.len = 26 /\ p.px = mode /\ p.timing /\ p.interlace = 0

IsRepeat(p) ==
  /\ p.cmd = "BLIT_FIELD_VSYNC" /\ p.len = 9 /\ p.frame = frame /\ p.delta = 1
  /\ blitCompression = 0

IsFrame(p, total) ==
  /\ p.cmd = "BLIT_FIELD_VSYNC" /\ p.frame = frame /\ total \in FrameBytes
  /\ IF blitCompression = 0 THEN p.len = 8 ELSE p.len = 12 /\ p.size = total

IsSound(p, size) == p.cmd = "AUDIO" /\ p.len = 3 /\ p.size = size /\ size \in Sounds

(* s is what follows the command p. *)
Announces(p, s) ==
  \/ (IsMode(p) \/ IsRepeat(p)) /\ s = <<>>
  \/ \E total \in FrameSizes : IsFrame(p, total) /\ Streaming(s, "frame", frame, total, 0)
  \/ \E total \in Sounds : IsSound(p, total) /\ Streaming(s, "sound", 0, total, 0)

(* The command of the last call is on its way, or waits in recvbuf. *)
AtHead(p) == pc = "poll" /\ net # <<>> /\ Head(net).index = 0 /\ p = Head(net).p
InBuf(p)  == pc = "reconfig" /\ p = recvbuf
ToCome(p) == AtHead(p) \/ InBuf(p)
After     == IF pc = "reconfig" THEN net ELSE Tail(net)

StreamTypeOK ==
  /\ groovyServer = 2 /\ poc \in PocType /\ rgbMode = 0 /\ audioChannels = 2
  /\ pc \in {"poll", "reconfig"}
  /\ net \in Seq(MessageType) /\ frame \in Nat /\ mode \in Modes
  /\ losses \in Nat /\ losses <= MaxLosses /\ clean \in BOOLEAN
  /\ placed \in Seq(Kinds \X Nat \X Nat)

SessionOK ==
  /\ poc.pixels_len \in Modes /\ poc.FB_progressive = 1
  /\ isBlitting = 1 /\ blitCompression # 0 => poc.bytes_lz4_len \in Sizes
  /\ isBlitting = 2 => poc.bytes_audio_len \in Sounds
  /\ isBlitting # 0 => \E m \in Nat : poc.bytes_recv = m * ChunkLen

NumbersOK ==
  /\ poc.frame_ddr <= poc.frame_recv /\ poc.frame_recv <= frame
  /\ isBlitting = 1 /\ hpsBlit # 0 => poc.frame_ddr < poc.frame_recv
  /\ \A p : ToCome(p) /\ p.cmd = "BLIT_FIELD_VSYNC" => poc.frame_recv < frame

CallOK == \A p : ToCome(p) => Announces(p, After)

Agreed == blitCompression = 0 => poc.pixels_len = mode

(* The reception is open for what is on its way, and has what came before. *)
FrameProgress(total, j) ==
  /\ isBlitting = 1 /\ PayloadLength = total /\ poc.frame_recv = frame
  /\ poc.bytes_recv = j * ChunkLen /\ Len(placed) = j /\ PlacedIsFrame(frame)

SoundProgress(total, j) ==
  /\ isBlitting = 2 /\ poc.bytes_audio_len = total /\ poc.bytes_recv = j * ChunkLen

FrameOnItsWay ==
  \E total \in FrameSizes, j \in Nat :
    /\ Streaming(net, "frame", frame, total, j) /\ total \in FrameBytes
    /\ clean /\ Agreed => FrameProgress(total, j)

SoundOnItsWay ==
  \E total \in Sounds, j \in Nat :
    /\ Streaming(net, "sound", 0, total, j)
    /\ clean => SoundProgress(total, j)

PayloadOK ==
  pc = "poll" /\ net # <<>> /\ Head(net).index # 0 => FrameOnItsWay \/ SoundOnItsWay

CleanInv == RInv /\ StreamTypeOK /\ SessionOK /\ NumbersOK /\ CallOK /\ PayloadOK

(* Client and server disagree on the modeline only after a loss. *)
DisagreeOK ==
  blitCompression = 0 /\ poc.pixels_len # mode =>
    losses >= 1 \/ \E p : ToCome(p) /\ IsMode(p)

(* The reception is of the frame on its way: what is not placed was lost, and *)
(* so was one more datagram if something else is in its place.                *)
Own ==
  \E total \in FrameSizes, j \in Nat :
    /\ Streaming(net, "frame", frame, total, j) /\ total \in FrameBytes
    /\ poc.frame_recv = frame
    /\ Len(placed) <= j /\ losses >= j - Len(placed)
    /\ ~PlacedIsFrame(frame) => Len(placed) < j
    /\ total # PayloadLength => losses >= 1 /\ blitCompression = 0
    /\ j = Chunks(total) /\ (~PlacedIsFrame(frame) \/ total # PayloadLength) => losses >= 2

NearEnd == PayloadLength - poc.bytes_recv < ChunkLen

(* The command of the next call comes while the reception is still open. *)
Behind ==
  /\ net # <<>> /\ Head(net).index = 0
  /\ losses >= 2 \/ (losses >= 1 /\ NearEnd)

(* ... and was lost, so that its payload comes to this reception. *)
Overrun ==
  /\ losses >= 2
  /\ \/ net = <<>>
     \/ NearEnd /\ \E kind \in Kinds, n \in Nat, total \in Payloads :
                      Streaming(net, kind, n, total, 0)

OpenOK ==
  isBlitting = 1 => /\ poc.bytes_recv = Len(placed) * ChunkLen
                    /\ Own \/ Behind \/ Overrun

IntegrityInv == CleanInv /\ DisagreeOK /\ OpenOK

-----------------------------------------------------------------------------
(* Sizes, chunks and streams *)

LEMMA StreamConstants ==
  /\ Modes \subseteq Nat \ {0} /\ Sizes \subseteq Nat \ {0} /\ Sounds \subseteq Nat \ {0}
  /\ Compressions \subseteq {0, 1} /\ MaxFrame \in Nat /\ MaxLosses \in Nat
  BY StreamAssumption DEF StreamAssumption

LEMMA PayloadSizes ==
  /\ \A px \in Modes : px * 3 \in FrameSizes /\ Bpp(0) = 3
  /\ FrameSizes \subseteq Nat \ {0} /\ Payloads \subseteq Nat \ {0}
  /\ Sizes \subseteq FrameSizes /\ FrameSizes \subseteq Payloads /\ Sounds \subseteq Payloads
<1>1. Bpp(0) = 3
  BY DEF Bpp
<1>2. \A px \in Modes : px * 3 \in Nat \ {0}
  BY StreamConstants
<1> QED BY <1>1, <1>2, StreamConstants DEF FrameSizes, Payloads

(* The rounding of SendStream: full datagrams and a rest. *)
LEMMA ChunkCount ==
  ASSUME NEW total \in Nat \ {0}
  PROVE  /\ Chunks(total) \in Nat \ {0}
         /\ (Chunks(total) - 1) * ChunkLen < total
         /\ total <= Chunks(total) * ChunkLen
         /\ total % ChunkLen # 0 => /\ total % ChunkLen = total - (Chunks(total) - 1) * ChunkLen
                                    /\ total < Chunks(total) * ChunkLen
         /\ total % ChunkLen = 0 => total = Chunks(total) * ChunkLen
  BY DEF Chunks, ChunkLen

LengthOf(total, j) == IF j * ChunkLen <= total THEN ChunkLen ELSE total % ChunkLen

LEMMA ChunkLength ==
  ASSUME NEW total \in Nat \ {0}, NEW j \in Nat, j < Chunks(total)
  PROVE  /\ LengthOf(total, j + 1) \in 1 .. ChunkLen
         /\ j + 1 < Chunks(total) => LengthOf(total, j + 1) = ChunkLen
         /\ j + 1 = Chunks(total) => j * ChunkLen + LengthOf(total, j + 1) = total
         /\ total % ChunkLen # 0 =>
              (j + 1 = Chunks(total) <=> LengthOf(total, j + 1) # ChunkLen)
         /\ total % ChunkLen # 0 /\ j + 1 = Chunks(total)
              => LengthOf(total, j + 1) = total % ChunkLen
<1> DEFINE c == Chunks(total)
<1>1. /\ c \in Nat \ {0} /\ (c - 1) * 1472 < total /\ total <= c * 1472
      /\ total % 1472 # 0 => total % 1472 = total - (c - 1) * 1472 /\ total < c * 1472
      /\ total % 1472 = 0 => total = c * 1472
      /\ total % 1472 \in 0 .. 1471
  BY ChunkCount DEF ChunkLen
<1> HIDE DEF c
<1>2. (j + 1) * 1472 = j * 1472 + 1472
  OBVIOUS
<1>3. j < c
  BY DEF c
<1>4. CASE j + 1 < c
  <2>1. (j + 1) * 1472 <= (c - 1) * 1472
    BY <1>1, <1>4
  <2>2. LengthOf(total, j + 1) = 1472
    BY <1>1, <2>1 DEF LengthOf, ChunkLen
  <2> QED BY <1>4, <2>2 DEF ChunkLen, c
<1>5. CASE j + 1 = c
  <2>1. CASE total % 1472 = 0
    BY <1>1, <1>5, <2>1 DEF LengthOf, ChunkLen, c
  <2>2. CASE total % 1472 # 0
    <3>1. LengthOf(total, j + 1) = total % 1472
      BY <1>1, <1>5, <2>2 DEF LengthOf, ChunkLen
    <3>2. j * 1472 + (total % 1472) = total
      BY <1>1, <1>2, <1>5, <2>2
    <3> QED BY <1>1, <1>5, <2>2, <3>1, <3>2, SMTT(60) DEF ChunkLen, c
  <2> QED BY <2>1, <2>2
<1> QED BY <1>1, <1>3, <1>4, <1>5

LEMMA BlankType ==
  ASSUME NEW len \in Nat \ {0}
  PROVE  /\ [Blank EXCEPT !.len = len] \in PacketType
         /\ [Blank EXCEPT !.len = len].len = len
         /\ [Blank EXCEPT !.len = len].cmd = "unknown"
<1>1. Blank \in PacketType /\ Blank.cmd = "unknown"
  BY DEF Blank, PacketType, Uint8
<1>2. [Blank EXCEPT !.len = len] \in PacketType /\ [Blank EXCEPT !.len = len].len = len
  BY <1>1, Zenon DEF PacketType
<1>3. [Blank EXCEPT !.len = len].cmd = Blank.cmd
  BY <1>1, Zenon DEF PacketType
<1> QED BY <1>1, <1>2, <1>3

(* A datagram of a stream. *)
LEMMA ChunkMessage ==
  ASSUME NEW kind \in Kinds, NEW n \in Nat, NEW total \in Nat \ {0},
         NEW j \in Nat, j < Chunks(total)
  PROVE  LET m == ChunkOf(kind, n, total, j + 1)
         IN  /\ m \in MessageType /\ m.kind = kind /\ m.of = n /\ m.index = j + 1
             /\ m.p.cmd = "unknown" /\ m.p.len = LengthOf(total, j + 1)
<1> DEFINE len == LengthOf(total, j + 1)
<1>1. len \in Nat \ {0}
  <2>1. LengthOf(total, j + 1) \in 1 .. ChunkLen
    BY ChunkLength
  <2> QED BY <2>1, SMTT(60) DEF ChunkLen
<1>2. ChunkOf(kind, n, total, j + 1)
        = [kind |-> kind, of |-> n, index |-> j + 1, p |-> [Blank EXCEPT !.len = len]]
  BY DEF ChunkOf, Message, LengthOf
<1> HIDE DEF len
<1> DEFINE q == [Blank EXCEPT !.len = len]
<1>3. q \in PacketType /\ q.len = len /\ q.cmd = "unknown"
  BY <1>1, BlankType
<1> HIDE DEF q
<1>4. ChunkOf(kind, n, total, j + 1) = [kind |-> kind, of |-> n, index |-> j + 1, p |-> q]
  BY <1>2 DEF q
<1>5. j + 1 \in Nat
  OBVIOUS
<1> QED BY <1>3, <1>4, <1>5 DEF MessageType, len

(* The next datagram of a stream, and the stream after it. *)
LEMMA StreamHead ==
  ASSUME NEW s \in Seq(MessageType), s # <<>>, NEW kind, NEW n,
         NEW total \in Nat \ {0}, NEW j \in Nat, Streaming(s, kind, n, total, j)
  PROVE  /\ j < Chunks(total) /\ Head(s) = ChunkOf(kind, n, total, j + 1)
         /\ Streaming(Tail(s), kind, n, total, j + 1)
<1>1. Len(s) \in Nat \ {0} /\ Head(s) = s[1]
  BY EmptySeq
<1>2. /\ Tail(s) \in Seq(MessageType) /\ Len(Tail(s)) = Len(s) - 1
      /\ \A i \in 1 .. Len(Tail(s)) : Tail(s)[i] = s[i + 1]
  BY HeadTailProperties
<1>3. Chunks(total) \in Nat
  BY ChunkCount
<1>4. Len(s) = Chunks(total) - j /\ \A i \in 1 .. Len(s) : s[i] = ChunkOf(kind, n, total, j + i)
  BY DEF Streaming
<1>5. ASSUME NEW i \in 1 .. Len(Tail(s))
      PROVE  Tail(s)[i] = ChunkOf(kind, n, total, (j + 1) + i)
  <2>1. i + 1 \in 1 .. Len(s) /\ j + (i + 1) = (j + 1) + i
    BY <1>1, <1>2, <1>5
  <2> QED BY <1>2, <1>4, <1>5, <2>1
<1> QED BY <1>1, <1>2, <1>3, <1>4, <1>5 DEF Streaming

(* A stream of which nothing is left. *)
LEMMA StreamEnd ==
  ASSUME NEW s \in Seq(MessageType), NEW kind, NEW n, NEW total \in Nat \ {0}, NEW j \in Nat,
         Streaming(s, kind, n, total, j)
  PROVE  s = <<>> <=> j = Chunks(total)
<1>1. Len(s) = Chunks(total) - j /\ Chunks(total) \in Nat
  BY ChunkCount DEF Streaming
<1> QED BY <1>1, EmptySeq

(* A call with payload: its command and a whole stream. *)
LEMMA CallStream ==
  ASSUME NEW kind \in Kinds, NEW n \in Nat, NEW total \in Nat \ {0}, NEW m \in MessageType
  PROVE  LET s == <<m>> \o SendStream(kind, n, total)
         IN  /\ s \in Seq(MessageType) /\ s # <<>> /\ Head(s) = m
             /\ Streaming(Tail(s), kind, n, total, 0)
<1> DEFINE f == SendStream(kind, n, total)
           s == <<m>> \o f
<1>1. Chunks(total) \in Nat
  BY ChunkCount
<1>2. \A i \in 1 .. Chunks(total) : f[i] = ChunkOf(kind, n, total, i)
  BY DEF SendStream, ChunkOf
<1>3. \A i \in 1 .. Chunks(total) : f[i] \in MessageType
  <2> TAKE i \in 1 .. Chunks(total)
  <2>1. i - 1 \in Nat /\ i - 1 < Chunks(total) /\ (i - 1) + 1 = i
    BY <1>1
  <2>2. ChunkOf(kind, n, total, (i - 1) + 1) \in MessageType
    BY <2>1, ChunkMessage
  <2> QED BY <1>2, <2>1, <2>2
<1>4. f \in [1 .. Chunks(total) -> MessageType]
  BY <1>3 DEF SendStream
<1> HIDE DEF f
<1>5. f \in Seq(MessageType) /\ Len(f) = Chunks(total)
  BY <1>1, <1>4
<1>6. <<m>> \in Seq(MessageType) /\ Len(<<m>>) = 1 /\ <<m>>[1] = m
  OBVIOUS
<1>7. /\ s \in Seq(MessageType) /\ Len(s) = 1 + Chunks(total)
      /\ \A i \in 1 .. 1 + Chunks(total) : s[i] = IF i <= 1 THEN <<m>>[i] ELSE f[i - 1]
  BY <1>5, <1>6, ConcatProperties
<1> HIDE DEF s
<1>8. s # <<>>
  BY <1>1, <1>7, EmptySeq
<1>9. Head(s) = m
  BY <1>1, <1>6, <1>7
<1>10. /\ Len(Tail(s)) = Chunks(total)
       /\ \A i \in 1 .. Len(Tail(s)) : Tail(s)[i] = s[i + 1]
  BY <1>1, <1>7, <1>8, HeadTailProperties
<1>11. \A i \in 1 .. Len(Tail(s)) : Tail(s)[i] = ChunkOf(kind, n, total, 0 + i)
  <2> TAKE i \in 1 .. Len(Tail(s))
  <2>1. i + 1 \in 1 .. 1 + Chunks(total) /\ ~(i + 1 <= 1) /\ (i + 1) - 1 = i /\ 0 + i = i
        /\ i \in 1 .. Chunks(total)
    BY <1>1, <1>10
  <2> QED BY <1>2, <1>7, <1>10, <2>1
<1>12. Streaming(Tail(s), kind, n, total, 0)
  BY <1>1, <1>10, <1>11 DEF Streaming
<1> QED BY <1>7, <1>8, <1>9, <1>12 DEF s, f

-----------------------------------------------------------------------------
(* The stream is a behaviour of the server *)

LEMMA HandledIsDispatched ==
  ASSUME NEW p, HandleCommand(p)
  PROVE  Dispatched(p)
  BY Zenon DEF HandleCommand, Close, Init_, InitFails, GetVersion, GetStatus, Switchres,
               Audio, Blit, Ignore, Command

LEMMA HandledIsPayload ==
  ASSUME NEW p, HandlePayload(p)
  PROVE  Payload(p)
  BY Zenon DEF HandlePayload, RejectPayload, LosePayload, LossDetected, RawChunk, Lz4Chunk,
               AudioChunk, SkipNoModeline, Accepted

LEMMA StreamIsServer == ASSUME StreamNext PROVE [Next]_vars
<1>1. CASE Switch \/ Frame \/ Sound \/ Lose
  BY <1>1, Zenon DEF Switch, Frame, Sound, Lose, Call
<1>2. CASE Deliver
  <2> DEFINE p == Head(net).p
  <2>1. pc = "poll" /\ (HandleCommand(p) \/ HandlePayload(p))
    BY <1>2, Zenon DEF Deliver
  <2>2. p \in Packets
    <3>1. CASE HandleCommand(p)
      <4>1. Dispatched(p)
        BY <3>1, HandledIsDispatched
      <4> QED BY <2>1, <4>1 DEF Dispatched
    <3>2. CASE HandlePayload(p)
      <4>1. Payload(p)
        BY <3>2, HandledIsPayload
      <4> QED BY <4>1, Zenon DEF Payload
    <3> QED BY <2>1, <3>1, <3>2
  <2> HIDE DEF p
  <2> QED BY <2>1, <2>2, Zenon DEF Next
<1>3. CASE Redispatch
  BY <1>3, Zenon DEF Redispatch, Next, Resume
<1> QED BY <1>1, <1>2, <1>3 DEF StreamNext

LEMMA StreamStart ==
  ASSUME StreamInit
  PROVE  /\ RInv /\ poc \in PocType /\ rgbMode = 0 /\ mode \in Modes
         /\ poc.pixels_len = mode /\ poc.FB_progressive = 1
         /\ poc.frame_ddr = 0 /\ poc.frame_recv = 0
<1>1. /\ mode \in Nat \ {0} /\ mode * Bpp(rgbMode) \in Nat /\ 1 % FrameMod \in Nat
      /\ rgbMode = 0 /\ mode \in Modes
  BY StreamConstants, PayloadSizes, FramesAssumption, ModType DEF StreamInit
<1>2. poc = [ZeroPoc EXCEPT !.FB_progressive = 1, !.field_frame = 1 % FrameMod,
                            !.pixels_len = mode, !.bytes_len = mode * Bpp(rgbMode)]
  BY DEF StreamInit
<1>3. 1 \in {0, 1} /\ ZeroPoc \in PocType
  BY ZeroPocType
<1>4. poc \in PocType
  BY <1>1, <1>2, <1>3, Zenon DEF PocType
<1>5. /\ poc.pixels_len = mode /\ poc.FB_progressive = 1
      /\ poc.bytes_len = mode * Bpp(rgbMode)
      /\ poc.frame_ddr = ZeroPoc.frame_ddr /\ poc.frame_recv = ZeroPoc.frame_recv
  BY <1>2, <1>3, Zenon DEF PocType
<1>6. poc.frame_ddr = 0 /\ poc.frame_recv = 0
  BY <1>5 DEF ZeroPoc
<1>7. isBlitting = 0 /\ isCorePriority = 0 /\ pc = "poll"
  BY DEF StreamInit
<1>8. TypeOK
  BY <1>4, ZeroPocType, SettingsAssumption, StreamConstants
     DEF StreamInit, TypeOK, NoReply, Uint16
<1> QED
  BY <1>1, <1>4, <1>5, <1>6, <1>7, <1>8
     DEF RInv, HInv, IInv, RedispatchSound, PriorityWhileReceiving, ReceptionSound,
         HeaderHonest, ChunkCountBounded, WholePixels, Untold, Silent

-----------------------------------------------------------------------------
(* What the server's steps leave of what the stream depends on *)

(* The session goes on as it was, whatever q it was told of. *)
SameFrame(q) ==
  /\ poc'.pixels_len = q.pixels_len /\ poc'.FB_progressive = q.FB_progressive
  /\ poc'.bytes_lz4_len = q.bytes_lz4_len /\ poc'.bytes_audio_len = q.bytes_audio_len
  /\ poc'.frame_recv = q.frame_recv

SameServer ==
  UNCHANGED <<groovyServer, hpsBlit, blitCompression, audioChannels, rgbMode>>

LEMMA FPGA_blitFields ==
  ASSUME NEW q \in PocType, NEW bytes, NEW nb, FPGA_blit(q, bytes, nb)
  PROVE  /\ SameFrame(q) /\ poc'.frame_ddr = q.frame_recv /\ raw'.numBlit = nb
         /\ poc'.bytes_recv = q.bytes_recv
<1>1. poc' = [q EXCEPT !.pixels_ddr = bytes \div Bpp(rgbMode), !.frame_ddr = q.frame_recv]
  BY DEF FPGA_blit
<1>2. SameFrame(q) /\ poc'.frame_ddr = q.frame_recv /\ poc'.bytes_recv = q.bytes_recv
  BY <1>1, Zenon DEF PocType, SameFrame
<1>3. raw'.numBlit = nb
  BY DEF FPGA_blit
<1> QED BY <1>2, <1>3

LEMMA FPGA_blit_lz4Fields ==
  ASSUME NEW q \in PocType, NEW bytes, NEW nb, FPGA_blit_lz4(q, bytes, nb)
  PROVE  /\ SameFrame(q) /\ poc'.frame_ddr = q.frame_recv
         /\ lz4'.numBlit = nb /\ lz4'.bytes = bytes
         /\ poc'.bytes_recv = q.bytes_recv
<1>1. poc' = [q EXCEPT !.bytes_lz4_ddr = bytes, !.frame_ddr = q.frame_recv]
  BY DEF FPGA_blit_lz4
<1>2. SameFrame(q) /\ poc'.frame_ddr = q.frame_recv /\ poc'.bytes_recv = q.bytes_recv
  BY <1>1, Zenon DEF PocType, SameFrame
<1>3. lz4'.numBlit = nb /\ lz4'.bytes = bytes
  BY DEF FPGA_blit_lz4
<1> QED BY <1>2, <1>3

(* setBlit. *)
LEMMA BlitPocFields ==
  ASSUME NEW p, poc \in PocType, BlitPoc(p) \in PocType
  PROVE  /\ BlitPoc(p).pixels_len = poc.pixels_len
         /\ BlitPoc(p).FB_progressive = poc.FB_progressive
         /\ BlitPoc(p).bytes_lz4_len = BlitSize(p)
         /\ BlitPoc(p).frame_recv = p.frame
         /\ BlitPoc(p).frame_ddr = poc.frame_ddr
  BY Zenon DEF BlitPoc, PocType

LEMMA BlitFields ==
  ASSUME RInv, NEW p, Blit(p)
  PROVE  /\ poc' \in PocType /\ SameServer /\ pc' = "poll" /\ isBlitting = 0
         /\ poc'.pixels_len = poc.pixels_len /\ poc'.FB_progressive = poc.FB_progressive
         /\ poc'.bytes_lz4_len = BlitSize(p) /\ poc'.frame_recv = p.frame
         /\ poc'.frame_ddr = IF hpsBlit = 0 \/ Duplicate(p) THEN p.frame ELSE poc.frame_ddr
         /\ poc'.bytes_recv = IF Duplicate(p) THEN poc.bytes_len ELSE 0
         /\ isBlitting' = IF Duplicate(p) THEN 0 ELSE 1
<1>1. /\ poc \in PocType /\ poc' \in PocType /\ p \in PacketType /\ BlitValid(p) /\ TypeOK
      /\ poc'.bytes_recv = BlitPoc(p).bytes_recv /\ pc' = "poll" /\ isBlitting = 0
      /\ isBlitting' = IF Duplicate(p) THEN 0 ELSE 1
      /\ SameServer
  BY BlitEffect DEF RInv, HInv, SameServer, setup
<1>2. BlitPoc(p) \in PocType /\ BlitPoc(p).bytes_recv = IF Duplicate(p) THEN poc.bytes_len ELSE 0
  BY <1>1, BlitPocType
<1>3. /\ BlitPoc(p).pixels_len = poc.pixels_len
      /\ BlitPoc(p).FB_progressive = poc.FB_progressive
      /\ BlitPoc(p).bytes_lz4_len = BlitSize(p)
      /\ BlitPoc(p).frame_recv = p.frame
      /\ BlitPoc(p).frame_ddr = poc.frame_ddr
  BY <1>1, <1>2, BlitPocFields
<1> DEFINE Q == BlitPoc(p)
<1>4. Q \in PocType
  BY <1>2
<1>5. CASE (hpsBlit = 0 \/ Duplicate(p)) /\ blitCompression # 0
  <2>1. FPGA_blit_lz4(Q, 0, 0)
    BY <1>5, Zenon DEF Blit
  <2>2. SameFrame(Q) /\ poc'.frame_ddr = Q.frame_recv
    BY <1>4, <2>1, FPGA_blit_lz4Fields
  <2> QED BY <1>1, <1>2, <1>3, <1>5, <2>2 DEF SameFrame
<1>6. CASE (hpsBlit = 0 \/ Duplicate(p)) /\ blitCompression = 0
  <2>1. FPGA_blit(Q, Q.bytes_recv, numBlit')
    BY <1>6, Zenon DEF Blit
  <2>2. SameFrame(Q) /\ poc'.frame_ddr = Q.frame_recv
    BY <1>4, <2>1, FPGA_blitFields
  <2> QED BY <1>1, <1>2, <1>3, <1>6, <2>2 DEF SameFrame
<1>7. CASE ~ (hpsBlit = 0 \/ Duplicate(p))
  <2>1. poc' = [Q EXCEPT !.pixels_ddr = 0]
    BY <1>7, Zenon DEF Blit
  <2> HIDE DEF Q
  <2>2. SameFrame(Q) /\ poc'.frame_ddr = Q.frame_ddr
    BY <1>4, <2>1, Zenon DEF PocType, SameFrame
  <2> QED BY <1>1, <1>2, <1>3, <1>7, <2>2 DEF SameFrame, Q
<1> QED BY <1>5, <1>6, <1>7

(* setSwitchres of a progressive modeline. *)
LEMMA SwitchresFields ==
  ASSUME RInv, NEW p, Switchres(p), p.interlace = 0
  PROVE  /\ SameServer /\ pc' = "poll" /\ isBlitting = 0 /\ isBlitting' = 0
         /\ poc' \in PocType /\ poc'.pixels_len = p.px /\ poc'.FB_progressive = 1
         /\ poc'.frame_recv = poc.frame_recv /\ poc'.frame_ddr = poc.frame_ddr
<1>1. poc \in PocType /\ isBlitting = 0
  <2>1. Dispatched(p) /\ IInv
    BY Zenon DEF Switchres, Command, RInv, HInv
  <2>2. isBlitting = 0
    BY <2>1, DispatchedSound
  <2> QED BY <2>2 DEF Switchres, ModelineValid, IInv, TypeOK, RInv, HInv
<1> DEFINE field_frame == (poc.frame_ddr + 1) % FrameMod
           half  == [poc EXCEPT !.pixels_ddr = 0, !.FB_progressive = 1,
                                !.field_frame = field_frame, !.field = 0]
           bytes == p.px * Bpp(rgbMode)
<1>2. poc' = [half EXCEPT !.pixels_len = p.px, !.bytes_len = bytes,
                          !.bytes_recv = 0, !.buffer_offset = 0]
  <2>1. PICK vga_frame \in VgaFrames :
          LET last == IF usingOldBlit = 1 /\ 1 = 0 /\ vga_frame > poc.frame_ddr
                      THEN vga_frame ELSE poc.frame_ddr
          IN poc' = [poc EXCEPT !.pixels_ddr = 0, !.FB_progressive = 1,
                           !.field_frame = (last + 1) % FrameMod, !.field = 0,
                           !.pixels_len = p.px, !.bytes_len = p.px * Bpp(rgbMode),
                           !.bytes_recv = 0, !.buffer_offset = 0]
    BY DEF Switchres
  <2>2. poc' = [poc EXCEPT !.pixels_ddr = 0, !.FB_progressive = 1,
                           !.field_frame = field_frame, !.field = 0,
                           !.pixels_len = p.px, !.bytes_len = bytes,
                           !.bytes_recv = 0, !.buffer_offset = 0]
    BY <2>1
  <2> QED BY <2>2, Zenon
<1>6. field_frame \in Nat
  BY <1>1, FramesAssumption, ModType DEF PocType
<1>7. half \in PocType
  <2> HIDE DEF field_frame
  <2>1. 1 \in {0, 1}
    OBVIOUS
  <2> QED BY <1>1, <1>6, <2>1, Zero, ZenonT(60) DEF PocType
<1>8. half.frame_recv = poc.frame_recv /\ half.frame_ddr = poc.frame_ddr /\ half.FB_progressive = 1
  BY <1>1, Zenon DEF PocType
<1> HIDE DEF half
<1>3. /\ poc'.pixels_len = p.px /\ poc'.FB_progressive = 1
      /\ poc'.frame_recv = poc.frame_recv /\ poc'.frame_ddr = poc.frame_ddr
  <2>1. /\ poc'.pixels_len = p.px /\ poc'.FB_progressive = half.FB_progressive
        /\ poc'.frame_recv = half.frame_recv /\ poc'.frame_ddr = half.frame_ddr
    BY <1>2, <1>7, Zenon DEF PocType
  <2> QED BY <1>8, <2>1
<1>4. SameServer /\ pc' = "poll" /\ isBlitting' = isBlitting
  BY DEF Switchres, SameServer, BackToPoll, setup, blit
<1>5. poc' \in PocType
  <2>1. p \in PacketType
    <3>1. Dispatched(p) /\ IInv
      BY Zenon DEF Switchres, Command, RInv, HInv
    <3> QED BY <3>1, DispatchedSound
  <2>2. p.px \in Nat /\ bytes \in Nat
    BY <2>1, BppType DEF PacketType
  <2> HIDE DEF bytes
  <2> QED BY <1>2, <1>7, <2>2, Zero, Zenon DEF PocType
<1> QED BY <1>1, <1>3, <1>4, <1>5

(* setBlitAudio. *)
LEMMA AudioFields ==
  ASSUME RInv, NEW p, Audio(p)
  PROVE  /\ SameServer /\ pc' = "poll" /\ isBlitting = 0 /\ isBlitting' = 2
         /\ poc' \in PocType /\ poc'.pixels_len = poc.pixels_len
         /\ poc'.FB_progressive = poc.FB_progressive
         /\ poc'.frame_recv = poc.frame_recv /\ poc'.frame_ddr = poc.frame_ddr
         /\ poc'.bytes_audio_len = p.size /\ poc'.bytes_recv = 0
<1>1. /\ isBlitting = 0 /\ poc \in PocType /\ IInv /\ p \in PacketType
  <2>1. Dispatched(p) /\ IInv /\ Validated(p) /\ p.cmd = "AUDIO"
    BY Zenon DEF Audio, Command, RInv, HInv
  <2>2. isBlitting = 0 /\ p \in PacketType
    BY <2>1, DispatchedSound
  <2> QED BY <2>1, <2>2 DEF Validated, IInv, TypeOK
<1>2. poc' = [poc EXCEPT !.bytes_audio_len = p.size, !.buffer_offset = AudioOffset,
                         !.bytes_recv = 0]
  BY DEF Audio
<1>3. p.size \in Nat
  BY <1>1 DEF PacketType
<1>4. poc' \in PocType
  BY <1>1, <1>2, <1>3, Zero, SizesType, Zenon DEF PocType
<1>5. /\ poc'.pixels_len = poc.pixels_len
      /\ poc'.FB_progressive = poc.FB_progressive
      /\ poc'.frame_recv = poc.frame_recv /\ poc'.frame_ddr = poc.frame_ddr
      /\ poc'.bytes_audio_len = p.size /\ poc'.bytes_recv = 0
  BY <1>1, <1>2, Zenon DEF PocType
<1> QED BY <1>1, <1>4, <1>5 DEF Audio, SameServer, BackToPoll, setup

-----------------------------------------------------------------------------
(* What a payload datagram leaves of it *)

(* A frame the core is not told of until it is whole is not told of yet. *)
Deferred == isBlitting = 1 /\ hpsBlit # 0 => poc.frame_ddr < poc.frame_recv

(* As long as a frame is being received its header is not complete. *)
LEMMA NotComplete ==
  ASSUME RInv, Deferred, isBlitting = 1
  PROVE  Claimed => poc.frame_ddr # poc.frame_recv
<1>1. /\ TypeOK /\ poc \in PocType /\ poc # NoPoc /\ poc.bytes_recv < PayloadLength
      /\ HeaderHonest /\ WholePixels
  BY DEF RInv, HInv, IInv, ReceptionSound, TypeOK
<1>2. /\ poc.bytes_recv \in Nat /\ poc.bytes_len \in Nat /\ poc.bytes_lz4_len \in Nat
      /\ poc.pixels_len \in Nat /\ poc.frame_ddr \in Nat /\ poc.frame_recv \in Nat
  BY <1>1 DEF PocType
<1>3. CASE hpsBlit # 0
  BY <1>2, <1>3 DEF Deferred
<1>4. CASE hpsBlit = 0 /\ blitCompression = 0
  <2>1. PayloadLength = poc.bytes_len
    BY <1>1, <1>4 DEF PayloadLength
  <2>2. raw.pixels * Bpp(rgbMode) <= poc.bytes_recv
    BY <1>1, <1>4 DEF HeaderHonest
  <2>3. poc.bytes_len = poc.pixels_len * Bpp(rgbMode)
    BY <1>1 DEF WholePixels
  <2>4. raw.pixels = poc.pixels_len => poc.bytes_len <= poc.bytes_recv
    BY <2>2, <2>3
  <2>5. raw.pixels # poc.pixels_len
    BY <1>1, <1>2, <2>1, <2>4
  <2> QED BY <1>4, <2>5 DEF Claimed
<1>5. CASE hpsBlit = 0 /\ blitCompression # 0
  <2>1. PayloadLength = poc.bytes_lz4_len
    BY <1>1, <1>5 DEF PayloadLength
  <2>2. lz4.bytes <= poc.bytes_recv
    BY <1>1, <1>5 DEF HeaderHonest
  <2>3. lz4.bytes \in Nat
    BY <1>1 DEF TypeOK, Lz4Type
  <2> QED BY <1>1, <1>2, <1>5, <2>1, <2>2, <2>3 DEF Claimed
<1> QED BY <1>3, <1>4, <1>5

LEMMA RejectFields ==
  ASSUME RInv, Deferred, NEW p, RejectPayload(p)
  PROVE  /\ SameServer /\ pc' = "poll" /\ isBlitting' = 0 /\ poc' = poc
         /\ isBlitting = 1 => ~HeaderComplete'
<1>1. /\ SameServer /\ pc' = "poll" /\ isBlitting' = 0
      /\ UNCHANGED <<poc, raw, lz4, blitCompression>>
  BY DEF RejectPayload, Payload, SameServer, setup, session, headers
<1>2. ASSUME isBlitting = 1, HeaderComplete' PROVE FALSE
  <2>1. Claimed /\ poc.frame_ddr = poc.frame_recv
    BY <1>1, <1>2 DEF HeaderComplete, Claimed
  <2> QED BY <1>2, <2>1, NotComplete
<1> QED BY <1>1, <1>2

LEMMA LoseFields ==
  ASSUME RInv, Deferred, NEW p, LosePayload(p)
  PROVE  /\ SameServer /\ isBlitting' = 0 /\ poc' \in PocType /\ SameFrame(poc)
         /\ poc'.frame_ddr \in {poc.frame_ddr, poc.frame_recv}
         /\ isBlitting = 1 => ~HeaderComplete'
         /\ IF LooksLikeCommand(p) THEN pc' = "reconfig" /\ recvbuf' = p
                                   ELSE pc' = "poll" /\ recvbuf' = recvbuf
<1>1. /\ SameServer /\ isBlitting' = 0
      /\ IF LooksLikeCommand(p) THEN pc' = "reconfig" /\ recvbuf' = p
                                ELSE UNCHANGED <<pc, recvbuf>>
  BY Zenon DEF LosePayload, SameServer, setup
<1>2. Payload(p) /\ pc = "poll"
  BY DEF LosePayload, LossDetected, Payload
<1>3. /\ poc \in PocType /\ poc' \in PocType /\ TypeOK
  <2>1. IInv' /\ IInv
    BY LosePayloadInv DEF RInv, HInv
  <2>2. poc \in PocType /\ poc # NoPoc
    BY <1>2, <2>1, PayloadSound
  <2>4. poc' \in PocType
    <3>1. CASE isBlitting = 1 /\ hpsBlit = 0 /\ blitCompression # 0
      <4>1. FPGA_blit_lz4(poc, poc.bytes_lz4_len, AbortBlit)
        BY <3>1, Zenon DEF LosePayload
      <4> QED BY <2>1, <2>2, <4>1, FPGA_blit_lz4Type DEF IInv, PocType, AbortBlit, Uint16
    <3>2. CASE isBlitting = 1 /\ hpsBlit = 0 /\ blitCompression = 0
      <4>1. FPGA_blit(poc, poc.bytes_len, AbortBlit)
        BY <3>2, Zenon DEF LosePayload
      <4> QED BY <2>1, <2>2, <4>1, FPGA_blitType DEF IInv, PocType, AbortBlit, Uint16
    <3>3. CASE ~ (isBlitting = 1 /\ hpsBlit = 0)
      <4>1. poc' = poc
        BY <3>3, Zenon DEF LosePayload
      <4> QED BY <2>2, <4>1
    <3> QED BY <3>1, <3>2, <3>3
  <2> QED BY <2>1, <2>2, <2>4 DEF IInv
<1>4. CASE isBlitting = 1 /\ hpsBlit = 0 /\ blitCompression # 0
  <2>1. FPGA_blit_lz4(poc, poc.bytes_lz4_len, AbortBlit)
    BY <1>4, Zenon DEF LosePayload
  <2>2. SameFrame(poc) /\ poc'.frame_ddr = poc.frame_recv /\ lz4'.numBlit = AbortBlit
    BY <1>3, <2>1, FPGA_blit_lz4Fields
  <2>3. blitCompression' # 0
    BY <1>1, <1>4 DEF SameServer
  <2>4. ~HeaderComplete'
    BY <2>2, <2>3 DEF HeaderComplete, Told
  <2> QED BY <1>1, <1>2, <1>3, <2>2, <2>4
<1>5. CASE isBlitting = 1 /\ hpsBlit = 0 /\ blitCompression = 0
  <2>1. FPGA_blit(poc, poc.bytes_len, AbortBlit)
    BY <1>5, Zenon DEF LosePayload
  <2>2. SameFrame(poc) /\ poc'.frame_ddr = poc.frame_recv /\ raw'.numBlit = AbortBlit
    BY <1>3, <2>1, FPGA_blitFields
  <2>3. blitCompression' = 0
    BY <1>1, <1>5 DEF SameServer
  <2>4. ~HeaderComplete'
    BY <2>2, <2>3 DEF HeaderComplete, Told
  <2> QED BY <1>1, <1>2, <1>3, <2>2, <2>4
<1>6. CASE ~ (isBlitting = 1 /\ hpsBlit = 0)
  <2>1. UNCHANGED <<poc, raw, lz4>>
    BY <1>6, Zenon DEF LosePayload, headers
  <2>2. SameFrame(poc) /\ poc'.frame_ddr = poc.frame_ddr
    BY <2>1 DEF SameFrame
  <2>3. ASSUME isBlitting = 1, HeaderComplete' PROVE FALSE
    <3>1. Claimed /\ poc.frame_ddr = poc.frame_recv
      BY <1>1, <2>1, <2>3 DEF HeaderComplete, Claimed, SameServer
    <3> QED BY <2>3, <3>1, NotComplete
  <2> QED BY <1>1, <1>2, <1>3, <2>2, <2>3
<1> QED BY <1>4, <1>5, <1>6

(* What an accepted chunk does, whatever it is of. *)
Receives(p) ==
  /\ SameServer /\ pc = "poll" /\ pc' = "poll" /\ poc' \in PocType /\ SameFrame(poc)
  /\ poc'.bytes_recv = poc.bytes_recv + p.len
  /\ poc.bytes_recv + p.len <= PayloadLength
  /\ isBlitting' = IF poc.bytes_recv + p.len = PayloadLength THEN 0 ELSE isBlitting
  /\ isBlitting' # 0 => p.len >= ChunkLen
  /\ poc'.frame_ddr = IF isBlitting = 1 /\ (hpsBlit = 0 \/ isBlitting' = 0)
                      THEN poc.frame_recv ELSE poc.frame_ddr
  /\ isBlitting = 1 /\ isBlitting' = 0 => HeaderComplete'
  /\ isBlitting = 2 /\ isBlitting' = 0 => Played'

(* A chunk that leaves the reception open is not short. *)
LEMMA FullChunk ==
  ASSUME RInv, NEW p, NEW kind \in {1, 2}, Accepted(p, kind)
  PROVE  /\ SameServer /\ pc = "poll" /\ pc' = "poll"
         /\ poc.bytes_recv + p.len # PayloadLength => p.len >= ChunkLen
<1>1. /\ Payload(p) /\ PayloadBoundsValid(p.len) /\ ~LossDetected(p)
      /\ UNCHANGED <<setup, blitCompression, audioChannels, rgbMode, pc>>
  BY DEF Accepted
<1>2. p.len \in Nat
  BY AcceptedSound
<1>3. poc.bytes_recv + p.len # PayloadLength => ~(p.len < ChunkLen)
  BY <1>1 DEF LossDetected
<1> QED BY <1>1, <1>2, <1>3 DEF SameServer, setup, Payload, ChunkLen

(* The counter of chunks does not come to the value of none. *)
LEMMA ChunkCounted ==
  ASSUME RInv, isBlitting = 1, poc # NoPoc, NEW times \in 1 .. 2,
         numBlit' = Increment(numBlit, times)
  PROVE  numBlit' # 0 /\ numBlit' # AbortBlit
<1>1. numBlit \in Nat /\ numBlit * 1472 <= poc.bytes_recv
  BY DEF RInv, HInv, IInv, ChunkCountBounded, ChunkLen, TypeOK, Uint16
<1>2. poc.bytes_recv \in Nat /\ poc.bytes_recv < PayloadLength /\ PayloadLength \in Nat
      /\ PayloadLength <= 1658880
  <2>1. /\ TypeOK /\ poc \in PocType /\ poc.bytes_recv < PayloadLength
        /\ PayloadLength <= PayloadCapacity
    BY DEF RInv, HInv, IInv, TypeOK, ReceptionSound
  <2>2. PayloadCapacity <= 1658880 /\ PayloadCapacity \in Nat
    BY DEF PayloadCapacity, FrameRegionSize, LZ4Size, AudioSize
  <2>3. PayloadLength \in Nat /\ poc.bytes_recv \in Nat
    BY <2>1 DEF PayloadLength, PocType
  <2> QED BY <2>1, <2>2, <2>3
<1>3. numBlit + times \in 1 .. 1129
  BY <1>1, <1>2
<1>4. \A n \in 1 .. 1129 : n % 65536 # 65535 /\ n % 65536 # 0
  OBVIOUS
<1> QED BY <1>3, <1>4 DEF Increment, AbortBlit

LEMMA RawChunkFields == ASSUME RInv, NEW p, RawChunk(p) PROVE Receives(p)
<1> DEFINE received == poc.bytes_recv + p.len
           done  == received >= poc.bytes_len
           asap  == hpsBlit = 0
           told  == IF asap THEN received \div Bpp(rgbMode) ELSE poc.pixels_ddr
           atEnd == done /\ told < poc.pixels_len
           times == (IF asap THEN 1 ELSE 0) + (IF atEnd THEN 1 ELSE 0)
           rest  == IF done THEN 0 ELSE poc.buffer_offset
           q     == [poc EXCEPT !.bytes_recv = received, !.buffer_offset = rest]
<1>1. /\ Accepted(p, 1) /\ blitCompression = 0
      /\ numBlit' = Increment(numBlit, times)
      /\ IF times > 0
         THEN FPGA_blit(q, received, numBlit')
         ELSE poc' = q /\ spi' = <<>> /\ UNCHANGED headers
  BY DEF RawChunk
<1>2. /\ isBlitting = 1 /\ PayloadLength = poc.bytes_len
      /\ poc'.bytes_recv = poc.bytes_recv + p.len /\ poc' \in PocType
      /\ poc'.pixels_len = poc.pixels_len
      /\ isBlitting' = IF poc'.bytes_recv = poc.bytes_len THEN 0 ELSE 1
      /\ hpsBlit = 0 \/ isBlitting' = 0
           => raw'.pixels = poc'.bytes_recv \div Bpp(rgbMode)
  BY RawChunkEffect
<1>3. /\ poc \in PocType /\ poc # NoPoc /\ poc.bytes_recv \in Nat /\ TypeOK
      /\ poc.bytes_recv + p.len <= PayloadLength /\ received \in Nat
      /\ poc.bytes_len = poc.pixels_len * Bpp(rgbMode) /\ poc.pixels_len \in Nat
      /\ hpsBlit \in {0, 1} /\ poc.bytes_recv < poc.bytes_len /\ poc.bytes_len \in Nat
  BY <1>1, <1>2, AcceptedSound DEF RInv, WholePixels, PocType, TypeOK
<1>4. /\ SameServer /\ pc = "poll" /\ pc' = "poll"
      /\ poc.bytes_recv + p.len # PayloadLength => p.len >= ChunkLen
  BY <1>1, FullChunk
<1>5. times \in 0 .. 2 /\ (hpsBlit = 0 => times > 0)
  OBVIOUS
<1>6. hpsBlit # 0 => (times > 0 <=> isBlitting' = 0)
  <2> SUFFICES ASSUME hpsBlit # 0 PROVE times > 0 <=> isBlitting' = 0
    OBVIOUS
  <2>1. poc.pixels_ddr = 0
    BY <1>1, <1>2, <1>3 DEF RInv, Untold
  <2>2. poc.pixels_len > 0
    <3>1. poc.pixels_len # 0
      BY <1>3, BppType
    <3> QED BY <1>3, <3>1
  <2>3. done <=> isBlitting' = 0
    BY <1>2, <1>3
  <2> QED BY <2>1, <2>2, <2>3
<1>7. rest \in Nat
  BY <1>3 DEF PocType
<1> HIDE DEF received, rest, times, q
<1>8. /\ q \in PocType /\ q.bytes_recv = received /\ q.frame_recv = poc.frame_recv
      /\ q.pixels_len = poc.pixels_len /\ q.FB_progressive = poc.FB_progressive
      /\ q.bytes_lz4_len = poc.bytes_lz4_len /\ q.bytes_audio_len = poc.bytes_audio_len
      /\ q.frame_ddr = poc.frame_ddr
  <2>1. /\ poc \in PocType /\ received \in Nat /\ rest \in Nat
        /\ q = [poc EXCEPT !.bytes_recv = received, !.buffer_offset = rest]
    BY <1>3, <1>7 DEF q
  <2> QED BY <2>1, Zenon DEF PocType
<1>9. isBlitting' # 0 => p.len >= ChunkLen
  BY <1>2, <1>4
<1>10. CASE times > 0
  <2>1. FPGA_blit(q, received, numBlit')
    BY <1>1, <1>10
  <2>2. SameFrame(q) /\ poc'.frame_ddr = q.frame_recv /\ raw'.numBlit = numBlit'
    BY <1>8, <2>1, FPGA_blitFields
  <2>3. SameFrame(poc) /\ poc'.frame_ddr = poc.frame_recv /\ poc'.frame_recv = poc.frame_recv
    BY <1>8, <2>2 DEF SameFrame
  <2>4. numBlit' # 0 /\ numBlit' # AbortBlit
    <3>1. times \in 1 .. 2
      BY <1>5, <1>10
    <3> QED BY <1>1, <1>2, <1>3, <3>1, ChunkCounted
  <2>5. hpsBlit = 0 \/ isBlitting' = 0
    BY <1>6, <1>10
  <2>6. isBlitting' = 0 => HeaderComplete'
    <3>1. (poc.pixels_len * Bpp(rgbMode)) \div Bpp(rgbMode) = poc.pixels_len
      BY <1>3, MultipleOfBpp
    <3>2. isBlitting' = 0 => raw'.pixels = poc'.pixels_len
      BY <1>2, <1>3, <2>5, <3>1
    <3> QED BY <1>1, <1>4, <2>2, <2>3, <2>4, <3>2
            DEF HeaderComplete, Claimed, Told, SameServer
  <2> QED BY <1>2, <1>3, <1>4, <1>9, <2>3, <2>5, <2>6 DEF Receives
<1>11. CASE ~(times > 0)
  <2>1. poc' = q
    BY <1>1, <1>11
  <2>2. SameFrame(poc) /\ poc'.frame_ddr = poc.frame_ddr
    BY <1>8, <2>1 DEF SameFrame
  <2>3. hpsBlit # 0 /\ isBlitting' # 0
    BY <1>5, <1>6, <1>11
  <2> QED BY <1>2, <1>3, <1>4, <1>9, <2>2, <2>3 DEF Receives
<1> QED BY <1>10, <1>11

LEMMA Lz4ChunkFields == ASSUME RInv, NEW p, Lz4Chunk(p) PROVE Receives(p)
<1> DEFINE received == poc.bytes_recv + p.len
           done  == received >= poc.bytes_lz4_len
           asap  == hpsBlit = 0
           told  == IF asap THEN received ELSE poc.bytes_lz4_ddr
           atEnd == done /\ told < poc.bytes_lz4_len
           times == (IF asap THEN 1 ELSE 0) + (IF atEnd THEN 1 ELSE 0)
           rest  == IF done THEN 0 ELSE poc.buffer_offset
           q     == [poc EXCEPT !.bytes_recv = received, !.buffer_offset = rest]
<1>1. /\ Accepted(p, 1) /\ blitCompression # 0
      /\ numBlit' = Increment(numBlit, times)
      /\ IF times > 0
         THEN FPGA_blit_lz4(q, received, numBlit')
         ELSE poc' = q /\ spi' = <<>> /\ UNCHANGED headers
  BY DEF Lz4Chunk
<1>2. /\ isBlitting = 1 /\ PayloadLength = poc.bytes_lz4_len
      /\ poc'.bytes_recv = poc.bytes_recv + p.len /\ poc' \in PocType
      /\ poc'.bytes_lz4_len = poc.bytes_lz4_len
      /\ isBlitting' = IF poc'.bytes_recv = poc.bytes_lz4_len THEN 0 ELSE 1
  BY Lz4ChunkEffect
<1>3. /\ poc \in PocType /\ poc # NoPoc /\ poc.bytes_recv \in Nat /\ TypeOK
      /\ poc.bytes_recv + p.len <= PayloadLength /\ received \in Nat
      /\ hpsBlit \in {0, 1} /\ poc.bytes_recv < poc.bytes_lz4_len /\ poc.bytes_lz4_len \in Nat
  BY <1>1, <1>2, AcceptedSound DEF PocType, TypeOK
<1>4. /\ SameServer /\ pc = "poll" /\ pc' = "poll"
      /\ poc.bytes_recv + p.len # PayloadLength => p.len >= ChunkLen
  BY <1>1, FullChunk
<1>5. times \in 0 .. 2 /\ (hpsBlit = 0 => times > 0)
  OBVIOUS
<1>6. hpsBlit # 0 => (times > 0 <=> isBlitting' = 0)
  <2> SUFFICES ASSUME hpsBlit # 0 PROVE times > 0 <=> isBlitting' = 0
    OBVIOUS
  <2>1. poc.bytes_lz4_ddr = 0
    BY <1>1, <1>2, <1>3 DEF RInv, Untold
  <2>2. done <=> isBlitting' = 0
    BY <1>2, <1>3
  <2> QED BY <1>3, <2>1, <2>2
<1>7. rest \in Nat
  BY <1>3 DEF PocType
<1> HIDE DEF received, rest, times, q
<1>8. /\ q \in PocType /\ q.bytes_recv = received /\ q.frame_recv = poc.frame_recv
      /\ q.pixels_len = poc.pixels_len /\ q.FB_progressive = poc.FB_progressive
      /\ q.bytes_lz4_len = poc.bytes_lz4_len /\ q.bytes_audio_len = poc.bytes_audio_len
      /\ q.frame_ddr = poc.frame_ddr
  <2>1. /\ poc \in PocType /\ received \in Nat /\ rest \in Nat
        /\ q = [poc EXCEPT !.bytes_recv = received, !.buffer_offset = rest]
    BY <1>3, <1>7 DEF q
  <2> QED BY <2>1, Zenon DEF PocType
<1>9. isBlitting' # 0 => p.len >= ChunkLen
  BY <1>2, <1>4
<1>10. CASE times > 0
  <2>1. FPGA_blit_lz4(q, received, numBlit')
    BY <1>1, <1>10
  <2>2. /\ SameFrame(q) /\ poc'.frame_ddr = q.frame_recv /\ lz4'.numBlit = numBlit'
        /\ lz4'.bytes = received
    BY <1>8, <2>1, FPGA_blit_lz4Fields
  <2>3. SameFrame(poc) /\ poc'.frame_ddr = poc.frame_recv /\ poc'.frame_recv = poc.frame_recv
    BY <1>8, <2>2 DEF SameFrame
  <2>4. numBlit' # 0 /\ numBlit' # AbortBlit
    <3>1. times \in 1 .. 2
      BY <1>5, <1>10
    <3> QED BY <1>1, <1>2, <1>3, <3>1, ChunkCounted
  <2>5. hpsBlit = 0 \/ isBlitting' = 0
    BY <1>6, <1>10
  <2>6. isBlitting' = 0 => HeaderComplete'
    <3>1. isBlitting' = 0 => lz4'.bytes = poc'.bytes_lz4_len
      BY <1>2, <1>3, <2>2 DEF received
    <3> QED BY <1>1, <1>4, <2>2, <2>3, <2>4, <3>1
            DEF HeaderComplete, Claimed, Told, SameServer
  <2> QED BY <1>2, <1>3, <1>4, <1>9, <2>3, <2>5, <2>6 DEF Receives
<1>11. CASE ~(times > 0)
  <2>1. poc' = q
    BY <1>1, <1>11
  <2>2. SameFrame(poc) /\ poc'.frame_ddr = poc.frame_ddr
    BY <1>8, <2>1 DEF SameFrame
  <2>3. hpsBlit # 0 /\ isBlitting' # 0
    BY <1>5, <1>6, <1>11
  <2> QED BY <1>2, <1>3, <1>4, <1>9, <2>2, <2>3 DEF Receives
<1> QED BY <1>10, <1>11

LEMMA AudioChunkFields == ASSUME RInv, NEW p, AudioChunk(p) PROVE Receives(p)
<1>1. /\ isBlitting = 2 /\ PayloadLength = poc.bytes_audio_len
      /\ poc'.bytes_recv = poc.bytes_recv + p.len /\ poc' \in PocType
      /\ isBlitting' = IF poc'.bytes_recv = poc.bytes_audio_len THEN 0 ELSE 2
      /\ Played' <=> isBlitting' = 0
  BY AudioChunkEffect
<1>2. Accepted(p, 2)
  BY DEF AudioChunk
<1>3. /\ poc \in PocType /\ poc.bytes_recv \in Nat /\ p.len \in Nat
      /\ poc.bytes_recv + p.len <= PayloadLength
  BY <1>2, AcceptedSound
<1>4. /\ SameServer /\ pc = "poll" /\ pc' = "poll"
      /\ poc.bytes_recv + p.len # PayloadLength => p.len >= ChunkLen
  BY <1>2, FullChunk
<1>5. SameFrame(poc) /\ poc'.frame_ddr = poc.frame_ddr
  <2>1. PICK rest \in Nat : poc' = [poc EXCEPT !.bytes_recv = poc.bytes_recv + p.len,
                                               !.buffer_offset = rest]
    <3>1. poc' = [poc EXCEPT !.bytes_recv = poc.bytes_recv + p.len,
                    !.buffer_offset = IF poc.bytes_recv + p.len >= poc.bytes_audio_len
                                      THEN 0 ELSE poc.buffer_offset]
      BY DEF AudioChunk
    <3>2. poc.buffer_offset \in Nat
      BY <1>3 DEF PocType
    <3> QED BY <3>1, <3>2
  <2> QED BY <1>3, <2>1, Zenon DEF PocType, SameFrame
<1> QED BY <1>1, <1>3, <1>4, <1>5 DEF Receives

-----------------------------------------------------------------------------
(* What is on the network *)

(* A datagram of a stream is no command. *)
LEMMA StreamIsPayload ==
  ASSUME NEW s \in Seq(MessageType), s # <<>>, NEW kind \in Kinds, NEW n \in Nat,
         NEW total \in Nat \ {0}, NEW j \in Nat, Streaming(s, kind, n, total, j)
  PROVE  /\ j < Chunks(total)
         /\ Head(s).kind = kind /\ Head(s).of = n /\ Head(s).index = j + 1
         /\ Head(s).p.cmd = "unknown" /\ Head(s).p.len = LengthOf(total, j + 1)
         /\ Streaming(Tail(s), kind, n, total, j + 1)
<1>1. /\ j < Chunks(total) /\ Head(s) = ChunkOf(kind, n, total, j + 1)
      /\ Streaming(Tail(s), kind, n, total, j + 1)
  BY StreamHead
<1>2. LET m == ChunkOf(kind, n, total, j + 1)
      IN  /\ m.kind = kind /\ m.of = n /\ m.index = j + 1
          /\ m.p.cmd = "unknown" /\ m.p.len = LengthOf(total, j + 1)
  BY <1>1, ChunkMessage
<1> QED BY <1>1, <1>2

LEMMA StreamTail ==
  ASSUME NEW s \in Seq(MessageType), s # <<>>, NEW kind \in Kinds, NEW n \in Nat,
         NEW total \in Nat \ {0}, NEW j \in Nat, Streaming(s, kind, n, total, j)
  PROVE  Tail(s) = <<>> <=> j + 1 = Chunks(total)
<1>1. Streaming(Tail(s), kind, n, total, j + 1) /\ Tail(s) \in Seq(MessageType)
  BY StreamHead, HeadTailProperties
<1> HIDE DEF Streaming
<1>2. j + 1 \in Nat
  OBVIOUS
<1> QED BY <1>1, <1>2, StreamEnd

(* No command, and of a payload the datagrams from one on. *)
InFlight(s) ==
  s = <<>> \/ \E kind \in {"frame", "sound"}, n \in Nat, total \in Payloads, j \in Nat :
                 Streaming(s, kind, n, total, j)

LEMMA InFlightHead ==
  ASSUME NEW s \in Seq(MessageType), s # <<>>, InFlight(s)
  PROVE  /\ Head(s).index # 0 /\ Head(s).p.cmd = "unknown"
         /\ InFlight(Tail(s))
<1>1. PICK kind \in {"frame", "sound"}, n \in Nat, total \in Payloads, j \in Nat :
        Streaming(s, kind, n, total, j)
  BY DEF InFlight
<1>2. total \in Nat \ {0} /\ kind \in Kinds /\ j + 1 \in Nat /\ j + 1 # 0
  BY PayloadSizes DEF Kinds
<1>3. /\ Head(s).index = j + 1 /\ Head(s).p.cmd = "unknown"
      /\ Streaming(Tail(s), kind, n, total, j + 1)
  BY <1>1, <1>2, StreamIsPayload
<1> QED BY <1>2, <1>3 DEF InFlight

LEMMA AfterCommand ==
  ASSUME frame \in Nat, NEW p, NEW s, Announces(p, s)
  PROVE  InFlight(s)
  BY PayloadSizes DEF Announces, InFlight

(* Behind the command of a call, and behind any datagram, is no other command. *)
LEMMA OnTheNet ==
  ASSUME StreamTypeOK, CallOK, PayloadOK, pc = "poll", net # <<>>
  PROVE  /\ IF Head(net).index = 0 THEN Announces(Head(net).p, Tail(net)) ELSE InFlight(net)
         /\ InFlight(Tail(net)) /\ Tail(net) \in Seq(MessageType) /\ Head(net) \in MessageType
<1>1. net \in Seq(MessageType) /\ frame \in Nat
  BY DEF StreamTypeOK
<1>2. Tail(net) \in Seq(MessageType) /\ Head(net) \in MessageType
  BY <1>1, HeadTailProperties
<1>3. CASE Head(net).index = 0
  <2>1. Announces(Head(net).p, Tail(net))
    BY <1>3 DEF CallOK, ToCome, AtHead, After
  <2> QED BY <1>1, <1>2, <1>3, <2>1, AfterCommand
<1>4. CASE Head(net).index # 0
  <2>1. FrameOnItsWay \/ SoundOnItsWay
    BY <1>4 DEF PayloadOK
  <2>2. InFlight(net)
    BY <1>1, <2>1, PayloadSizes DEF FrameOnItsWay, SoundOnItsWay, InFlight
  <2> QED BY <1>1, <1>2, <1>4, <2>2, InFlightHead
<1> QED BY <1>3, <1>4

LEMMA InTheBuffer ==
  ASSUME StreamTypeOK, CallOK, pc = "reconfig"
  PROVE  Announces(recvbuf, net) /\ InFlight(net)
<1>1. Announces(recvbuf, net)
  BY DEF CallOK, ToCome, InBuf, After
<1> QED BY <1>1, AfterCommand DEF StreamTypeOK

(* The command to come is one. *)
LEMMA OneToCome ==
  ASSUME NEW p, NEW q, ToCome(p), ToCome(q)
  PROVE  p = q
  BY DEF ToCome, AtHead, InBuf

LEMMA NoneToCome ==
  ASSUME InFlight(net), net \in Seq(MessageType), pc = "poll"
  PROVE  \A p : ~ToCome(p)
  BY InFlightHead DEF ToCome, AtHead, InBuf

LEMMA ChunkToCome ==
  ASSUME pc = "poll", net # <<>> => Head(net).index # 0
  PROVE  \A p : ~ToCome(p)
  BY DEF ToCome, AtHead, InBuf

-----------------------------------------------------------------------------
(* What becomes of a payload datagram *)

LEMMA OpenPayload ==
  ASSUME RInv, StreamTypeOK, SessionOK, isBlitting # 0
  PROVE  /\ PayloadLength \in Payloads
         /\ isBlitting = 1 => PayloadLength \in FrameSizes
         /\ PayloadLength \in Nat \ {0} /\ poc.bytes_len \in Nat \ {0}
         /\ poc.bytes_recv \in Nat /\ poc.bytes_recv < PayloadLength
         /\ PayloadLength <= PayloadCapacity /\ PayloadCapacity \in Nat
         /\ RegionSound /\ poc # NoPoc /\ groovyServer = 2 /\ pc = "poll"
<1>1. /\ poc.bytes_recv < PayloadLength /\ PayloadLength <= PayloadCapacity
      /\ RegionSound /\ poc # NoPoc /\ groovyServer = 2 /\ pc = "poll"
      /\ poc.bytes_len = poc.pixels_len * Bpp(rgbMode)
      /\ isBlitting \in 0 .. 2
  BY DEF RInv, HInv, IInv, TypeOK, ReceptionSound, WholePixels
<1>2. /\ poc.pixels_len \in Modes /\ rgbMode = 0 /\ poc \in PocType
      /\ isBlitting = 1 /\ blitCompression # 0 => poc.bytes_lz4_len \in Sizes
      /\ isBlitting = 2 => poc.bytes_audio_len \in Sounds
  BY DEF StreamTypeOK, SessionOK
<1>3. poc.bytes_len \in FrameSizes
  BY <1>1, <1>2, PayloadSizes
<1>4. isBlitting = 1 => PayloadLength \in FrameSizes
  <2>1. Sizes \subseteq FrameSizes
    BY PayloadSizes
  <2>2. isBlitting = 1 => PayloadLength = IF blitCompression # 0 THEN poc.bytes_lz4_len
                                                                 ELSE poc.bytes_len
    BY <1>1 DEF PayloadLength
  <2> QED BY <1>2, <1>3, <2>1, <2>2
<1>5. isBlitting = 2 => PayloadLength \in Sounds
  BY <1>1, <1>2 DEF PayloadLength
<1>6. PayloadLength \in Payloads
  <2>1. FrameSizes \subseteq Payloads /\ Sounds \subseteq Payloads
    BY PayloadSizes
  <2>2. isBlitting = 1 \/ isBlitting = 2
    BY <1>1
  <2> QED BY <1>4, <1>5, <2>1, <2>2
<1>7. PayloadLength \in Nat \ {0} /\ poc.bytes_len \in Nat \ {0}
  BY <1>3, <1>6, PayloadSizes
<1>8. PayloadCapacity \in Nat
  BY SizesType DEF PayloadCapacity
<1>9. poc.bytes_recv \in Nat
  BY <1>2 DEF PocType
<1> QED BY <1>1, <1>4, <1>6, <1>7, <1>8, <1>9

(* What was announced and has not come yet fits the region it goes to. *)
LEMMA RoomForTheRest ==
  ASSUME RInv, StreamTypeOK, SessionOK, isBlitting # 0, NEW len \in Nat \ {0},
         poc.bytes_recv + len <= PayloadLength
  PROVE  PayloadBoundsValid(len)
<1>1. HeaderOffset + poc.buffer_offset + PayloadCapacity <= BufferSize
  <2>1. RegionSound /\ isBlitting \in 1 .. 2
    BY OpenPayload DEF RInv, HInv, IInv, TypeOK
  <2>2. CASE isBlitting = 2
    BY <2>1, <2>2 DEF RegionSound, PayloadCapacity, HeaderOffset, BufferSize, AudioOffset,
                      AudioSize, FrameRegionSize, LZ4Size
  <2>3. CASE isBlitting = 1 /\ blitCompression = 0
    BY <2>1, <2>3 DEF RegionSound, PayloadCapacity, HeaderOffset, BufferSize, FieldOffset,
                      AudioSize, FrameRegionSize, LZ4Size
  <2>4. CASE isBlitting = 1 /\ blitCompression # 0
    <3>1. PICK zone \in 0 .. 3 : poc.buffer_offset = LZ4Offset(zone)
      BY <2>1, <2>4 DEF RegionSound
    <3>2. PayloadCapacity = LZ4Size
      BY <2>4 DEF PayloadCapacity
    <3> QED BY <3>1, <3>2 DEF LZ4Offset, HeaderOffset, BufferSize, AudioSize, FrameRegionSize,
                              LZ4Size
  <2> QED BY <2>1, <2>2, <2>3, <2>4
<1> QED BY <1>1, OpenPayload DEF PayloadBoundsValid

(* A command that comes during a reception ends it, and is a command again. *)
LEMMA CommandIsLoss ==
  ASSUME RInv, StreamTypeOK, SessionOK, LongRests, NEW p, HandlePayload(p),
         p.len <= MaxCommandLen
  PROVE  LosePayload(p) /\ LooksLikeCommand(p)
<1>1. Payload(p) /\ isBlitting # 0
  BY HandledIsPayload DEF Payload
<1>2. p.len \in Nat \ {0}
  <2>1. p \in PacketType
    BY <1>1, PayloadSound DEF RInv, HInv
  <2> QED BY <2>1 DEF PacketType
<1>3. /\ PayloadLength \in Payloads /\ PayloadLength \in Nat \ {0}
      /\ poc.bytes_recv < PayloadLength
  BY <1>1, OpenPayload
<1>4. PICK m \in Nat : poc.bytes_recv = m * 1472
  BY <1>1 DEF SessionOK, ChunkLen
<1>5. PayloadLength % 1472 = 0 \/ PayloadLength % 1472 > 26
  BY <1>3 DEF LongRests, ChunkLen, MaxCommandLen
<1>6. PayloadLength - m * 1472 > 26
  <2>1. CASE PayloadLength % 1472 = 0
    <3>1. PICK k \in Nat : PayloadLength = k * 1472
      BY <1>3, <2>1
    <3> QED BY <1>3, <1>4, <3>1
  <2>2. CASE PayloadLength % 1472 > 26
    <3>1. /\ PayloadLength \div 1472 \in Nat
          /\ PayloadLength = (PayloadLength \div 1472) * 1472 + (PayloadLength % 1472)
      BY <1>3
    <3>2. (PayloadLength \div 1472) >= m
      BY <1>3, <1>4, <3>1
    <3> QED BY <1>3, <2>2, <3>1, <3>2
  <2> QED BY <1>5, <2>1, <2>2
<1>7. PayloadBoundsValid(p.len)
  BY <1>1, <1>2, <1>3, <1>4, <1>6, RoomForTheRest DEF MaxCommandLen
<1>8. LossDetected(p)
  BY <1>1, <1>2, <1>3, <1>4, <1>6, <1>7 DEF LossDetected, MaxCommandLen, ChunkLen
<1>9. LosePayload(p)
  BY <1>7, <1>8, Zenon DEF HandlePayload, RejectPayload, RawChunk, Lz4Chunk, AudioChunk,
                           Accepted, SkipNoModeline
<1>10. LooksLikeCommand(p)
  BY <1>2, <1>5 DEF LooksLikeCommand, MaxCommandLen, ChunkLen
<1> QED BY <1>9, <1>10

(* A datagram of a payload is no command in disguise. *)
LEMMA ChunkIsNoCommand ==
  ASSUME LongRests, NEW total \in Payloads, NEW j \in Nat, j < Chunks(total)
  PROVE  LengthOf(total, j + 1) > MaxCommandLen
<1>1. /\ total \in Nat \ {0} /\ total % 1472 \in Nat
      /\ total % 1472 = 0 \/ total % 1472 > 26
  BY PayloadSizes DEF LongRests, ChunkLen, MaxCommandLen
<1>2. /\ LengthOf(total, j + 1) \in 1 .. 1472
      /\ j + 1 < Chunks(total) => LengthOf(total, j + 1) = 1472
      /\ j + 1 = Chunks(total) => j * 1472 + LengthOf(total, j + 1) = total
      /\ total % 1472 # 0 /\ j + 1 = Chunks(total) => LengthOf(total, j + 1) = total % 1472
  BY <1>1, ChunkLength DEF ChunkLen
<1>3. Chunks(total) \in Nat
  BY <1>1, ChunkCount
<1>4. CASE j + 1 < Chunks(total)
  BY <1>2, <1>4 DEF MaxCommandLen
<1>5. CASE j + 1 = Chunks(total) /\ total % 1472 # 0
  BY <1>1, <1>2, <1>5 DEF MaxCommandLen
<1>6. CASE j + 1 = Chunks(total) /\ total % 1472 = 0
  <2>1. PICK k \in Nat : total = k * 1472
    BY <1>1, <1>6
  <2>2. LengthOf(total, j + 1) = 1472
    BY <1>2, <1>6, <2>1
  <2> QED BY <2>2 DEF MaxCommandLen
<1> QED BY <1>3, <1>4, <1>5, <1>6

(* A payload datagram ends the reception short or is received. *)
LEMMA PayloadOutcome ==
  ASSUME RInv, StreamTypeOK, SessionOK, NEW p, HandlePayload(p)
  PROVE  /\ isBlitting # 0 /\ pc = "poll" /\ Payload(p) /\ p.len \in Nat \ {0}
         /\ \/ RejectPayload(p) /\ ~PayloadBoundsValid(p.len)
            \/ LosePayload(p) /\ LossDetected(p)
            \/ Receives(p)
<1>1. Payload(p) /\ isBlitting # 0 /\ pc = "poll"
  BY HandledIsPayload DEF Payload
<1>2. p.len \in Nat \ {0}
  <2>1. p \in PacketType
    BY <1>1, PayloadSound DEF RInv, HInv
  <2> QED BY <2>1 DEF PacketType
<1>3. ~SkipNoModeline(p)
  BY <1>1, OpenPayload DEF SkipNoModeline
<1>4. RawChunk(p) \/ Lz4Chunk(p) \/ AudioChunk(p) => Receives(p)
  BY RawChunkFields, Lz4ChunkFields, AudioChunkFields, Zenon
<1>5. RejectPayload(p) => ~PayloadBoundsValid(p.len)
  BY Zenon DEF RejectPayload
<1>6. LosePayload(p) => LossDetected(p)
  BY Zenon DEF LosePayload
<1> QED BY <1>1, <1>2, <1>3, <1>4, <1>5, <1>6, Zenon DEF HandlePayload

(* The datagram that is next in the payload being received is received. *)
LEMMA NextIsReceived ==
  ASSUME RInv, StreamTypeOK, SessionOK, NEW p, HandlePayload(p),
         NEW total \in Nat \ {0}, NEW j \in Nat, j < Chunks(total),
         p.len = LengthOf(total, j + 1), PayloadLength = total, poc.bytes_recv = j * ChunkLen
  PROVE  /\ Receives(p) /\ PayloadBoundsValid(p.len)
         /\ isBlitting' = IF j + 1 = Chunks(total) THEN 0 ELSE isBlitting
         /\ j + 1 # Chunks(total) => poc'.bytes_recv = (j + 1) * ChunkLen
<1>1. /\ LengthOf(total, j + 1) \in 1 .. 1472
      /\ j + 1 < Chunks(total) => LengthOf(total, j + 1) = 1472
      /\ j + 1 = Chunks(total) => j * 1472 + LengthOf(total, j + 1) = total
  BY ChunkLength DEF ChunkLen
<1>2. Chunks(total) \in Nat /\ (Chunks(total) - 1) * 1472 < total
  BY ChunkCount DEF ChunkLen
<1>3. j + 1 < Chunks(total) => (j + 1) * 1472 < total
  <2> DEFINE c == Chunks(total)
  <2> SUFFICES ASSUME j + 1 < c PROVE (j + 1) * 1472 < total
    OBVIOUS
  <2>1. c \in Nat /\ (c - 1) * 1472 < total
    BY <1>2
  <2> HIDE DEF c
  <2>2. (j + 1) * 1472 <= (c - 1) * 1472
    BY <2>1
  <2> QED BY <2>1, <2>2
<1>4. poc.bytes_recv + p.len <= PayloadLength
  BY <1>1, <1>2, <1>3 DEF ChunkLen
<1>5. isBlitting # 0 /\ p.len \in Nat \ {0}
  BY PayloadOutcome
<1>6. PayloadBoundsValid(p.len)
  BY <1>4, <1>5, RoomForTheRest
<1>7. ~LossDetected(p)
  BY <1>1, <1>2 DEF LossDetected, ChunkLen
<1>8. Receives(p)
  BY <1>6, <1>7, PayloadOutcome
<1>9. (poc.bytes_recv + p.len = PayloadLength) <=> (j + 1 = Chunks(total))
  BY <1>1, <1>2, <1>3 DEF ChunkLen
<1>10. j + 1 # Chunks(total) => poc.bytes_recv + p.len = (j + 1) * ChunkLen
  BY <1>1, <1>2 DEF ChunkLen
<1> QED BY <1>6, <1>8, <1>9, <1>10 DEF Receives

-----------------------------------------------------------------------------
(* What becomes of a command *)

LEMMA HandledByKind ==
  ASSUME NEW p, HandleCommand(p)
  PROVE  \/ p.cmd \in {"CLOSE", "INIT", "GET_VERSION", "GET_STATUS"}
         \/ Switchres(p) \/ Audio(p) \/ Blit(p)
         \/ Ignore(p)
<1>1. (\E allocated \in BOOLEAN : Close(p, allocated)) => p.cmd = "CLOSE"
  BY Zenon DEF Close, Command
<1>2. Init_(p) \/ InitFails(p) => p.cmd = "INIT"
  BY Zenon DEF Init_, InitFails, Command
<1>3. GetVersion(p) => p.cmd = "GET_VERSION"
  BY Zenon DEF GetVersion, Command
<1>4. GetStatus(p) => p.cmd = "GET_STATUS"
  BY Zenon DEF GetStatus, Command
<1>5. \/ \E allocated \in BOOLEAN : Close(p, allocated)
      \/ Init_(p) \/ InitFails(p) \/ GetVersion(p) \/ GetStatus(p)
      \/ Switchres(p) \/ Audio(p) \/ Blit(p) \/ Ignore(p)
  BY Zenon DEF HandleCommand
<1> QED BY <1>1, <1>2, <1>3, <1>4, <1>5

LEMMA HandledCmd ==
  ASSUME NEW p
  PROVE  /\ Switchres(p) => p.cmd = "SWITCHRES"
         /\ Audio(p) => p.cmd = "AUDIO"
         /\ Blit(p) => p.cmd \in {"BLIT_VSYNC", "BLIT_FIELD_VSYNC"}
<1>1. Switchres(p) => p.cmd = "SWITCHRES"
  BY Zenon DEF Switchres, Command
<1>2. Audio(p) => p.cmd = "AUDIO"
  BY Zenon DEF Audio, Command
<1>3. Blit(p) => IsBlit(p)
  BY Zenon DEF Blit
<1> QED BY <1>1, <1>2, <1>3 DEF IsBlit

LEMMA HandledAtRest ==
  ASSUME RInv, NEW p, HandleCommand(p)
  PROVE  p \in PacketType /\ isBlitting = 0
  BY HandledIsDispatched, DispatchedSound DEF RInv, HInv

LEMMA ModeHandled ==
  ASSUME RInv, StreamTypeOK, SizesFit, NEW p, HandleCommand(p), IsMode(p)
  PROVE  Switchres(p) /\ p.interlace = 0 /\ p.px = mode
<1>1. /\ p.cmd = "SWITCHRES" /\ p.len = 26 /\ p.px = mode /\ p.timing /\ p.interlace = 0
      /\ mode \in Modes /\ rgbMode = 0 /\ poc \in PocType /\ poc # NoPoc
  BY NoPocAssumption DEF IsMode, StreamTypeOK
<1>2. ModelineValid(p)
  <2>1. mode * Bpp(0) \in 1 .. FrameRegionSize
    BY <1>1 DEF SizesFit
  <2>2. ModelineBytes(p) = mode * Bpp(0)
    BY <1>1 DEF ModelineBytes
  <2>3. p.interlace <= 2
    BY <1>1
  <2> QED BY <1>1, <2>1, <2>2, <2>3, Zenon DEF ModelineValid
<1>3. Validated(p)
  BY <1>1 DEF Validated, Commands, LengthsOf
<1>4. ~Ignore(p)
  BY <1>1, <1>2, <1>3 DEF Ignore, IsBlit
<1>5. ~Audio(p) /\ ~Blit(p)
  BY <1>1, HandledCmd
<1> QED BY <1>1, <1>4, <1>5, HandledByKind

LEMMA SoundHandled ==
  ASSUME RInv, StreamTypeOK, SizesFit, NEW p, HandleCommand(p), NEW size, IsSound(p, size)
  PROVE  Audio(p) /\ p.size = size
<1>1. /\ p.cmd = "AUDIO" /\ p.len = 3 /\ p.size = size /\ size \in Sounds
      /\ audioChannels = 2 /\ poc \in PocType /\ poc # NoPoc
  BY NoPocAssumption DEF IsSound, StreamTypeOK
<1>2. p.size \in 1 .. AudioSize
  BY <1>1 DEF SizesFit
<1>3. Validated(p)
  BY <1>1 DEF Validated, Commands, LengthsOf
<1>4. ~Ignore(p)
  BY <1>1, <1>2, <1>3 DEF Ignore, IsBlit
<1>5. ~Switchres(p) /\ ~Blit(p)
  BY <1>1, HandledCmd
<1> QED BY <1>1, <1>4, <1>5, HandledByKind

LEMMA BlitHandled ==
  ASSUME RInv, StreamTypeOK, SessionOK, SizesFit, NEW p, HandleCommand(p),
         IsRepeat(p) \/ \E total : IsFrame(p, total)
  PROVE  Blit(p) /\ p.frame = frame /\ (Duplicate(p) <=> IsRepeat(p))
<1>1. /\ p.cmd = "BLIT_FIELD_VSYNC" /\ p.frame = frame
      /\ p.len \in {8, 9, 12}
      /\ blitCompression = 0 => p.len \in {8, 9}
      /\ blitCompression # 0 => p.len = 12 /\ p.size \in Sizes
      /\ p.len = 9 <=> IsRepeat(p)
      /\ p.len = 9 => p.delta = 1 /\ blitCompression = 0
  BY DEF IsRepeat, IsFrame, FrameBytes
<1>2. /\ poc \in PocType /\ poc # NoPoc /\ poc.pixels_len \in Modes /\ poc.FB_progressive = 1
      /\ rgbMode = 0 /\ poc.bytes_len = poc.pixels_len * Bpp(rgbMode)
  BY NoPocAssumption DEF StreamTypeOK, SessionOK, RInv, WholePixels
<1>3. BlitValid(p)
  <2>1. poc.bytes_len \in 1 .. FrameRegionSize
    BY <1>2 DEF SizesFit
  <2>2. BlitField(p) <= 2
    BY <1>2 DEF BlitField
  <2>3. blitCompression # 0 => BlitSize(p) \in 1 .. LZ4Size
    BY <1>1 DEF BlitSize, SizesFit
  <2> QED BY <1>2, <2>1, <2>2, <2>3 DEF BlitValid
<1>4. Validated(p)
  BY <1>1, <1>2 DEF Validated, Commands, LengthsOf
<1>5. ~Ignore(p)
  BY <1>1, <1>3, <1>4 DEF Ignore, IsBlit
<1>6. ~Switchres(p) /\ ~Audio(p)
  BY <1>1, HandledCmd
<1>7. Duplicate(p) <=> IsRepeat(p)
  BY <1>1 DEF Duplicate, BlitDelta
<1> QED BY <1>1, <1>5, <1>6, <1>7, HandledByKind

LEMMA UnknownHandled ==
  ASSUME NEW p, HandleCommand(p), p.cmd = "unknown"
  PROVE  /\ pc' = "poll" /\ isBlitting' = isBlitting /\ poc' = poc /\ SameServer
<1>1. ~Switchres(p) /\ ~Blit(p) /\ ~Audio(p)
  BY HandledCmd
<1>2. Ignore(p)
  BY <1>1, HandledByKind
<1> QED BY <1>2, Zenon DEF Ignore, BackToPoll, SameServer, setup, session, blit

(* What the commands of a call open, s being what follows. *)
OpensFrame(p, s, total) ==
  /\ IsFrame(p, total) /\ Streaming(s, "frame", frame, total, 0)
  /\ isBlitting' = 1 /\ poc'.bytes_recv = 0 /\ poc'.frame_recv = frame
  /\ poc'.pixels_len = poc.pixels_len
  /\ blitCompression # 0 => poc'.bytes_lz4_len = total /\ total \in Sizes

OpensSound(p, s, total) ==
  /\ IsSound(p, total) /\ Streaming(s, "sound", 0, total, 0)
  /\ isBlitting' = 2 /\ poc'.bytes_recv = 0 /\ poc'.bytes_audio_len = total
  /\ poc'.pixels_len = poc.pixels_len

OpensNothing(p, s) ==
  /\ isBlitting' = 0 /\ s = <<>>
  /\ \/ IsMode(p) /\ poc'.pixels_len = mode
     \/ IsRepeat(p) /\ poc'.pixels_len = poc.pixels_len

LEMMA CommandEffect ==
  ASSUME RInv, StreamTypeOK, SessionOK, NumbersOK, SizesFit,
         NEW p, HandleCommand(p), ToCome(p), NEW s, Announces(p, s)
  PROVE  /\ isBlitting = 0 /\ SameServer /\ pc' = "poll"
         /\ poc' \in PocType /\ poc'.FB_progressive = 1
         /\ poc'.frame_ddr <= poc'.frame_recv /\ poc'.frame_recv <= frame
         /\ isBlitting' = 1 /\ hpsBlit # 0 => poc'.frame_ddr < poc'.frame_recv
         /\ \/ OpensNothing(p, s)
            \/ \E total \in FrameSizes : OpensFrame(p, s, total)
            \/ \E total \in Sounds : OpensSound(p, s, total)
<1>1. /\ poc \in PocType /\ poc.FB_progressive = 1 /\ frame \in Nat
      /\ poc.frame_ddr <= poc.frame_recv /\ poc.frame_recv <= frame
      /\ p.cmd = "BLIT_FIELD_VSYNC" => poc.frame_recv < frame
  BY DEF StreamTypeOK, SessionOK, NumbersOK
<1>2. poc.frame_ddr \in Nat /\ poc.frame_recv \in Nat
  BY <1>1 DEF PocType
<1>3. p \in PacketType /\ isBlitting = 0
  BY HandledAtRest
<1>4. CASE IsMode(p) /\ s = <<>>
  <2>1. Switchres(p) /\ p.interlace = 0 /\ p.px = mode
    BY <1>4, ModeHandled
  <2>2. /\ SameServer /\ pc' = "poll" /\ isBlitting' = 0 /\ poc' \in PocType
        /\ poc'.pixels_len = p.px /\ poc'.FB_progressive = 1
        /\ poc'.frame_recv = poc.frame_recv /\ poc'.frame_ddr = poc.frame_ddr
    BY <2>1, SwitchresFields
  <2> QED BY <1>1, <1>3, <1>4, <2>1, <2>2 DEF OpensNothing
<1>5. CASE \/ IsRepeat(p) /\ s = <<>>
           \/ \E total \in FrameSizes :
                 IsFrame(p, total) /\ Streaming(s, "frame", frame, total, 0)
  <2>1. Blit(p) /\ p.frame = frame /\ (Duplicate(p) <=> IsRepeat(p))
    BY <1>5, BlitHandled
  <2>2. /\ SameServer /\ pc' = "poll" /\ poc' \in PocType
        /\ poc'.pixels_len = poc.pixels_len /\ poc'.FB_progressive = poc.FB_progressive
        /\ poc'.bytes_lz4_len = BlitSize(p) /\ poc'.frame_recv = p.frame
        /\ poc'.frame_ddr = IF hpsBlit = 0 \/ Duplicate(p) THEN p.frame ELSE poc.frame_ddr
        /\ poc'.bytes_recv = IF Duplicate(p) THEN poc.bytes_len ELSE 0
        /\ isBlitting' = IF Duplicate(p) THEN 0 ELSE 1
    BY <2>1, BlitFields
  <2>3. p.cmd = "BLIT_FIELD_VSYNC"
    BY <1>5 DEF IsRepeat, IsFrame
  <2>4. /\ poc'.frame_ddr <= poc'.frame_recv /\ poc'.frame_recv <= frame
        /\ isBlitting' = 1 /\ hpsBlit # 0 => poc'.frame_ddr < poc'.frame_recv
    BY <1>1, <1>2, <2>1, <2>2, <2>3
  <2>5. CASE IsRepeat(p) /\ s = <<>>
    <3>1. OpensNothing(p, s)
      BY <2>1, <2>2, <2>5 DEF OpensNothing
    <3> QED BY <1>1, <1>3, <2>2, <2>4, <3>1
  <2>6. ASSUME NEW total \in FrameSizes, IsFrame(p, total),
               Streaming(s, "frame", frame, total, 0)
        PROVE  OpensFrame(p, s, total)
    <3>1. ~IsRepeat(p)
      BY <2>6 DEF IsRepeat, IsFrame
    <3>2. blitCompression # 0 => BlitSize(p) = total /\ total \in Sizes
      BY <2>6 DEF IsFrame, BlitSize, FrameBytes
    <3> QED BY <2>1, <2>2, <2>6, <3>1, <3>2 DEF OpensFrame
  <2>7. CASE \E total \in FrameSizes :
                IsFrame(p, total) /\ Streaming(s, "frame", frame, total, 0)
    BY <1>1, <1>3, <2>2, <2>4, <2>6, <2>7
  <2> QED BY <1>5, <2>5, <2>7
<1>6. CASE \E total \in Sounds : IsSound(p, total) /\ Streaming(s, "sound", 0, total, 0)
  <2>1. PICK total \in Sounds : IsSound(p, total) /\ Streaming(s, "sound", 0, total, 0)
    BY <1>6
  <2>2. Audio(p) /\ p.size = total
    BY <2>1, SoundHandled
  <2>3. /\ SameServer /\ pc' = "poll" /\ isBlitting' = 2 /\ poc' \in PocType
        /\ poc'.pixels_len = poc.pixels_len /\ poc'.FB_progressive = poc.FB_progressive
        /\ poc'.frame_recv = poc.frame_recv /\ poc'.frame_ddr = poc.frame_ddr
        /\ poc'.bytes_audio_len = p.size /\ poc'.bytes_recv = 0
    BY <2>2, AudioFields
  <2>4. OpensSound(p, s, total)
    BY <2>1, <2>2, <2>3 DEF OpensSound
  <2> QED BY <1>1, <1>3, <2>3, <2>4
<1> QED BY <1>4, <1>5, <1>6 DEF Announces

(* The step that handles a command of the client as one. *)
CommandTaken(p) ==
  /\ HandleCommand(p) /\ ToCome(p) /\ Announces(p, net') /\ net' \in Seq(MessageType)
  /\ UNCHANGED <<frame, mode, losses, clean>>
  /\ placed' = IF isBlitting' = 1 THEN <<>> ELSE placed

LEMMA CommandStep ==
  ASSUME RInv, RInv', StreamTypeOK, SessionOK, NumbersOK, SizesFit, NEW p, CommandTaken(p)
  PROVE  (StreamTypeOK /\ SessionOK /\ NumbersOK /\ CallOK /\ PayloadOK)'
<1> DEFINE s == net'
<1>1. /\ HandleCommand(p) /\ ToCome(p) /\ Announces(p, s) /\ s \in Seq(MessageType)
      /\ UNCHANGED <<frame, mode, losses, clean>>
      /\ placed' = IF isBlitting' = 1 THEN <<>> ELSE placed
  BY DEF CommandTaken
<1>2. /\ isBlitting = 0 /\ SameServer /\ pc' = "poll"
      /\ poc' \in PocType /\ poc'.FB_progressive = 1
      /\ poc'.frame_ddr <= poc'.frame_recv /\ poc'.frame_recv <= frame
      /\ isBlitting' = 1 /\ hpsBlit # 0 => poc'.frame_ddr < poc'.frame_recv
      /\ \/ OpensNothing(p, s)
         \/ \E total \in FrameSizes : OpensFrame(p, s, total)
         \/ \E total \in Sounds : OpensSound(p, s, total)
  BY <1>1, CommandEffect
<1>3. /\ groovyServer = 2 /\ poc \in PocType /\ rgbMode = 0 /\ audioChannels = 2
      /\ frame \in Nat /\ mode \in Modes /\ losses \in Nat /\ losses <= MaxLosses
      /\ clean \in BOOLEAN /\ placed \in Seq(Kinds \X Nat \X Nat)
      /\ poc.pixels_len \in Modes
  BY DEF StreamTypeOK, SessionOK
<1>4. StreamTypeOK'
  <2>1. placed' \in Seq(Kinds \X Nat \X Nat)
    BY <1>1, <1>3
  <2> QED BY <1>1, <1>2, <1>3, <2>1 DEF StreamTypeOK, SameServer
<1>5. \A q : ~ToCome(q)'
  <2>1. InFlight(s)
    BY <1>1, <1>3, AfterCommand
  <2>2. s # <<>> => Head(s).index # 0
    BY <1>1, <2>1, InFlightHead
  <2> QED BY <1>2, <2>2 DEF ToCome, AtHead, InBuf
<1>6. SessionOK'
  <2>1. CASE OpensNothing(p, s)
    BY <1>2, <1>3, <2>1 DEF OpensNothing, SessionOK
  <2>2. CASE \E total \in FrameSizes : OpensFrame(p, s, total)
    <3>1. 0 = 0 * ChunkLen /\ 0 \in Nat
      BY DEF ChunkLen
    <3> QED BY <1>2, <1>3, <2>2, <3>1 DEF OpensFrame, SessionOK, SameServer
  <2>3. CASE \E total \in Sounds : OpensSound(p, s, total)
    <3>1. 0 = 0 * ChunkLen /\ 0 \in Nat
      BY DEF ChunkLen
    <3> QED BY <1>2, <1>3, <2>3, <3>1 DEF OpensSound, SessionOK, SameServer
  <2> QED BY <1>2, <2>1, <2>2, <2>3
<1>7. NumbersOK'
  BY <1>1, <1>2, <1>5 DEF NumbersOK, SameServer
<1>8. CallOK'
  BY <1>5 DEF CallOK
<1>9. PayloadOK'
  <2>1. CASE OpensNothing(p, s)
    BY <2>1 DEF OpensNothing, PayloadOK
  <2>2. CASE \E total \in FrameSizes : OpensFrame(p, s, total)
    <3>1. PICK total \in FrameSizes : OpensFrame(p, s, total)
      BY <2>2
    <3>2. total \in FrameBytes /\ total \in FrameBytes'
      BY <1>1, <1>2, <3>1 DEF OpensFrame, IsFrame, FrameBytes, SameServer, Bpp
    <3>3. PayloadLength' = total \/ ~Agreed'
      <4>1. /\ poc' # NoPoc /\ poc'.bytes_len = poc'.pixels_len * Bpp(rgbMode')
            /\ isBlitting' = 1 /\ blitCompression' = blitCompression /\ rgbMode' = 0
            /\ mode' = mode
        BY <1>1, <1>2, <1>3, <3>1, NoPocAssumption DEF RInv, WholePixels, OpensFrame, SameServer
      <4>2. CASE blitCompression # 0
        BY <3>1, <4>1, <4>2 DEF OpensFrame, PayloadLength
      <4>3. CASE blitCompression = 0
        <5>1. total = mode * Bpp(rgbMode)
          BY <3>2, <4>3 DEF FrameBytes
        <5> QED BY <1>3, <4>1, <4>3, <5>1 DEF Agreed, PayloadLength
      <4> QED BY <4>2, <4>3
    <3>4. poc'.bytes_recv = 0 * ChunkLen /\ Len(placed') = 0 /\ isBlitting' = 1
          /\ PlacedIsFrame(frame)' /\ poc'.frame_recv = frame' /\ frame' = frame
      BY <1>1, <3>1 DEF OpensFrame, ChunkLen, PlacedIsFrame
    <3>5. Agreed' => FrameProgress(total, 0)'
      BY <3>3, <3>4 DEF FrameProgress
    <3>6. Streaming(net', "frame", frame', total, 0)
      BY <3>1, <3>4 DEF OpensFrame
    <3>7. FrameOnItsWay'
      BY <3>2, <3>5, <3>6, Zero DEF FrameOnItsWay
    <3> QED BY <3>7 DEF PayloadOK
  <2>3. CASE \E total \in Sounds : OpensSound(p, s, total)
    <3>1. PICK total \in Sounds : OpensSound(p, s, total)
      BY <2>3
    <3>2. SoundProgress(total, 0)' /\ Streaming(net', "sound", 0, total, 0)
      BY <3>1 DEF OpensSound, SoundProgress, ChunkLen
    <3>3. SoundOnItsWay'
      BY <3>2, Zero DEF SoundOnItsWay
    <3> QED BY <3>3 DEF PayloadOK
  <2> QED BY <1>2, <2>1, <2>2, <2>3
<1> QED BY <1>4, <1>6, <1>7, <1>8, <1>9

-----------------------------------------------------------------------------
(* The calls of the client *)

LEMMA BlankFields ==
  /\ Blank \in PacketType /\ Blank.timing /\ Blank.interlace = 0
  BY DEF Blank, PacketType, Uint8

LEMMA ModeMessage ==
  ASSUME NEW px \in Nat
  PROVE  LET m == Message("mode", 0, 0, [Blank EXCEPT !.cmd = "SWITCHRES", !.len = 26, !.px = px])
         IN  /\ m \in MessageType /\ m.index = 0
             /\ m.p.cmd = "SWITCHRES" /\ m.p.len = 26 /\ m.p.px = px
             /\ m.p.timing /\ m.p.interlace = 0
<1> DEFINE q == [Blank EXCEPT !.cmd = "SWITCHRES", !.len = 26, !.px = px]
           m == Message("mode", 0, 0, q)
<1>1. "SWITCHRES" \in Commands \union {"unknown"} /\ 26 \in Nat \ {0}
  BY DEF Commands
<1>2. /\ q \in PacketType /\ q.cmd = "SWITCHRES" /\ q.len = 26 /\ q.px = px
      /\ q.timing = Blank.timing /\ q.interlace = Blank.interlace
  BY <1>1, BlankFields, Zenon DEF PacketType
<1> HIDE DEF q
<1>3. m \in MessageType /\ m.p = q /\ m.index = 0
  BY <1>2 DEF MessageType, Message, Kinds
<1> HIDE DEF m
<1>4. /\ m.p.timing /\ m.p.interlace = 0
  BY <1>2, <1>3, BlankFields
<1> QED BY <1>2, <1>3, <1>4 DEF m, q

FrameCommand(n, len, size) ==
  [Blank EXCEPT !.cmd = "BLIT_FIELD_VSYNC", !.frame = n, !.len = len, !.size = size]

LEMMA FrameMessage ==
  ASSUME NEW n \in Nat, NEW size \in Nat, NEW len \in {8, 12}
  PROVE  LET m == Message("frame", n, 0, FrameCommand(n, len, size))
         IN  /\ m \in MessageType /\ m.index = 0
             /\ m.p.cmd = "BLIT_FIELD_VSYNC" /\ m.p.frame = n /\ m.p.len = len /\ m.p.size = size
<1> DEFINE q == FrameCommand(n, len, size)
           m == Message("frame", n, 0, q)
<1>1. "BLIT_FIELD_VSYNC" \in Commands \union {"unknown"} /\ len \in Nat \ {0}
  BY DEF Commands
<1>2. /\ q \in PacketType /\ q.cmd = "BLIT_FIELD_VSYNC" /\ q.frame = n /\ q.len = len
      /\ q.size = size
  BY <1>1, BlankFields, Zenon DEF PacketType, FrameCommand
<1> HIDE DEF q
<1>3. m \in MessageType /\ m.p = q /\ m.index = 0
  BY <1>2 DEF MessageType, Message, Kinds
<1> HIDE DEF m
<1> QED BY <1>2, <1>3 DEF m, q

LEMMA RepeatMessage ==
  ASSUME NEW n \in Nat
  PROVE  LET m == Message("frame", n, 0, [Blank EXCEPT !.cmd = "BLIT_FIELD_VSYNC", !.frame = n,
                                            !.len = 9, !.delta = 1])
         IN  /\ m \in MessageType /\ m.index = 0
             /\ m.p.cmd = "BLIT_FIELD_VSYNC" /\ m.p.frame = n /\ m.p.len = 9 /\ m.p.delta = 1
<1> DEFINE q == [Blank EXCEPT !.cmd = "BLIT_FIELD_VSYNC", !.frame = n, !.len = 9, !.delta = 1]
           m == Message("frame", n, 0, q)
<1>1. /\ "BLIT_FIELD_VSYNC" \in Commands \union {"unknown"} /\ 9 \in Nat \ {0}
      /\ 1 \in Uint8
  BY DEF Commands, Uint8
<1>2. /\ q \in PacketType /\ q.cmd = "BLIT_FIELD_VSYNC" /\ q.frame = n /\ q.len = 9
      /\ q.delta = 1
  BY <1>1, BlankFields, Zenon DEF PacketType
<1> HIDE DEF q
<1>3. m \in MessageType /\ m.p = q /\ m.index = 0
  BY <1>2 DEF MessageType, Message, Kinds
<1> HIDE DEF m
<1> QED BY <1>2, <1>3 DEF m, q

LEMMA SoundMessage ==
  ASSUME NEW size \in Nat
  PROVE  LET m == Message("sound", 0, 0, [Blank EXCEPT !.cmd = "AUDIO", !.len = 3, !.size = size])
         IN  /\ m \in MessageType /\ m.index = 0
             /\ m.p.cmd = "AUDIO" /\ m.p.len = 3 /\ m.p.size = size
<1> DEFINE q == [Blank EXCEPT !.cmd = "AUDIO", !.len = 3, !.size = size]
           m == Message("sound", 0, 0, q)
<1>1. "AUDIO" \in Commands \union {"unknown"} /\ 3 \in Nat \ {0}
  BY DEF Commands
<1>2. q \in PacketType /\ q.cmd = "AUDIO" /\ q.len = 3 /\ q.size = size
  BY <1>1, BlankFields, Zenon DEF PacketType
<1> HIDE DEF q
<1>3. m \in MessageType /\ m.p = q /\ m.index = 0
  BY <1>2 DEF MessageType, Message, Kinds
<1> HIDE DEF m
<1> QED BY <1>2, <1>3 DEF m, q

(* What a call puts on the network: a command that announces what follows it. *)
LEMMA CallMade ==
  ASSUME StreamTypeOK, Switch \/ Frame \/ Sound
  PROVE  /\ net = <<>> /\ pc = "poll" /\ UNCHANGED <<vars, losses, placed>>
         /\ net' \in Seq(MessageType) /\ net' # <<>> /\ Head(net').index = 0
         /\ Announces(Head(net).p, Tail(net))'
         /\ mode' \in Modes /\ frame' \in Nat /\ frame <= frame' /\ clean' = TRUE
         /\ Head(net').p.cmd = "BLIT_FIELD_VSYNC" => frame < frame'
         /\ mode' = mode \/ IsMode(Head(net).p)'
<1>1. /\ frame \in Nat /\ mode \in Modes /\ rgbMode = 0
  BY DEF StreamTypeOK
<1>2. CASE Switch
  <2>1. PICK px \in Modes \ {mode} : Call(CallSwitchres(px)) /\ mode' = px /\ UNCHANGED frame
    BY <1>2 DEF Switch
  <2>0. PICK m : m = Message("mode", 0, 0, [Blank EXCEPT !.cmd = "SWITCHRES", !.len = 26,
                                                        !.px = px])
    OBVIOUS
  <2>2. px \in Nat
    BY StreamConstants
  <2>3. /\ m \in MessageType /\ m.index = 0
        /\ m.p.cmd = "SWITCHRES" /\ m.p.len = 26 /\ m.p.px = px
        /\ m.p.timing /\ m.p.interlace = 0
    BY <2>0, <2>2, ModeMessage
  <2>4. /\ net = <<>> /\ pc = "poll" /\ UNCHANGED <<vars, losses, placed>> /\ clean' = TRUE
        /\ net' = <<m>>
    BY <2>0, <2>1 DEF Call, CallSwitchres
  <2>5. net' \in Seq(MessageType) /\ net' # <<>> /\ Head(net') = m /\ Tail(net') = <<>>
    BY <2>3, <2>4
  <2>6. IsMode(m.p)'
    BY <2>1, <2>3 DEF IsMode
  <2>7. Announces(m.p, <<>>)'
    BY <2>6 DEF Announces
  <2> QED BY <1>1, <2>1, <2>3, <2>4, <2>5, <2>6, <2>7
<1>3. CASE Frame
  <2>1. /\ frame' = frame + 1 /\ mode' = mode
        /\ \/ \E total \in FrameBytes : Call(CallBlit(frame + 1, total, blitCompression))
           \/ blitCompression = 0 /\ Call(CallRepeat(frame + 1))
    BY <1>3 DEF Frame
  <2>2. frame + 1 \in Nat
    BY <1>1
  <2>3. ASSUME NEW total \in FrameBytes, Call(CallBlit(frame + 1, total, blitCompression))
        PROVE  /\ net = <<>> /\ pc = "poll" /\ UNCHANGED <<vars, losses, placed>>
               /\ clean' = TRUE /\ net' \in Seq(MessageType) /\ net' # <<>>
               /\ Head(net').index = 0 /\ Announces(Head(net).p, Tail(net))'
    <3>0. PICK len, size, m, n :
            /\ len  = IF blitCompression = 0 THEN 8 ELSE 12
            /\ size = IF blitCompression = 0 THEN 0 ELSE total
            /\ n = frame + 1
            /\ m = Message("frame", n, 0, FrameCommand(n, len, size))
      OBVIOUS
    <3>1. total \in FrameSizes
      BY <1>1, PayloadSizes DEF FrameBytes
    <3>2. total \in Nat \ {0} /\ len \in {8, 12} /\ size \in Nat /\ n \in Nat
      BY <2>2, <3>0, <3>1, PayloadSizes
    <3>3. /\ m \in MessageType /\ m.index = 0 /\ m.p.cmd = "BLIT_FIELD_VSYNC"
          /\ m.p.frame = n /\ m.p.len = len /\ m.p.size = size
      BY <3>0, <3>2, FrameMessage
    <3>4. /\ net = <<>> /\ pc = "poll" /\ UNCHANGED <<vars, losses, placed>> /\ clean' = TRUE
          /\ net' = <<m>> \o SendStream("frame", n, total)
      BY <2>3, <3>0 DEF Call, CallBlit, FrameCommand
    <3>5. /\ net' \in Seq(MessageType) /\ net' # <<>> /\ Head(net') = m
          /\ Streaming(Tail(net'), "frame", n, total, 0)
      <4>1. "frame" \in Kinds
        BY DEF Kinds
      <4> QED BY <3>2, <3>3, <3>4, <4>1, CallStream
    <3>6. blitCompression' = blitCompression /\ rgbMode' = rgbMode
      BY <3>4 DEF vars, session
    <3>7. IsFrame(m.p, total)'
      BY <2>1, <2>3, <3>0, <3>3, <3>6 DEF IsFrame, FrameBytes, Bpp
    <3>8. Announces(m.p, Tail(net))'
      BY <2>1, <3>0, <3>1, <3>5, <3>7 DEF Announces
    <3> QED BY <3>3, <3>4, <3>5, <3>8
  <2>4. ASSUME blitCompression = 0, Call(CallRepeat(frame + 1))
        PROVE  /\ net = <<>> /\ pc = "poll" /\ UNCHANGED <<vars, losses, placed>>
               /\ clean' = TRUE /\ net' \in Seq(MessageType) /\ net' # <<>>
               /\ Head(net').index = 0 /\ Announces(Head(net).p, Tail(net))'
    <3>0. PICK m, n :
            /\ n = frame + 1
            /\ m = Message("frame", n, 0, [Blank EXCEPT !.cmd = "BLIT_FIELD_VSYNC",
                                             !.frame = n, !.len = 9, !.delta = 1])
      OBVIOUS
    <3>1. /\ m \in MessageType /\ m.index = 0 /\ m.p.cmd = "BLIT_FIELD_VSYNC"
          /\ m.p.frame = n /\ m.p.len = 9 /\ m.p.delta = 1
      BY <2>2, <3>0, RepeatMessage
    <3>2. /\ net = <<>> /\ pc = "poll" /\ UNCHANGED <<vars, losses, placed>> /\ clean' = TRUE
          /\ net' = <<m>>
      BY <2>4, <3>0 DEF Call, CallRepeat
    <3>3. net' \in Seq(MessageType) /\ net' # <<>> /\ Head(net') = m /\ Tail(net') = <<>>
      BY <3>1, <3>2
    <3>4. blitCompression' = 0
      BY <2>4, <3>2 DEF vars, session
    <3>5. IsRepeat(m.p)'
      BY <2>1, <3>0, <3>1, <3>4 DEF IsRepeat
    <3>6. Announces(m.p, <<>>)'
      BY <3>5 DEF Announces
    <3> QED BY <3>1, <3>2, <3>3, <3>6
  <2>5. /\ net = <<>> /\ pc = "poll" /\ UNCHANGED <<vars, losses, placed>>
        /\ clean' = TRUE /\ net' \in Seq(MessageType) /\ net' # <<>>
        /\ Head(net').index = 0 /\ Announces(Head(net).p, Tail(net))'
    BY <2>1, <2>3, <2>4
  <2> QED BY <1>1, <2>1, <2>5
<1>4. CASE Sound
  <2>1. PICK size \in Sounds : Call(CallAudio(size)) /\ UNCHANGED <<frame, mode>>
    BY <1>4 DEF Sound
  <2>0. PICK m : m = Message("sound", 0, 0, [Blank EXCEPT !.cmd = "AUDIO", !.len = 3,
                                                         !.size = size])
    OBVIOUS
  <2>2. size \in Nat \ {0}
    BY StreamConstants
  <2>3. m \in MessageType /\ m.index = 0 /\ m.p.cmd = "AUDIO" /\ m.p.len = 3 /\ m.p.size = size
    BY <2>0, <2>2, SoundMessage
  <2>4. /\ net = <<>> /\ pc = "poll" /\ UNCHANGED <<vars, losses, placed>> /\ clean' = TRUE
        /\ net' = <<m>> \o SendStream("sound", 0, size)
    BY <2>0, <2>1 DEF Call, CallAudio
  <2>5. /\ net' \in Seq(MessageType) /\ net' # <<>> /\ Head(net') = m
        /\ Streaming(Tail(net'), "sound", 0, size, 0)
    <3>1. "sound" \in Kinds
      BY DEF Kinds
    <3> QED BY <2>2, <2>3, <2>4, <3>1, Zero, CallStream
  <2>6. IsSound(m.p, size)
    BY <2>1, <2>3 DEF IsSound
  <2>7. Announces(m.p, Tail(net))'
    BY <2>5, <2>6 DEF Announces, IsSound
  <2>8. Head(net').p.cmd # "BLIT_FIELD_VSYNC"
    BY <2>3, <2>5
  <2> QED BY <1>1, <2>1, <2>3, <2>4, <2>5, <2>7, <2>8
<1> QED BY <1>2, <1>3, <1>4

-----------------------------------------------------------------------------
(* The steps, one by one *)

LEMMA ServerStep ==
  ASSUME RInv, [StreamNext]_streamVars
  PROVE  RInv'
<1>1. [Next]_vars
  <2>1. CASE StreamNext
    BY <2>1, StreamIsServer
  <2>2. CASE UNCHANGED streamVars
    BY <2>2 DEF streamVars
  <2> QED BY <2>1, <2>2
<1> QED BY <1>1, RInvStep

LEMMA CallStep ==
  ASSUME CleanInv, Switch \/ Frame \/ Sound
  PROVE  CleanInv'
<1>1. /\ RInv /\ StreamTypeOK /\ SessionOK /\ NumbersOK
  BY DEF CleanInv
<1>2. /\ net = <<>> /\ pc = "poll" /\ UNCHANGED <<vars, losses, placed>>
      /\ net' \in Seq(MessageType) /\ net' # <<>> /\ Head(net').index = 0
      /\ Announces(Head(net).p, Tail(net))'
      /\ mode' \in Modes /\ frame' \in Nat /\ frame <= frame' /\ clean' = TRUE
      /\ Head(net').p.cmd = "BLIT_FIELD_VSYNC" => frame < frame'
  BY <1>1, CallMade
<1>3. UNCHANGED <<groovyServer, hpsBlit, poc, blitCompression, audioChannels, rgbMode,
                  isBlitting, pc, recvbuf>>
  BY <1>2 DEF vars, setup, session, blit
<1>4. RInv'
  BY <1>1, ServerStep DEF StreamNext
<1>5. StreamTypeOK'
  BY <1>1, <1>2, <1>3 DEF StreamTypeOK
<1>6. SessionOK'
  BY <1>1, <1>3 DEF SessionOK
<1>7. \A q : ToCome(q)' => q = Head(net').p
  BY <1>2, <1>3 DEF ToCome, AtHead, InBuf
<1>8. NumbersOK'
  <2>1. poc.frame_recv \in Nat /\ frame \in Nat
    BY <1>1 DEF StreamTypeOK, PocType
  <2>2. /\ poc.frame_ddr <= poc.frame_recv /\ poc.frame_recv <= frame
        /\ isBlitting = 1 /\ hpsBlit # 0 => poc.frame_ddr < poc.frame_recv
    BY <1>1 DEF NumbersOK
  <2>3. ASSUME NEW q, ToCome(q)', q.cmd = "BLIT_FIELD_VSYNC" PROVE poc'.frame_recv < frame'
    <3>1. frame < frame'
      BY <1>2, <1>7, <2>3
    <3> QED BY <1>2, <1>3, <2>1, <2>2, <3>1
  <2> QED BY <1>2, <1>3, <2>1, <2>2, <2>3 DEF NumbersOK
<1>9. CallOK'
  <2>1. After' = Tail(net')
    BY <1>2, <1>3 DEF After
  <2> QED BY <1>2, <1>7, <2>1 DEF CallOK
<1>10. PayloadOK'
  BY <1>2 DEF PayloadOK
<1> QED BY <1>4, <1>5, <1>6, <1>8, <1>9, <1>10 DEF CleanInv

LEMMA LoseStep ==
  ASSUME CleanInv, Lose
  PROVE  CleanInv' /\ (\A q : ~ToCome(q)') /\ InFlight(net')
<1>1. /\ RInv /\ StreamTypeOK /\ SessionOK /\ NumbersOK /\ CallOK /\ PayloadOK
  BY DEF CleanInv
<1>2. /\ net # <<>> /\ pc = "poll" /\ losses < MaxLosses
      /\ net' = Tail(net) /\ losses' = losses + 1 /\ clean' = FALSE
      /\ UNCHANGED <<vars, frame, mode, placed>>
  BY DEF Lose
<1>3. UNCHANGED <<groovyServer, hpsBlit, poc, blitCompression, audioChannels, rgbMode,
                  isBlitting, pc, recvbuf>>
  BY <1>2 DEF vars, setup, session, blit
<1>4. RInv'
  BY <1>1, ServerStep DEF StreamNext
<1>5. /\ IF Head(net).index = 0 THEN Announces(Head(net).p, Tail(net)) ELSE InFlight(net)
      /\ InFlight(Tail(net)) /\ Tail(net) \in Seq(MessageType) /\ Head(net) \in MessageType
  BY <1>1, <1>2, OnTheNet
<1>6. StreamTypeOK'
  <2>1. losses' \in Nat /\ losses' <= MaxLosses
    BY <1>1, <1>2, StreamConstants DEF StreamTypeOK
  <2>2. clean' \in BOOLEAN
    BY <1>2
  <2>3. net' \in Seq(MessageType)
    BY <1>2, <1>5
  <2> QED BY <1>1, <1>2, <1>3, <2>1, <2>2, <2>3, Zenon DEF StreamTypeOK
<1>7. SessionOK'
  BY <1>1, <1>3 DEF SessionOK
<1>8. \A q : ~ToCome(q)'
  <2>1. net' # <<>> => Head(net').index # 0
    BY <1>2, <1>5, InFlightHead
  <2> QED BY <1>2, <1>3, <2>1 DEF ToCome, AtHead, InBuf
<1>9. NumbersOK'
  BY <1>1, <1>2, <1>3, <1>8 DEF NumbersOK
<1>10. CallOK'
  BY <1>8 DEF CallOK
<1>11. FrameBytes' = FrameBytes
  BY <1>2, <1>3 DEF FrameBytes, Bpp
<1>12. ASSUME NEW total \in FrameSizes, NEW j \in Nat, total \in FrameBytes,
              Streaming(net', "frame", frame, total, j)
       PROVE  FrameOnItsWay'
  BY <1>2, <1>11, <1>12 DEF FrameOnItsWay
<1>13. ASSUME NEW total \in Sounds, NEW j \in Nat, Streaming(net', "sound", 0, total, j)
       PROVE  SoundOnItsWay'
  BY <1>2, <1>13 DEF SoundOnItsWay
<1>14. PayloadOK'
  <2> SUFFICES ASSUME net' # <<>> PROVE FrameOnItsWay' \/ SoundOnItsWay'
    BY DEF PayloadOK
  <2>1. CASE Head(net).index = 0
    <3>1. Announces(Head(net).p, net')
      BY <1>2, <1>5, <2>1
    <3>2. CASE \E total \in FrameSizes : /\ IsFrame(Head(net).p, total)
                                         /\ Streaming(net', "frame", frame, total, 0)
      BY <1>12, <3>2, Zero DEF IsFrame
    <3>3. CASE \E total \in Sounds : /\ IsSound(Head(net).p, total)
                                     /\ Streaming(net', "sound", 0, total, 0)
      BY <1>13, <3>3, Zero
    <3> QED BY <3>1, <3>2, <3>3 DEF Announces
  <2>2. CASE Head(net).index # 0
    <3>1. FrameOnItsWay \/ SoundOnItsWay
      BY <1>1, <1>2, <2>2 DEF PayloadOK
    <3>2. net \in Seq(MessageType)
      BY <1>1 DEF StreamTypeOK
    <3>3. CASE FrameOnItsWay
      <4>1. PICK total \in FrameSizes, j \in Nat :
              Streaming(net, "frame", frame, total, j) /\ total \in FrameBytes
        BY <3>3 DEF FrameOnItsWay
      <4>2. total \in Nat \ {0} /\ j + 1 \in Nat
        BY PayloadSizes
      <4>3. Streaming(net', "frame", frame, total, j + 1)
        BY <1>2, <3>2, <4>1, <4>2, StreamHead
      <4> QED BY <1>12, <4>1, <4>2, <4>3
    <3>4. CASE SoundOnItsWay
      <4>1. PICK total \in Sounds, j \in Nat : Streaming(net, "sound", 0, total, j)
        BY <3>4 DEF SoundOnItsWay
      <4>2. total \in Nat \ {0} /\ j + 1 \in Nat
        BY StreamConstants
      <4>3. Streaming(net', "sound", 0, total, j + 1)
        BY <1>2, <3>2, <4>1, <4>2, StreamHead
      <4> QED BY <1>13, <4>1, <4>2, <4>3
    <3> QED BY <3>1, <3>3, <3>4
  <2> QED BY <2>1, <2>2
<1> QED BY <1>2, <1>4, <1>5, <1>6, <1>7, <1>8, <1>9, <1>10, <1>14 DEF CleanInv

LEMMA Delivered ==
  ASSUME RInv, StreamTypeOK, CallOK, PayloadOK, Deliver
  PROVE  LET m == Head(net)
             p == m.p
         IN  /\ net # <<>> /\ pc = "poll" /\ net' = Tail(net) /\ net \in Seq(MessageType)
             /\ UNCHANGED <<frame, mode, losses, clean>>
             /\ m \in MessageType /\ InFlight(net') /\ net' \in Seq(MessageType)
             /\ IF m.index = 0 THEN Announces(p, net') /\ ToCome(p) ELSE p.cmd = "unknown"
             /\ isBlitting = 0 => /\ HandleCommand(p)
                                  /\ placed' = IF isBlitting' = 1 THEN <<>> ELSE placed
             /\ isBlitting # 0 =>
                  /\ HandlePayload(p)
                  /\ placed' = IF isBlitting = 1 /\ PayloadBoundsValid(p.len)
                               THEN Append(placed, <<m.kind, m.of, m.index>>) ELSE placed
<1> DEFINE m == Head(net)
           p == m.p
<1>1. /\ net # <<>> /\ pc = "poll" /\ net' = Tail(net)
      /\ HandleCommand(p) \/ HandlePayload(p)
      /\ Place(m)
      /\ UNCHANGED <<frame, mode, losses, clean>>
  BY DEF Deliver
<1>2. /\ IF m.index = 0 THEN Announces(p, Tail(net)) ELSE InFlight(net)
      /\ InFlight(Tail(net)) /\ Tail(net) \in Seq(MessageType) /\ m \in MessageType
      /\ net \in Seq(MessageType)
  BY <1>1, OnTheNet DEF StreamTypeOK
<1>3. m.index # 0 => p.cmd = "unknown"
  BY <1>1, <1>2, InFlightHead
<1>4. m.index = 0 => ToCome(p)
  BY <1>1 DEF ToCome, AtHead
<1>5. HandleCommand(p) => isBlitting = 0
  BY HandledAtRest
<1>6. HandlePayload(p) => isBlitting # 0
  BY HandledIsPayload DEF Payload
<1> HIDE DEF p, m
<1>7. isBlitting = 0 => /\ HandleCommand(p)
                        /\ placed' = IF isBlitting' = 1 THEN <<>> ELSE placed
  BY <1>1, <1>6 DEF Place
<1>8. isBlitting # 0 =>
        /\ HandlePayload(p)
        /\ placed' = IF isBlitting = 1 /\ PayloadBoundsValid(p.len)
                     THEN Append(placed, <<m.kind, m.of, m.index>>) ELSE placed
  BY <1>1, <1>5 DEF Place, p
<1> QED BY <1>1, <1>2, <1>3, <1>4, <1>7, <1>8 DEF m, p

LEMMA SamePayload ==
  ASSUME RInv, RInv', SameServer, SameFrame(poc), poc \in PocType, poc' \in PocType,
         isBlitting' = isBlitting
  PROVE  PayloadLength' = PayloadLength
<1>1. poc # NoPoc /\ poc' # NoPoc
  BY NoPocAssumption
<1>2. /\ poc.bytes_len = poc.pixels_len * Bpp(rgbMode)
      /\ poc'.bytes_len = poc'.pixels_len * Bpp(rgbMode')
  BY <1>1 DEF RInv, WholePixels
<1>3. poc'.bytes_len = poc.bytes_len
  BY <1>2 DEF SameServer, SameFrame
<1> QED BY <1>1, <1>3 DEF SameServer, SameFrame, PayloadLength

(* A command that comes while nothing is received, or that ended a reception. *)
LEMMA CommandDelivered ==
  ASSUME CleanInv, Deliver, isBlitting = 0, Head(net).index = 0
  PROVE  CommandTaken(Head(net).p)
  BY Delivered DEF CleanInv, CommandTaken

LEMMA CommandRedispatched ==
  ASSUME CleanInv, Redispatch
  PROVE  CommandTaken(recvbuf)
<1>1. /\ pc = "reconfig" /\ HandleCommand(recvbuf)
      /\ placed' = IF isBlitting' = 1 THEN <<>> ELSE placed
      /\ UNCHANGED <<net, frame, mode, losses, clean>>
  BY DEF Redispatch, client
<1>2. Announces(recvbuf, net) /\ net \in Seq(MessageType)
  BY <1>1, InTheBuffer DEF CleanInv, StreamTypeOK
<1>3. ToCome(recvbuf)
  BY <1>1 DEF ToCome, InBuf
<1> QED BY <1>1, <1>2, <1>3 DEF CommandTaken

(* A command that comes during a reception. *)
LEMMA CommandLoses ==
  ASSUME CleanInv, LongRests, Deliver, isBlitting # 0, Head(net).index = 0
  PROVE  /\ LosePayload(Head(net).p) /\ isBlitting' = 0 /\ pc' = "reconfig"
         /\ recvbuf' = Head(net).p /\ SameServer /\ SameFrame(poc)
         /\ poc' \in PocType /\ poc'.frame_ddr \in {poc.frame_ddr, poc.frame_recv}
         /\ isBlitting = 1 => ~HeaderComplete'
<1>1. /\ RInv /\ StreamTypeOK /\ SessionOK /\ NumbersOK /\ CallOK /\ PayloadOK
  BY DEF CleanInv
<1>2. HandlePayload(Head(net).p) /\ Announces(Head(net).p, net')
  BY <1>1, Delivered
<1>3. Head(net).p.len <= MaxCommandLen
  <2>1. Head(net).p.len \in {26, 9, 8, 12, 3}
    BY <1>2 DEF Announces, IsMode, IsRepeat, IsFrame, IsSound
  <2> QED BY <2>1 DEF MaxCommandLen
<1>4. LosePayload(Head(net).p) /\ LooksLikeCommand(Head(net).p)
  BY <1>1, <1>2, <1>3, CommandIsLoss
<1>5. Deferred
  BY <1>1 DEF NumbersOK, Deferred
<1> QED BY <1>1, <1>4, <1>5, LoseFields

LEMMA CommandLosesStep ==
  ASSUME CleanInv, LongRests, Deliver, isBlitting # 0, Head(net).index = 0
  PROVE  CleanInv' /\ \A q : ToCome(q) => ToCome(q)'
<1> DEFINE p == Head(net).p
<1>1. /\ RInv /\ StreamTypeOK /\ SessionOK /\ NumbersOK /\ CallOK /\ PayloadOK
  BY DEF CleanInv
<1>2. /\ isBlitting' = 0 /\ pc' = "reconfig" /\ recvbuf' = p /\ SameServer /\ SameFrame(poc)
      /\ poc' \in PocType /\ poc'.frame_ddr \in {poc.frame_ddr, poc.frame_recv}
  BY CommandLoses
<1>3. /\ net' = Tail(net) /\ UNCHANGED <<frame, mode, losses, clean>>
      /\ net' \in Seq(MessageType) /\ Announces(p, net') /\ ToCome(p)
      /\ Head(net) \in MessageType
      /\ placed' = IF isBlitting = 1 /\ PayloadBoundsValid(p.len)
                   THEN Append(placed, <<Head(net).kind, Head(net).of, Head(net).index>>)
                   ELSE placed
  BY <1>1, Delivered
<1>4. RInv'
  BY <1>1, ServerStep DEF StreamNext
<1>5. StreamTypeOK'
  <2>1. placed' \in Seq(Kinds \X Nat \X Nat)
    <3>1. <<Head(net).kind, Head(net).of, Head(net).index>> \in Kinds \X Nat \X Nat
      BY <1>3 DEF MessageType
    <3>2. placed \in Seq(Kinds \X Nat \X Nat)
      BY <1>1 DEF StreamTypeOK
    <3> QED BY <1>3, <3>1, <3>2, AppendProperties
  <2> QED BY <1>1, <1>2, <1>3, <2>1 DEF StreamTypeOK, SameServer
<1>6. SessionOK'
  BY <1>1, <1>2 DEF SessionOK, SameFrame
<1>7. \A q : ToCome(q)' => q = p
  BY <1>2 DEF ToCome, AtHead, InBuf
<1>8. NumbersOK'
  <2>1. poc.frame_ddr \in Nat /\ poc.frame_recv \in Nat
    BY <1>1 DEF StreamTypeOK, PocType
  <2>2. /\ poc.frame_ddr <= poc.frame_recv /\ poc.frame_recv <= frame
        /\ p.cmd = "BLIT_FIELD_VSYNC" => poc.frame_recv < frame
    BY <1>1, <1>3 DEF NumbersOK
  <2>3. poc'.frame_recv = poc.frame_recv
    BY <1>2 DEF SameFrame
  <2> QED BY <1>2, <1>3, <1>7, <2>1, <2>2, <2>3 DEF NumbersOK
<1>9. CallOK'
  <2>1. After' = net'
    BY <1>2 DEF After
  <2>2. blitCompression' = blitCompression /\ rgbMode' = rgbMode
    BY <1>2 DEF SameServer
  <2>3. Announces(p, net') => (\A q : q = p => Announces(q, After)')
    BY <1>3, <2>1, <2>2 DEF Announces, IsMode, IsRepeat, IsFrame, IsSound, FrameBytes, Bpp
  <2> QED BY <1>3, <1>7, <2>3 DEF CallOK
<1>10. PayloadOK'
  BY <1>2 DEF PayloadOK
<1>11. \A q : ToCome(q) => ToCome(q)'
  BY <1>2, <1>3, OneToCome DEF ToCome, InBuf
<1> QED BY <1>4, <1>5, <1>6, <1>8, <1>9, <1>10, <1>11 DEF CleanInv

(* A payload datagram that comes when nothing is received is dropped. *)
LEMMA ChunkDropped ==
  ASSUME CleanInv, Deliver, isBlitting = 0, Head(net).index # 0
  PROVE  /\ pc' = "poll" /\ isBlitting' = 0 /\ poc' = poc /\ SameServer /\ placed' = placed
         /\ net' = Tail(net) /\ InFlight(net') /\ net' \in Seq(MessageType)
         /\ UNCHANGED <<frame, mode, losses, clean>>
<1>1. /\ net' = Tail(net) /\ InFlight(net') /\ net' \in Seq(MessageType)
      /\ UNCHANGED <<frame, mode, losses, clean>>
      /\ HandleCommand(Head(net).p) /\ Head(net).p.cmd = "unknown"
      /\ placed' = IF isBlitting' = 1 THEN <<>> ELSE placed
  BY Delivered DEF CleanInv
<1>2. pc' = "poll" /\ isBlitting' = isBlitting /\ poc' = poc /\ SameServer
  BY <1>1, UnknownHandled
<1> QED BY <1>1, <1>2

LEMMA PayloadGoesOn ==
  ASSUME CleanInv, net # <<>>, pc = "poll", Head(net).index # 0, net' = Tail(net),
         UNCHANGED <<frame, mode, clean, blitCompression, rgbMode>>,
         Agreed' => Agreed,
         \A total \in FrameSizes, j \in Nat :
            Streaming(net, "frame", frame, total, j) /\ total \in FrameBytes /\ clean /\ Agreed
              /\ FrameProgress(total, j) /\ net' # <<>>
            => FrameProgress(total, j + 1)',
         \A total \in Sounds, j \in Nat :
            Streaming(net, "sound", 0, total, j) /\ clean
              /\ SoundProgress(total, j) /\ net' # <<>>
            => SoundProgress(total, j + 1)'
  PROVE  PayloadOK'
<1> SUFFICES ASSUME net' # <<>> PROVE FrameOnItsWay' \/ SoundOnItsWay'
  BY DEF PayloadOK
<1>1. net \in Seq(MessageType) /\ (FrameOnItsWay \/ SoundOnItsWay)
  BY DEF CleanInv, StreamTypeOK, PayloadOK
<1>2. FrameBytes' = FrameBytes
  BY DEF FrameBytes, Bpp
<1>3. CASE FrameOnItsWay
  <2>1. PICK total \in FrameSizes, j \in Nat :
          /\ Streaming(net, "frame", frame, total, j) /\ total \in FrameBytes
          /\ clean /\ Agreed => FrameProgress(total, j)
    BY <1>3 DEF FrameOnItsWay
  <2>2. total \in Nat \ {0} /\ j + 1 \in Nat
    BY PayloadSizes
  <2>3. Streaming(net', "frame", frame, total, j + 1)
    BY <1>1, <2>1, <2>2, StreamHead
  <2>4. (clean /\ Agreed)' => FrameProgress(total, j + 1)'
    BY <2>1
  <2>5. Streaming(net, "frame", frame, total, j + 1)'
    BY <2>3 DEF Streaming
  <2>6. (total \in FrameBytes)'
    BY <1>2, <2>1
  <2> QED BY <2>2, <2>4, <2>5, <2>6 DEF FrameOnItsWay
<1>4. CASE SoundOnItsWay
  <2>1. PICK total \in Sounds, j \in Nat :
          /\ Streaming(net, "sound", 0, total, j)
          /\ clean => SoundProgress(total, j)
    BY <1>4 DEF SoundOnItsWay
  <2>2. total \in Nat \ {0} /\ j + 1 \in Nat
    BY StreamConstants
  <2>3. Streaming(net', "sound", 0, total, j + 1)
    BY <1>1, <2>1, <2>2, StreamHead DEF SoundOnItsWay
  <2>4. clean' => SoundProgress(total, j + 1)'
    BY <2>1
  <2> QED BY <2>2, <2>3, <2>4 DEF SoundOnItsWay
<1> QED BY <1>1, <1>3, <1>4

LEMMA ChunkDroppedStep ==
  ASSUME CleanInv, Deliver, isBlitting = 0, Head(net).index # 0
  PROVE  CleanInv'
<1>1. /\ RInv /\ StreamTypeOK /\ SessionOK /\ NumbersOK /\ CallOK /\ PayloadOK
  BY DEF CleanInv
<1>2. /\ pc' = "poll" /\ isBlitting' = 0 /\ poc' = poc /\ SameServer /\ placed' = placed
      /\ net' = Tail(net) /\ InFlight(net') /\ net' \in Seq(MessageType)
      /\ UNCHANGED <<frame, mode, losses, clean>>
  BY ChunkDropped
<1>3. RInv'
  BY <1>1, ServerStep DEF StreamNext
<1>4. StreamTypeOK'
  BY <1>1, <1>2 DEF StreamTypeOK, SameServer
<1>5. SessionOK'
  BY <1>1, <1>2 DEF SessionOK
<1>6. \A q : ~ToCome(q)'
  <2>1. net' # <<>> => Head(net').index # 0
    BY <1>2, InFlightHead
  <2> QED BY <1>2, <2>1 DEF ToCome, AtHead, InBuf
<1>7. NumbersOK'
  BY <1>1, <1>2, <1>6 DEF NumbersOK
<1>8. CallOK'
  BY <1>6 DEF CallOK
<1>9. PayloadOK'
  <2>1. net # <<>> /\ pc = "poll"
    BY DEF Deliver
  <2>2. UNCHANGED <<frame, mode, clean, blitCompression, rgbMode>>
    BY <1>2 DEF SameServer
  <2>3. Agreed' => Agreed
    BY <1>2 DEF Agreed, SameServer
  <2>4. \A total, j : ~FrameProgress(total, j) /\ ~SoundProgress(total, j)
    BY DEF FrameProgress, SoundProgress
  <2>5. \A total \in FrameSizes, j \in Nat :
           Streaming(net, "frame", frame, total, j) /\ total \in FrameBytes /\ clean /\ Agreed
             /\ FrameProgress(total, j) /\ net' # <<>>
           => FrameProgress(total, j + 1)'
    <3> TAKE total \in FrameSizes, j \in Nat
    <3> QED BY <2>4
  <2>6. \A total \in Sounds, j \in Nat :
           Streaming(net, "sound", 0, total, j) /\ clean
             /\ SoundProgress(total, j) /\ net' # <<>>
           => SoundProgress(total, j + 1)'
    <3> TAKE total \in Sounds, j \in Nat
    <3> QED BY <2>4
  <2> QED BY <1>2, <2>1, <2>2, <2>3, <2>5, <2>6, PayloadGoesOn, Zenon
<1> QED BY <1>3, <1>4, <1>5, <1>7, <1>8, <1>9 DEF CleanInv

(* A payload datagram that comes during a reception. *)
LEMMA ChunkOutcome ==
  ASSUME CleanInv, LongRests, Deliver, isBlitting # 0, Head(net).index # 0
  PROVE  LET m == Head(net)
         IN  /\ HandlePayload(m.p) /\ SameServer /\ pc' = "poll" /\ poc' \in PocType
             /\ SameFrame(poc) /\ poc'.frame_ddr \in {poc.frame_ddr, poc.frame_recv}
             /\ Receives(m.p) \/ (isBlitting' = 0 /\ (isBlitting = 1 => ~HeaderComplete'))
             /\ Receives(m.p) => PayloadBoundsValid(m.p.len)
             /\ isBlitting' # 0 =>
                  /\ Receives(m.p) /\ m.p.len = ChunkLen /\ isBlitting' = isBlitting
                  /\ poc'.bytes_recv = poc.bytes_recv + ChunkLen
                  /\ isBlitting = 1 /\ hpsBlit # 0 => poc'.frame_ddr = poc.frame_ddr
<1> DEFINE m == Head(net)
           p == m.p
<1>1. /\ RInv /\ StreamTypeOK /\ SessionOK /\ NumbersOK /\ CallOK /\ PayloadOK
  BY DEF CleanInv
<1>2. /\ net # <<>> /\ pc = "poll" /\ net \in Seq(MessageType) /\ HandlePayload(p)
  BY <1>1, Delivered
<1>3. InFlight(net)
  BY <1>1, <1>2, OnTheNet
<1>4. p.len \in Nat /\ p.len <= ChunkLen /\ ~LooksLikeCommand(p)
  <2>1. PICK kind \in {"frame", "sound"}, n \in Nat, total \in Payloads, j \in Nat :
          Streaming(net, kind, n, total, j)
    BY <1>2, <1>3 DEF InFlight
  <2>2. total \in Nat \ {0} /\ kind \in Kinds
    BY PayloadSizes DEF Kinds
  <2>3. j < Chunks(total) /\ p.len = LengthOf(total, j + 1)
    BY <1>2, <2>1, <2>2, StreamIsPayload
  <2>4. p.len > MaxCommandLen
    BY <2>3, ChunkIsNoCommand
  <2>5. p.len \in 1 .. ChunkLen
    BY <2>2, <2>3, ChunkLength
  <2>6. \A len \in 1 .. ChunkLen : len \in Nat /\ len <= ChunkLen
    BY DEF ChunkLen
  <2>7. p.len \in Nat /\ p.len <= ChunkLen
    BY <2>6, <2>5
  <2>8. ~LooksLikeCommand(p)
    BY <2>4, <2>7 DEF LooksLikeCommand, MaxCommandLen
  <2> QED BY <2>7, <2>8
<1>5. /\ p.len \in Nat \ {0}
      /\ RejectPayload(p) \/ LosePayload(p) \/ Receives(p)
  BY <1>1, <1>2, PayloadOutcome
<1>6. Deferred
  BY <1>1 DEF NumbersOK, Deferred
<1> HIDE DEF m
<1>7. CASE RejectPayload(p)
  <2>1. /\ SameServer /\ pc' = "poll" /\ isBlitting' = 0 /\ poc' = poc
        /\ isBlitting = 1 => ~HeaderComplete'
    BY <1>1, <1>6, <1>7, RejectFields
  <2>2. poc' \in PocType /\ SameFrame(poc) /\ poc'.frame_ddr = poc.frame_ddr
    BY <1>1, <2>1 DEF StreamTypeOK, SameFrame
  <2>3. Receives(p) => PayloadBoundsValid(p.len)
    BY <1>1, <1>5, RoomForTheRest DEF Receives
  <2> QED BY <1>2, <2>1, <2>2, <2>3 DEF m
<1>8. CASE LosePayload(p)
  <2>1. /\ SameServer /\ isBlitting' = 0 /\ poc' \in PocType /\ SameFrame(poc)
        /\ poc'.frame_ddr \in {poc.frame_ddr, poc.frame_recv}
        /\ isBlitting = 1 => ~HeaderComplete'
        /\ pc' = "poll"
    BY <1>1, <1>4, <1>6, <1>8, LoseFields
  <2>2. Receives(p) => PayloadBoundsValid(p.len)
    BY <1>1, <1>5, RoomForTheRest DEF Receives
  <2> QED BY <1>2, <2>1, <2>2 DEF m
<1>9. CASE Receives(p)
  <2>1. PayloadBoundsValid(p.len)
    BY <1>1, <1>5, <1>9, RoomForTheRest DEF Receives
  <2>2. isBlitting' # 0 => p.len = ChunkLen
    BY <1>4, <1>9 DEF Receives, ChunkLen
  <2> QED BY <1>2, <1>9, <2>1, <2>2 DEF m, Receives
<1> QED BY <1>5, <1>7, <1>8, <1>9

LEMMA ChunkStep ==
  ASSUME CleanInv, LongRests, Deliver, isBlitting # 0, Head(net).index # 0
  PROVE  CleanInv'
<1> DEFINE m == Head(net)
           p == m.p
<1>1. /\ RInv /\ StreamTypeOK /\ SessionOK /\ NumbersOK /\ CallOK /\ PayloadOK
  BY DEF CleanInv
<1>2. /\ net # <<>> /\ pc = "poll" /\ net' = Tail(net) /\ net \in Seq(MessageType)
      /\ UNCHANGED <<frame, mode, losses, clean>>
      /\ m \in MessageType /\ InFlight(net') /\ net' \in Seq(MessageType)
      /\ placed' = IF isBlitting = 1 /\ PayloadBoundsValid(p.len)
                   THEN Append(placed, <<m.kind, m.of, m.index>>) ELSE placed
  BY <1>1, Delivered
<1>3. /\ HandlePayload(p) /\ SameServer /\ pc' = "poll" /\ poc' \in PocType
      /\ SameFrame(poc) /\ poc'.frame_ddr \in {poc.frame_ddr, poc.frame_recv}
      /\ isBlitting' # 0 =>
           /\ Receives(p) /\ p.len = ChunkLen /\ isBlitting' = isBlitting
           /\ poc'.bytes_recv = poc.bytes_recv + ChunkLen
           /\ isBlitting = 1 /\ hpsBlit # 0 => poc'.frame_ddr = poc.frame_ddr
  BY ChunkOutcome
<1>4. RInv'
  BY <1>1, ServerStep DEF StreamNext
<1>5. StreamTypeOK'
  <2>1. placed' \in Seq(Kinds \X Nat \X Nat)
    <3>1. <<m.kind, m.of, m.index>> \in Kinds \X Nat \X Nat
      BY <1>2 DEF MessageType
    <3>2. placed \in Seq(Kinds \X Nat \X Nat)
      BY <1>1 DEF StreamTypeOK
    <3> QED BY <1>2, <3>1, <3>2, AppendProperties
  <2> QED BY <1>1, <1>2, <1>3, <2>1 DEF StreamTypeOK, SameServer
<1>6. SessionOK'
  <2>1. ASSUME isBlitting' # 0 PROVE \E k \in Nat : poc'.bytes_recv = k * ChunkLen
    <3>1. PICK k \in Nat : poc.bytes_recv = k * ChunkLen
      BY <1>3, <2>1, <1>1 DEF SessionOK
    <3>2. poc'.bytes_recv = (k + 1) * ChunkLen
      BY <1>3, <2>1, <3>1 DEF ChunkLen
    <3>3. k + 1 \in Nat
      OBVIOUS
    <3> QED BY <3>2, <3>3
  <2>2. blitCompression' = blitCompression
    BY <1>3 DEF SameServer
  <2>3. isBlitting' # 0 => isBlitting' = isBlitting
    BY <1>3
  <2>4. /\ poc'.pixels_len = poc.pixels_len /\ poc'.FB_progressive = poc.FB_progressive
        /\ poc'.bytes_lz4_len = poc.bytes_lz4_len /\ poc'.bytes_audio_len = poc.bytes_audio_len
    BY <1>3 DEF SameFrame
  <2> QED BY <1>1, <2>1, <2>2, <2>3, <2>4 DEF SessionOK
<1>7. \A q : ~ToCome(q)'
  <2>1. net' # <<>> => Head(net').index # 0
    BY <1>2, InFlightHead
  <2> QED BY <1>3, <2>1 DEF ToCome, AtHead, InBuf
<1>8. NumbersOK'
  <2>1. poc.frame_ddr \in Nat /\ poc.frame_recv \in Nat
    BY <1>1 DEF StreamTypeOK, PocType
  <2>2. /\ poc'.frame_recv = poc.frame_recv /\ hpsBlit' = hpsBlit
    BY <1>3 DEF SameFrame, SameServer
  <2> QED BY <1>1, <1>2, <1>3, <1>7, <2>1, <2>2 DEF NumbersOK
<1>9. CallOK'
  BY <1>7 DEF CallOK
<1>10. PayloadOK'
  <2>1. UNCHANGED <<frame, mode, clean, blitCompression, rgbMode>>
    BY <1>2, <1>3 DEF SameServer
  <2>2. Agreed' => Agreed
    BY <1>2, <1>3 DEF Agreed, SameServer, SameFrame
  <2>3. ASSUME NEW total \in FrameSizes, NEW j \in Nat,
               Streaming(net, "frame", frame, total, j), FrameProgress(total, j), net' # <<>>
        PROVE  FrameProgress(total, j + 1)'
    <3>1. total \in Nat \ {0} /\ "frame" \in Kinds /\ frame \in Nat
      BY <1>1, PayloadSizes DEF Kinds, StreamTypeOK
    <3>2. /\ j < Chunks(total) /\ p.len = LengthOf(total, j + 1)
          /\ m.kind = "frame" /\ m.of = frame /\ m.index = j + 1
      BY <1>2, <2>3, <3>1, StreamIsPayload
    <3>3. j + 1 # Chunks(total)
      BY <1>2, <2>3, <3>1, StreamTail
    <3>4. /\ isBlitting = 1 /\ PayloadLength = total /\ poc.frame_recv = frame
          /\ poc.bytes_recv = j * ChunkLen /\ Len(placed) = j /\ PlacedIsFrame(frame)
      BY <2>3 DEF FrameProgress
    <3>5. /\ PayloadBoundsValid(p.len) /\ isBlitting' = isBlitting
          /\ poc'.bytes_recv = (j + 1) * ChunkLen
      <4> HIDE DEF m
      <4> QED BY <1>1, <1>3, <3>1, <3>2, <3>3, <3>4, NextIsReceived
    <3>6. PayloadLength' = total
      BY <1>1, <1>3, <1>4, <3>4, <3>5, SamePayload DEF StreamTypeOK
    <3>7. placed' = Append(placed, <<"frame", frame, j + 1>>)
      BY <1>2, <3>2, <3>4, <3>5
    <3>8. Len(placed') = j + 1 /\ PlacedIsFrame(frame)'
      <4>1. placed \in Seq(Kinds \X Nat \X Nat)
        BY <1>1 DEF StreamTypeOK
      <4>2. /\ Len(placed') = j + 1
            /\ \A i \in 1 .. j + 1 : placed'[i] = IF i <= j THEN placed[i]
                                                  ELSE <<"frame", frame, j + 1>>
        BY <3>4, <3>7, <4>1
      <4>3. DOMAIN placed = 1 .. j /\ DOMAIN placed' = 1 .. j + 1
        BY <3>4, <3>7, <4>1
      <4>4. \A i \in 1 .. j : placed[i] = <<"frame", frame, i>>
        BY <3>4, <4>3 DEF PlacedIsFrame
      <4> QED BY <1>2, <4>2, <4>3, <4>4 DEF PlacedIsFrame
    <3>9. poc'.frame_recv = frame'
      BY <1>2, <1>3, <3>4 DEF SameFrame
    <3> QED BY <1>2, <3>4, <3>5, <3>6, <3>8, <3>9 DEF FrameProgress
  <2>4. ASSUME NEW total \in Sounds, NEW j \in Nat,
               Streaming(net, "sound", 0, total, j), SoundProgress(total, j), net' # <<>>
        PROVE  SoundProgress(total, j + 1)'
    <3>1. total \in Nat \ {0} /\ "sound" \in Kinds
      BY StreamConstants DEF Kinds
    <3>2. j < Chunks(total) /\ p.len = LengthOf(total, j + 1)
      <4>1. j < Chunks(total) /\ Head(net).p.len = LengthOf(total, j + 1)
        BY <1>2, <2>4, <3>1, Zero, StreamIsPayload
      <4> QED BY <4>1, <1>2
    <3>3. j + 1 # Chunks(total)
      BY <1>2, <2>4, <3>1, Zero, StreamTail
    <3>4. isBlitting = 2 /\ poc.bytes_audio_len = total /\ poc.bytes_recv = j * ChunkLen
      BY <2>4 DEF SoundProgress
    <3>5. PayloadLength = total
      BY <1>1, <3>4, OpenPayload DEF PayloadLength
    <3>6. /\ isBlitting' = isBlitting /\ poc'.bytes_recv = (j + 1) * ChunkLen
      <4> HIDE DEF m
      <4> QED BY <1>1, <1>3, <3>1, <3>2, <3>3, <3>4, <3>5, NextIsReceived
    <3> QED BY <1>3, <3>4, <3>6 DEF SoundProgress, SameFrame
  <2>5. \A total \in FrameSizes, j \in Nat :
           Streaming(net, "frame", frame, total, j) /\ total \in FrameBytes /\ clean /\ Agreed
             /\ FrameProgress(total, j) /\ net' # <<>>
           => FrameProgress(total, j + 1)'
    <3> TAKE total \in FrameSizes, j \in Nat
    <3> QED BY <2>3
  <2>6. \A total \in Sounds, j \in Nat :
           Streaming(net, "sound", 0, total, j) /\ clean
             /\ SoundProgress(total, j) /\ net' # <<>>
           => SoundProgress(total, j + 1)'
    <3> TAKE total \in Sounds, j \in Nat
    <3> QED BY <2>4
  <2>7. net' = Tail(net) /\ net # <<>> /\ pc = "poll"
    BY <1>2
  <2>8. Head(net).index # 0
    OBVIOUS
  <2> QED BY <2>7, <2>8, <2>1, <2>2, <2>5, <2>6, PayloadGoesOn, Zenon
<1> QED BY <1>4, <1>5, <1>6, <1>8, <1>9, <1>10 DEF CleanInv

-----------------------------------------------------------------------------
(* The invariant of clean calls *)

LEMMA CleanStep ==
  ASSUME SizesFit, LongRests, CleanInv, [StreamNext]_streamVars
  PROVE  CleanInv'
<1>1. RInv /\ StreamTypeOK /\ SessionOK /\ NumbersOK /\ CallOK /\ PayloadOK
  BY DEF CleanInv
<1>2. RInv'
  BY <1>1, ServerStep
<1>3. ASSUME NEW p, CommandTaken(p) PROVE CleanInv'
  BY <1>1, <1>2, <1>3, CommandStep DEF CleanInv
<1>4. CASE Switch \/ Frame \/ Sound
  BY <1>4, CallStep
<1>5. CASE Lose
  BY <1>5, LoseStep
<1>6. CASE Deliver
  <2>1. CASE isBlitting = 0 /\ Head(net).index = 0
    BY <1>3, <1>6, <2>1, CommandDelivered
  <2>2. CASE isBlitting = 0 /\ Head(net).index # 0
    BY <1>6, <2>2, ChunkDroppedStep
  <2>3. CASE isBlitting # 0 /\ Head(net).index = 0
    BY <1>6, <2>3, CommandLosesStep
  <2>4. CASE isBlitting # 0 /\ Head(net).index # 0
    BY <1>6, <2>4, ChunkStep
  <2> QED BY <2>1, <2>2, <2>3, <2>4
<1>7. CASE Redispatch
  BY <1>3, <1>7, CommandRedispatched
<1>8. CASE UNCHANGED streamVars
  <2>1. UNCHANGED <<net, frame, mode, losses, clean, placed>>
        /\ UNCHANGED <<groovyServer, hpsBlit, blitCompression, audioChannels, rgbMode>>
        /\ UNCHANGED <<poc, isBlitting, pc, recvbuf>>
    BY <1>8 DEF streamVars, vars, client, setup, session, blit
  <2>2. (StreamTypeOK /\ SessionOK /\ NumbersOK)'
    BY <1>1, <2>1
       DEF StreamTypeOK, SessionOK, NumbersOK, ToCome, AtHead, InBuf
  <2>3. CallOK'
    BY <1>1, <2>1
       DEF CallOK, ToCome, AtHead, InBuf, After, Announces, IsMode, IsRepeat, IsFrame, IsSound,
           FrameBytes, Bpp, Streaming
  <2>4. PayloadOK'
    BY <1>1, <2>1
       DEF PayloadOK, FrameOnItsWay, SoundOnItsWay, Streaming, FrameBytes, Bpp, Agreed,
           FrameProgress, SoundProgress, PayloadLength, PlacedIsFrame
  <2> QED BY <1>2, <2>2, <2>3, <2>4 DEF CleanInv
<1> QED BY <1>4, <1>5, <1>6, <1>7, <1>8 DEF StreamNext

LEMMA CleanStart == StreamInit => CleanInv
<1> SUFFICES ASSUME StreamInit PROVE CleanInv
  OBVIOUS
<1>1. /\ RInv /\ poc \in PocType /\ rgbMode = 0 /\ mode \in Modes
      /\ poc.pixels_len = mode /\ poc.FB_progressive = 1
      /\ poc.frame_ddr = 0 /\ poc.frame_recv = 0
  BY StreamStart
<1>2. /\ groovyServer = 2 /\ audioChannels = 2 /\ pc = "poll" /\ isBlitting = 0
      /\ net = <<>> /\ frame = 0 /\ losses = 0 /\ clean = TRUE /\ placed = <<>>
  BY DEF StreamInit
<1>3. StreamTypeOK
  BY <1>1, <1>2, StreamConstants DEF StreamTypeOK
<1>4. \A q : ~ToCome(q)
  BY <1>2 DEF ToCome, AtHead, InBuf
<1> QED BY <1>1, <1>2, <1>3, <1>4 DEF CleanInv, SessionOK, NumbersOK, CallOK, PayloadOK

(* The last datagram of a call that lost none. *)
LEMMA LastOfCall ==
  ASSUME CleanInv, StreamNext, net # <<>>, net' = <<>>, clean', Head(net).index > 0
  PROVE  Deliver /\ clean /\ (FrameOnItsWay \/ SoundOnItsWay)
<1>1. ~(Switch \/ Frame \/ Sound)
  BY CallMade DEF CleanInv
<1>2. ~Lose
  BY DEF Lose
<1>3. ~Redispatch
  BY DEF Redispatch, client
<1>4. Deliver
  BY <1>1, <1>2, <1>3 DEF StreamNext
<1>5. clean /\ pc = "poll" /\ net \in Seq(MessageType)
  BY <1>4 DEF Deliver, CleanInv, StreamTypeOK
<1>6. Head(net).index # 0
  OBVIOUS
<1> QED BY <1>4, <1>5, <1>6 DEF CleanInv, PayloadOK

LEMMA LastFrameChunk ==
  ASSUME CleanInv, LongRests, StreamNext, net # <<>>, net' = <<>>, clean',
         Head(net).kind = "frame", Head(net).index > 0,
         blitCompression = 0 => poc.pixels_len = mode
  PROVE  HeaderComplete' /\ PlacedIsFrame(frame)' /\ poc'.frame_ddr = frame
<1> DEFINE m == Head(net)
           p == m.p
<1>1. /\ RInv /\ StreamTypeOK /\ SessionOK /\ NumbersOK /\ CallOK /\ PayloadOK
  BY DEF CleanInv
<1>2. Deliver /\ clean /\ (FrameOnItsWay \/ SoundOnItsWay)
  BY LastOfCall
<1>3. net \in Seq(MessageType) /\ frame \in Nat
  BY <1>1 DEF StreamTypeOK
<1>4. ~SoundOnItsWay
  <2> SUFFICES ASSUME NEW total \in Sounds, NEW j \in Nat,
                      Streaming(net, "sound", 0, total, j)
               PROVE  FALSE
    BY DEF SoundOnItsWay
  <2>1. total \in Nat \ {0} /\ "sound" \in Kinds /\ "sound" # "frame"
    BY StreamConstants DEF Kinds
  <2> QED BY <1>3, <2>1, Zero, StreamIsPayload
<1>5. PICK total \in FrameSizes, j \in Nat :
        /\ Streaming(net, "frame", frame, total, j) /\ total \in FrameBytes
        /\ clean /\ Agreed => FrameProgress(total, j)
  BY <1>2, <1>4 DEF FrameOnItsWay
<1>6. FrameProgress(total, j)
  BY <1>2, <1>5 DEF Agreed
<1>7. /\ isBlitting = 1 /\ PayloadLength = total /\ poc.frame_recv = frame
      /\ poc.bytes_recv = j * ChunkLen /\ Len(placed) = j /\ PlacedIsFrame(frame)
  BY <1>6 DEF FrameProgress
<1>8. total \in Nat \ {0} /\ "frame" \in Kinds
  BY PayloadSizes DEF Kinds
<1>9. /\ net' = Tail(net) /\ frame' = frame /\ m \in MessageType /\ HandlePayload(p)
      /\ placed' = IF isBlitting = 1 /\ PayloadBoundsValid(p.len)
                   THEN Append(placed, <<m.kind, m.of, m.index>>) ELSE placed
  BY <1>1, <1>2, <1>7, Delivered
<1>10. /\ j < Chunks(total) /\ p.len = LengthOf(total, j + 1)
       /\ m.kind = "frame" /\ m.of = frame /\ m.index = j + 1
  BY <1>3, <1>5, <1>8, StreamIsPayload
<1>11. j + 1 = Chunks(total)
  BY <1>3, <1>5, <1>8, <1>9, StreamTail
<1>12. Receives(p) /\ PayloadBoundsValid(p.len) /\ isBlitting' = 0
  <2> HIDE DEF m
  <2> QED BY <1>1, <1>7, <1>8, <1>9, <1>10, <1>11, NextIsReceived
<1>13. HeaderComplete' /\ poc'.frame_ddr = frame
  <2> HIDE DEF p
  <2> QED BY <1>7, <1>12 DEF Receives
<1>14. PlacedIsFrame(frame)'
  <2>1. placed' = Append(placed, <<"frame", frame, j + 1>>)
    BY <1>7, <1>9, <1>10, <1>12
  <2>2. placed \in Seq(Kinds \X Nat \X Nat)
    BY <1>1 DEF StreamTypeOK
  <2>3. /\ DOMAIN placed = 1 .. j /\ DOMAIN placed' = 1 .. j + 1
        /\ \A i \in 1 .. j + 1 : placed'[i] = IF i <= j THEN placed[i]
                                              ELSE <<"frame", frame, j + 1>>
    BY <1>7, <2>1, <2>2
  <2>4. \A i \in 1 .. j : placed[i] = <<"frame", frame, i>>
    BY <1>7, <2>3 DEF PlacedIsFrame
  <2> QED BY <1>9, <2>3, <2>4 DEF PlacedIsFrame
<1> QED BY <1>13, <1>14

LEMMA LastSoundChunk ==
  ASSUME CleanInv, LongRests, StreamNext, net # <<>>, net' = <<>>, clean',
         Head(net).kind = "sound", Head(net).index > 0
  PROVE  \E i \in DOMAIN spi' : spi'[i].op = "AUDIO"
<1> DEFINE m == Head(net)
           p == m.p
<1>1. /\ RInv /\ StreamTypeOK /\ SessionOK /\ NumbersOK /\ CallOK /\ PayloadOK
  BY DEF CleanInv
<1>2. Deliver /\ clean /\ (FrameOnItsWay \/ SoundOnItsWay)
  BY LastOfCall
<1>3. net \in Seq(MessageType) /\ frame \in Nat
  BY <1>1 DEF StreamTypeOK
<1>4. ~FrameOnItsWay
  <2> SUFFICES ASSUME NEW total \in FrameSizes, NEW j \in Nat,
                      Streaming(net, "frame", frame, total, j)
               PROVE  FALSE
    BY DEF FrameOnItsWay
  <2>1. total \in Nat \ {0} /\ "frame" \in Kinds /\ "sound" # "frame"
    BY PayloadSizes DEF Kinds
  <2> QED BY <1>3, <2>1, StreamIsPayload
<1>5. PICK total \in Sounds, j \in Nat :
        /\ Streaming(net, "sound", 0, total, j)
        /\ clean => SoundProgress(total, j)
  BY <1>2, <1>4 DEF SoundOnItsWay
<1>6. isBlitting = 2 /\ poc.bytes_audio_len = total /\ poc.bytes_recv = j * ChunkLen
  BY <1>2, <1>5 DEF SoundProgress
<1>7. PayloadLength = total
  BY <1>1, <1>6, OpenPayload DEF PayloadLength
<1>8. total \in Nat \ {0} /\ "sound" \in Kinds
  BY StreamConstants DEF Kinds
<1>9. net' = Tail(net) /\ HandlePayload(p)
  BY <1>1, <1>2, <1>6, Delivered
<1>10. j < Chunks(total) /\ p.len = LengthOf(total, j + 1)
  BY <1>3, <1>5, <1>8, Zero, StreamIsPayload
<1>11. j + 1 = Chunks(total)
  BY <1>3, <1>5, <1>8, <1>9, Zero, StreamTail
<1>12. Receives(p) /\ isBlitting' = 0
  <2> HIDE DEF m
  <2> QED BY <1>1, <1>6, <1>7, <1>8, <1>9, <1>10, <1>11, NextIsReceived
<1>13. Played'
  <2> HIDE DEF p
  <2> QED BY <1>6, <1>12 DEF Receives
<1> QED BY <1>13 DEF Played

(* Whatever the network has lost before, and however much, a frame that loses  *)
(* no datagram itself is received whole, placed whole and announced as         *)
(* complete: the loss detection never carries a loss over to the frame after.  *)
THEOREM CleanFrames ==
  ASSUME SizesFit, LongRests
  PROVE  StreamSpec => CleanFrameCompletes
<1>1. StreamInit => CleanInv
  BY CleanStart
<1>2. CleanInv /\ [StreamNext]_streamVars => CleanInv'
  BY CleanStep
<1>3. CleanInv /\ StreamNext =>
        (net # <<>> /\ net' = <<>> /\ clean' /\ Head(net).kind = "frame" /\ Head(net).index > 0
           /\ (blitCompression = 0 => poc.pixels_len = mode)
         => HeaderComplete' /\ PlacedIsFrame(frame)' /\ poc'.frame_ddr = frame)
  BY LastFrameChunk
<1> QED BY <1>1, <1>2, <1>3, PTL DEF StreamSpec, CleanFrameCompletes

(* ... and sound that loses no datagram is handed to the FPGA whole.           *)
THEOREM CleanSounds ==
  ASSUME SizesFit, LongRests
  PROVE  StreamSpec => CleanSoundPlays
<1>1. StreamInit => CleanInv
  BY CleanStart
<1>2. CleanInv /\ [StreamNext]_streamVars => CleanInv'
  BY CleanStep
<1>3. CleanInv /\ StreamNext =>
        (net # <<>> /\ net' = <<>> /\ clean' /\ Head(net).kind = "sound" /\ Head(net).index > 0
         => \E i \in DOMAIN spi' : spi'[i].op = "AUDIO")
  BY LastSoundChunk
<1> QED BY <1>1, <1>2, <1>3, PTL DEF StreamSpec, CleanSoundPlays

-----------------------------------------------------------------------------
(* Losses against receptions *)

LEMMA RestOfFrame ==
  ASSUME RestsDiffer, NEW total \in FrameSizes
  PROVE  /\ total \in Nat \ {0} /\ total > ChunkLen /\ total % ChunkLen # 0
         /\ Chunks(total) \in Nat \ {0}
         /\ (Chunks(total) - 1) * ChunkLen < total /\ total < Chunks(total) * ChunkLen
<1>1. total \in Nat \ {0}
  BY PayloadSizes
<1>2. total > ChunkLen /\ total % ChunkLen # 0
  BY DEF RestsDiffer
<1> QED BY <1>1, <1>2, ChunkCount

LEMMA CallCounted ==
  ASSUME CleanInv, OpenOK, RestsDiffer, Switch \/ Frame \/ Sound
  PROVE  OpenOK'
<1> SUFFICES ASSUME isBlitting' = 1 PROVE (poc.bytes_recv = Len(placed) * ChunkLen /\ Behind)'
  BY DEF OpenOK
<1>1. /\ RInv /\ StreamTypeOK /\ SessionOK
  BY DEF CleanInv
<1>2. /\ net = <<>> /\ UNCHANGED <<vars, losses, placed>>
      /\ net' # <<>> /\ Head(net').index = 0
  BY <1>1, CallMade
<1>3. UNCHANGED <<poc, isBlitting, blitCompression, rgbMode, losses, placed>>
  BY <1>2 DEF vars, setup, session, blit
<1>4. isBlitting = 1 /\ poc.bytes_recv = Len(placed) * ChunkLen /\ (Own \/ Behind \/ Overrun)
  BY <1>3 DEF OpenOK
<1>5. NearEnd' <=> NearEnd
  BY <1>3 DEF NearEnd, PayloadLength
<1>6. losses \in Nat /\ net \in Seq(MessageType) /\ Len(placed) \in Nat
  BY <1>1, LenProperties DEF StreamTypeOK
<1>7. losses >= 2 \/ (losses >= 1 /\ NearEnd)
  <2>1. CASE Own
    <3>1. PICK total \in FrameSizes, j \in Nat :
            /\ Streaming(net, "frame", frame, total, j) /\ total \in FrameBytes /\ poc.frame_recv = frame
            /\ Len(placed) <= j /\ losses >= j - Len(placed)
            /\ ~PlacedIsFrame(frame) => Len(placed) < j
            /\ total # PayloadLength => losses >= 1 /\ blitCompression = 0
            /\ j = Chunks(total) /\ (~PlacedIsFrame(frame) \/ total # PayloadLength) => losses >= 2
      BY <2>1 DEF Own
    <3>2. /\ total \in Nat \ {0} /\ Chunks(total) \in Nat \ {0}
          /\ (Chunks(total) - 1) * ChunkLen < total /\ total < Chunks(total) * ChunkLen
      BY RestOfFrame
    <3>3. j = Chunks(total)
      BY <1>2, <1>6, <3>1, <3>2, StreamEnd
    <3>4. CASE total # PayloadLength
      BY <3>1, <3>3, <3>4
    <3>5. CASE total = PayloadLength
      <4>1. Len(placed) * ChunkLen < total
        BY <1>1, <1>4, <3>5, OpenPayload
      <4>2. Len(placed) < j
        BY <1>6, <3>2, <3>3, <4>1 DEF ChunkLen
      <4>3. CASE Len(placed) = j - 1
        <5>1. losses >= 1
          BY <1>6, <3>1, <4>3
        <5>2. total - Len(placed) * ChunkLen < ChunkLen
          BY <3>2, <3>3, <4>3 DEF ChunkLen
        <5> QED BY <1>4, <3>5, <5>1, <5>2 DEF NearEnd
      <4>4. CASE Len(placed) # j - 1
        BY <1>6, <3>1, <4>2, <4>4
      <4> QED BY <4>3, <4>4
    <3> QED BY <3>4, <3>5
  <2>2. CASE Behind
    BY <1>2, <2>2 DEF Behind
  <2>3. CASE Overrun
    BY <2>3 DEF Overrun
  <2> QED BY <1>4, <2>1, <2>2, <2>3
<1>8. Behind'
  BY <1>2, <1>3, <1>5, <1>7 DEF Behind
<1> QED BY <1>3, <1>4, <1>8

LEMMA LossCounted ==
  ASSUME CleanInv, OpenOK, RestsDiffer, MaxLosses <= 2, Lose
  PROVE  OpenOK'
<1> SUFFICES ASSUME isBlitting' = 1
             PROVE  (poc.bytes_recv = Len(placed) * ChunkLen /\ (Own \/ Overrun))'
  BY DEF OpenOK
<1>1. StreamTypeOK /\ CallOK /\ PayloadOK
  BY DEF CleanInv
<1>2. /\ net # <<>> /\ pc = "poll" /\ losses < MaxLosses
      /\ net' = Tail(net) /\ losses' = losses + 1
      /\ UNCHANGED <<poc, isBlitting, blitCompression, rgbMode, frame, placed>>
  BY DEF Lose, vars, setup, session, blit
<1>3. isBlitting = 1 /\ poc.bytes_recv = Len(placed) * ChunkLen /\ (Own \/ Behind \/ Overrun)
  BY <1>2 DEF OpenOK
<1>4. losses \in Nat /\ net \in Seq(MessageType) /\ Len(placed) \in Nat /\ frame \in Nat
  BY <1>1, LenProperties DEF StreamTypeOK
<1>5. losses <= 1
  BY <1>2, <1>4, StreamConstants
<1>6. PayloadLength' = PayloadLength /\ NearEnd' = NearEnd
  BY <1>2 DEF NearEnd, PayloadLength
<1>7. CASE Own
  <2>1. PICK total \in FrameSizes, j \in Nat :
          /\ Streaming(net, "frame", frame, total, j) /\ total \in FrameBytes /\ poc.frame_recv = frame
          /\ Len(placed) <= j /\ losses >= j - Len(placed)
          /\ ~PlacedIsFrame(frame) => Len(placed) < j
          /\ total # PayloadLength => losses >= 1 /\ blitCompression = 0
          /\ j = Chunks(total) /\ (~PlacedIsFrame(frame) \/ total # PayloadLength) => losses >= 2
    BY <1>7 DEF Own
  <2>2. total \in Nat \ {0} /\ j + 1 \in Nat
    BY PayloadSizes
  <2>3. Streaming(net', "frame", frame, total, j + 1)
    BY <1>2, <1>4, <2>1, <2>2, StreamHead
  <2>4. /\ Len(placed) <= j + 1 /\ losses + 1 >= (j + 1) - Len(placed)
        /\ ~PlacedIsFrame(frame) => Len(placed) < j + 1
        /\ total # PayloadLength => losses + 1 >= 1 /\ blitCompression = 0
        /\ ~PlacedIsFrame(frame) \/ total # PayloadLength => losses + 1 >= 2
    BY <1>4, <2>1
  <2>5. (PlacedIsFrame(frame) <=> PlacedIsFrame(frame)')
    BY <1>2 DEF PlacedIsFrame
  <2>6. Streaming(net, "frame", frame, total, j + 1)'
    BY <1>2, <2>3 DEF Streaming
  <2>7. (total \in FrameBytes)'
    BY <1>2, <2>1 DEF Lose, FrameBytes, Bpp
  <2>8. Own'
    BY <1>2, <1>6, <2>1, <2>2, <2>4, <2>5, <2>6, <2>7 DEF Own
  <2> QED BY <1>2, <1>3, <2>8
<1>8. CASE Behind
  <2>1. losses' >= 2 /\ NearEnd'
    BY <1>2, <1>4, <1>5, <1>6, <1>8 DEF Behind
  <2>2. Announces(Head(net).p, Tail(net))
    BY <1>1, <1>2, <1>8, OnTheNet DEF Behind
  <2>3. \/ net' = <<>>
        \/ \E kind \in Kinds, n \in Nat, total \in Payloads : Streaming(net', kind, n, total, 0)
    <3>1. "frame" \in Kinds /\ "sound" \in Kinds /\ frame \in Nat /\ 0 \in Nat
      BY <1>4 DEF Kinds
    <3>2. \A total \in FrameSizes : total \in Payloads
      BY PayloadSizes
    <3>3. \A total \in Sounds : total \in Payloads
      BY PayloadSizes
    <3> QED BY <1>2, <2>2, <3>1, <3>2, <3>3 DEF Announces
  <2>4. Overrun'
    BY <2>1, <2>3 DEF Overrun, Streaming
  <2> QED BY <1>2, <1>3, <2>4
<1>9. CASE Overrun
  BY <1>4, <1>5, <1>9 DEF Overrun
<1> QED BY <1>3, <1>7, <1>8, <1>9

LEMMA DisagreeKept ==
  ASSUME CleanInv, DisagreeOK, Switch \/ Frame \/ Sound \/ Lose
  PROVE  DisagreeOK'
<1>1. StreamTypeOK
  BY DEF CleanInv
<1>2. CASE Lose
  <2>1. losses' >= 1
    BY <1>1, <1>2 DEF Lose, StreamTypeOK
  <2> QED BY <2>1 DEF DisagreeOK
<1>3. CASE Switch \/ Frame \/ Sound
  <2>1. /\ net = <<>> /\ pc = "poll" /\ UNCHANGED <<vars, losses, placed>>
        /\ net' # <<>> /\ Head(net').index = 0
        /\ mode' = mode \/ IsMode(Head(net).p)'
    BY <1>1, <1>3, CallMade
  <2>2. UNCHANGED <<poc, blitCompression, pc, losses>>
    BY <2>1 DEF vars, setup, session, blit
  <2>3. \A q : ~ToCome(q)
    BY <2>1 DEF ToCome, AtHead, InBuf
  <2>4. CASE mode' = mode
    BY <2>2, <2>3, <2>4 DEF DisagreeOK
  <2>5. CASE IsMode(Head(net).p)'
    <3>1. ToCome(Head(net).p)'
      BY <2>1, <2>2 DEF ToCome, AtHead
    <3> QED BY <2>5, <3>1 DEF DisagreeOK
  <2> QED BY <2>1, <2>4, <2>5
<1> QED BY <1>2, <1>3

(* What a command finds that did not come alone. *)
LEMMA CommandCounted ==
  ASSUME CleanInv, DisagreeOK, OpenOK, SizesFit, RestsDiffer, NEW p, CommandTaken(p), RInv'
  PROVE  (DisagreeOK /\ OpenOK)'
<1> DEFINE s == net'
<1>1. /\ RInv /\ StreamTypeOK /\ SessionOK /\ NumbersOK
  BY DEF CleanInv
<1>2. /\ HandleCommand(p) /\ ToCome(p) /\ Announces(p, s) /\ s \in Seq(MessageType)
      /\ UNCHANGED <<frame, mode, losses, clean>>
      /\ placed' = IF isBlitting' = 1 THEN <<>> ELSE placed
  BY DEF CommandTaken
<1>3. /\ isBlitting = 0 /\ SameServer /\ poc' \in PocType
      /\ \/ OpensNothing(p, s)
         \/ \E total \in FrameSizes : OpensFrame(p, s, total)
         \/ \E total \in Sounds : OpensSound(p, s, total)
  BY <1>1, <1>2, CommandEffect
<1>4. blitCompression = 0 /\ poc.pixels_len # mode => losses >= 1 \/ IsMode(p)
  BY <1>2, OneToCome DEF DisagreeOK
<1>5. losses \in Nat /\ mode \in Nat /\ rgbMode = 0
  BY <1>1, StreamConstants DEF StreamTypeOK
<1>6. CASE OpensNothing(p, s)
  BY <1>2, <1>3, <1>4, <1>6 DEF OpensNothing, IsMode, IsRepeat, DisagreeOK, OpenOK, SameServer
<1>7. CASE \E total \in Sounds : OpensSound(p, s, total)
  BY <1>2, <1>3, <1>4, <1>7 DEF OpensSound, IsMode, IsSound, DisagreeOK, OpenOK, SameServer
<1>8. CASE \E total \in FrameSizes : OpensFrame(p, s, total)
  <2>1. PICK total \in FrameSizes : OpensFrame(p, s, total)
    BY <1>8
  <2>2. /\ Streaming(s, "frame", frame, total, 0) /\ isBlitting' = 1
        /\ poc'.bytes_recv = 0 /\ poc'.frame_recv = frame
        /\ poc'.pixels_len = poc.pixels_len
        /\ blitCompression # 0 => poc'.bytes_lz4_len = total
        /\ total \in FrameBytes /\ ~IsMode(p)
    BY <2>1 DEF OpensFrame, IsFrame, IsMode
  <2>3. DisagreeOK'
    BY <1>2, <1>3, <1>4, <2>2 DEF DisagreeOK, SameServer
  <2>4. /\ poc' # NoPoc /\ poc'.bytes_len = poc'.pixels_len * Bpp(rgbMode')
        /\ blitCompression' = blitCompression /\ rgbMode' = 0
    BY <1>3, <1>5, <2>2, NoPocAssumption DEF RInv, WholePixels, SameServer
  <2>5. total # PayloadLength' => losses' >= 1 /\ blitCompression' = 0
    <3>1. CASE blitCompression # 0
      BY <2>2, <2>4, <3>1 DEF PayloadLength
    <3>2. CASE blitCompression = 0
      <4>1. total = mode * Bpp(0)
        BY <1>5, <2>2, <3>2 DEF FrameBytes
      <4>2. PayloadLength' = poc.pixels_len * Bpp(0)
        BY <2>2, <2>4, <3>2 DEF PayloadLength
      <4> QED BY <1>2, <1>4, <2>2, <2>4, <3>2, <4>1, <4>2
    <3> QED BY <3>1, <3>2
  <2>6. 0 # Chunks(total)
    BY RestOfFrame
  <2>7. placed' = <<>> /\ Len(placed') = 0 /\ PlacedIsFrame(frame)'
    BY <1>2, <2>2 DEF PlacedIsFrame
  <2>8. Streaming(net, "frame", frame, total, 0)'
    BY <1>2, <2>2 DEF Streaming
  <2>9. losses' >= 0 - Len(placed') /\ Len(placed') <= 0 /\ losses' >= 0
    BY <1>2, <1>5, <2>7
  <2>10. (total \in FrameBytes)'
    BY <1>2, <2>2, <2>4, <1>5 DEF FrameBytes, Bpp
  <2>11. Own'
    BY <1>2, <2>2, <2>5, <2>6, <2>7, <2>8, <2>9, <2>10, Zero DEF Own
  <2>12. (poc.bytes_recv = Len(placed) * ChunkLen)'
    BY <2>2, <2>7 DEF ChunkLen
  <2> QED BY <2>3, <2>11, <2>12 DEF OpenOK
<1> QED BY <1>3, <1>6, <1>7, <1>8

LEMMA AppendIsFrame ==
  ASSUME NEW q \in Seq(Kinds \X Nat \X Nat), NEW n, placed = q, PlacedIsFrame(n),
         placed' = Append(q, <<"frame", n, Len(q) + 1>>)
  PROVE  PlacedIsFrame(n)'
<1>1. /\ Len(q) \in Nat /\ DOMAIN placed = 1 .. Len(q) /\ DOMAIN placed' = 1 .. Len(q) + 1
      /\ \A i \in 1 .. Len(q) + 1 : placed'[i] = IF i <= Len(q) THEN placed[i]
                                                ELSE <<"frame", n, Len(q) + 1>>
  OBVIOUS
<1>2. \A i \in 1 .. Len(q) : placed[i] = <<"frame", n, i>>
  BY <1>1 DEF PlacedIsFrame
<1> QED BY <1>1, <1>2 DEF PlacedIsFrame

(* A payload datagram that a reception goes on with. *)
LEMMA ChunkCountedIn ==
  ASSUME CleanInv, OpenOK, LongRests, RestsDiffer, RInv', Deliver, isBlitting # 0,
         Head(net).index # 0
  PROVE  OpenOK'
<1> SUFFICES ASSUME isBlitting' = 1
             PROVE  (poc.bytes_recv = Len(placed) * ChunkLen /\ Own)'
  BY DEF OpenOK
<1> DEFINE m == Head(net)
           p == m.p
<1>1. /\ RInv /\ StreamTypeOK /\ SessionOK /\ CallOK /\ PayloadOK
  BY DEF CleanInv
<1>2. /\ net # <<>> /\ pc = "poll" /\ net' = Tail(net) /\ net \in Seq(MessageType)
      /\ UNCHANGED <<frame, losses>> /\ m \in MessageType
      /\ placed' = IF isBlitting = 1 /\ PayloadBoundsValid(p.len)
                   THEN Append(placed, <<m.kind, m.of, m.index>>) ELSE placed
  BY <1>1, Delivered
<1>3. /\ SameServer /\ poc' \in PocType /\ SameFrame(poc)
      /\ PayloadBoundsValid(p.len) /\ p.len = ChunkLen /\ isBlitting' = isBlitting
      /\ poc'.bytes_recv = poc.bytes_recv + ChunkLen
      /\ Receives(p)
  BY ChunkOutcome
<1>4. /\ isBlitting = 1 /\ poc.bytes_recv = Len(placed) * ChunkLen /\ (Own \/ Behind \/ Overrun)
  BY <1>3 DEF OpenOK
<1>5. PayloadLength' = PayloadLength
  BY <1>1, <1>3, SamePayload DEF StreamTypeOK
<1>6. /\ placed \in Seq(Kinds \X Nat \X Nat) /\ Len(placed) \in Nat /\ losses \in Nat
      /\ frame \in Nat
  BY <1>1, LenProperties DEF StreamTypeOK
<1>7. placed' = Append(placed, <<m.kind, m.of, m.index>>) /\ Len(placed') = Len(placed) + 1
  <2>1. placed' = Append(placed, <<m.kind, m.of, m.index>>)
    BY <1>2, <1>3, <1>4
  <2>2. <<m.kind, m.of, m.index>> \in Kinds \X Nat \X Nat
    BY <1>2 DEF MessageType
  <2> QED BY <1>6, <2>1, <2>2, AppendProperties
<1>8. poc'.bytes_recv = Len(placed') * ChunkLen
  BY <1>3, <1>4, <1>6, <1>7 DEF ChunkLen
<1>9. ~Behind
  BY DEF Behind
<1>10. ~Overrun
  <2>1. poc.bytes_recv + ChunkLen <= PayloadLength
    <3> HIDE DEF p
    <3> QED BY <1>3 DEF Receives
  <2>2. poc.bytes_recv \in Nat /\ PayloadLength \in Nat
    BY <1>1, <1>4, OpenPayload
  <2>3. ~NearEnd
    BY <2>1, <2>2 DEF NearEnd, ChunkLen
  <2> QED BY <1>2, <2>3 DEF Overrun
<1>11. PICK total \in FrameSizes, j \in Nat :
         /\ Streaming(net, "frame", frame, total, j) /\ total \in FrameBytes /\ poc.frame_recv = frame
         /\ Len(placed) <= j /\ losses >= j - Len(placed)
         /\ ~PlacedIsFrame(frame) => Len(placed) < j
         /\ total # PayloadLength => losses >= 1 /\ blitCompression = 0
         /\ j = Chunks(total) /\ (~PlacedIsFrame(frame) \/ total # PayloadLength) => losses >= 2
  BY <1>4, <1>9, <1>10 DEF Own
<1>12. /\ total \in Nat \ {0} /\ total % ChunkLen # 0 /\ Chunks(total) \in Nat
       /\ "frame" \in Kinds /\ j + 1 \in Nat
  BY RestOfFrame DEF Kinds
<1>13. /\ j < Chunks(total) /\ p.len = LengthOf(total, j + 1)
       /\ m.kind = "frame" /\ m.of = frame /\ m.index = j + 1
       /\ Streaming(net', "frame", frame, total, j + 1)
  BY <1>2, <1>6, <1>11, <1>12, StreamIsPayload
<1>14. j + 1 # Chunks(total)
  <2> HIDE DEF p
  <2> QED BY <1>3, <1>12, <1>13, ChunkLength
<1>15. Len(placed') <= j + 1 /\ losses' >= (j + 1) - Len(placed')
  BY <1>2, <1>6, <1>7, <1>11
<1>16. ~PlacedIsFrame(frame)' => Len(placed') < j + 1
  <2>1. CASE Len(placed) < j
    BY <1>6, <1>7, <2>1
  <2>2. CASE ~(Len(placed) < j)
    <3>1. PlacedIsFrame(frame) /\ Len(placed) = j
      BY <1>6, <1>11, <2>2
    <3>2. placed' = Append(placed, <<"frame", frame, Len(placed) + 1>>)
      BY <1>7, <1>13, <3>1
    <3>3. PlacedIsFrame(frame)'
      BY <1>2, <1>6, <3>1, <3>2, AppendIsFrame DEF PlacedIsFrame
    <3> QED BY <3>3
  <2> QED BY <2>1, <2>2
<1>17. Streaming(net, "frame", frame, total, j + 1)'
  BY <1>2, <1>13 DEF Streaming
<1>18. (poc.frame_recv = frame)'
  BY <1>2, <1>3, <1>11 DEF SameFrame
<1>19. (total \in FrameBytes)' /\ blitCompression' = blitCompression
  <2>1. mode' = mode
    BY DEF Deliver
  <2> QED BY <1>3, <1>11, <2>1 DEF FrameBytes, Bpp, SameServer
<1>20. Own'
  BY <1>2, <1>5, <1>11, <1>12, <1>14, <1>15, <1>16, <1>17, <1>18, <1>19 DEF Own
<1> QED BY <1>8, <1>20

LEMMA IntegrityStep ==
  ASSUME SizesFit, LongRests, RestsDiffer, MaxLosses <= 2, IntegrityInv,
         [StreamNext]_streamVars
  PROVE  IntegrityInv'
<1>1. CleanInv /\ DisagreeOK /\ OpenOK
  BY DEF IntegrityInv
<1>2. CleanInv' /\ RInv'
  BY <1>1, CleanStep DEF CleanInv
<1> SUFFICES (DisagreeOK /\ OpenOK)'
  BY <1>2 DEF IntegrityInv
<1>3. ASSUME NEW p, CommandTaken(p) PROVE (DisagreeOK /\ OpenOK)'
  BY <1>1, <1>2, <1>3, CommandCounted
<1>4. CASE Switch \/ Frame \/ Sound
  BY <1>1, <1>4, DisagreeKept, CallCounted
<1>5. CASE Lose
  BY <1>1, <1>5, DisagreeKept, LossCounted
<1>6. CASE Deliver
  <2>1. CASE isBlitting = 0 /\ Head(net).index = 0
    BY <1>1, <1>3, <1>6, <2>1, CommandDelivered
  <2>2. CASE Head(net).index # 0
    <3>1. \A q : ~ToCome(q)
      BY <1>6, <2>2, ChunkToCome DEF Deliver
    <3>2. UNCHANGED <<mode, losses>> /\ blitCompression' = blitCompression
          /\ poc'.pixels_len = poc.pixels_len
      <4>1. CASE isBlitting = 0
        BY <1>1, <1>6, <2>2, <4>1, ChunkDropped DEF SameServer
      <4>2. CASE isBlitting # 0
        BY <1>1, <1>6, <2>2, <4>2, ChunkOutcome DEF Deliver, SameServer, SameFrame
      <4> QED BY <4>1, <4>2
    <3>3. DisagreeOK'
      BY <1>1, <3>1, <3>2 DEF DisagreeOK
    <3>4. OpenOK'
      <4>1. CASE isBlitting = 0
        BY <1>1, <1>6, <2>2, <4>1, ChunkDropped DEF OpenOK
      <4>2. CASE isBlitting # 0
        BY <1>1, <1>2, <1>6, <2>2, <4>2, ChunkCountedIn
      <4> QED BY <4>1, <4>2
    <3> QED BY <3>3, <3>4
  <2>3. CASE isBlitting # 0 /\ Head(net).index = 0
    <3>1. /\ UNCHANGED <<mode, losses>> /\ blitCompression' = blitCompression
          /\ poc'.pixels_len = poc.pixels_len /\ isBlitting' = 0
      BY <1>1, <1>6, <2>3, CommandLoses DEF Deliver, SameServer, SameFrame
    <3>2. \A q : ToCome(q) => ToCome(q)'
      BY <1>1, <1>6, <2>3, CommandLosesStep
    <3>3. DisagreeOK'
      BY <1>1, <3>1, <3>2 DEF DisagreeOK, IsMode
    <3> QED BY <3>1, <3>3 DEF OpenOK
  <2> QED BY <2>1, <2>2, <2>3
<1>7. CASE Redispatch
  BY <1>1, <1>3, <1>7, CommandRedispatched
<1>8. CASE UNCHANGED streamVars
  <2>1. UNCHANGED <<net, frame, mode, losses, placed>>
        /\ UNCHANGED <<poc, isBlitting, pc, recvbuf, blitCompression, rgbMode>>
    BY <1>8 DEF streamVars, vars, client, setup, session, blit
  <2>2. DisagreeOK'
    BY <1>1, <2>1 DEF DisagreeOK, ToCome, AtHead, InBuf, IsMode
  <2>3. OpenOK'
    BY <1>1, <2>1 DEF OpenOK, Own, Behind, Overrun, NearEnd, PayloadLength, Streaming,
                      PlacedIsFrame, FrameBytes, Bpp
  <2> QED BY <2>2, <2>3
<1> QED BY <1>4, <1>5, <1>6, <1>7, <1>8 DEF StreamNext

LEMMA IntegrityStart == StreamInit => IntegrityInv
<1> SUFFICES ASSUME StreamInit PROVE IntegrityInv
  OBVIOUS
<1>1. CleanInv /\ poc.pixels_len = mode /\ isBlitting = 0
  BY CleanStart, StreamStart DEF StreamInit
<1> QED BY <1>1 DEF IntegrityInv, DisagreeOK, OpenOK

(* The datagram after which a header is complete. *)
LEMMA CompletesWhole ==
  ASSUME IntegrityInv, LongRests, RestsDiffer, Deliver, isBlitting = 1, HeaderComplete',
         Head(net).index # 0
  PROVE  PlacedIsFrame(poc.frame_recv)'
<1> DEFINE m == Head(net)
           p == m.p
<1>1. /\ CleanInv /\ OpenOK /\ RInv /\ StreamTypeOK /\ SessionOK /\ CallOK /\ PayloadOK
  BY DEF IntegrityInv, CleanInv
<1>2. /\ net # <<>> /\ pc = "poll" /\ net' = Tail(net) /\ net \in Seq(MessageType)
      /\ UNCHANGED <<frame, losses>> /\ m \in MessageType
      /\ placed' = IF isBlitting = 1 /\ PayloadBoundsValid(p.len)
                   THEN Append(placed, <<m.kind, m.of, m.index>>) ELSE placed
  BY <1>1, Delivered
<1>3. Receives(p) /\ PayloadBoundsValid(p.len)
  BY <1>1, ChunkOutcome
<1>4. poc.bytes_recv + p.len = PayloadLength /\ poc'.frame_recv = poc.frame_recv
  <2>1. isBlitting' # 1
    BY DEF HeaderComplete
  <2> HIDE DEF p
  <2> QED BY <1>3, <2>1 DEF Receives, SameFrame
<1>5. poc.bytes_recv = Len(placed) * ChunkLen /\ (Own \/ Behind \/ Overrun)
  BY <1>1 DEF OpenOK
<1>6. /\ placed \in Seq(Kinds \X Nat \X Nat) /\ Len(placed) \in Nat
      /\ frame \in Nat
  BY <1>1, LenProperties DEF StreamTypeOK
<1>7. /\ PayloadLength \in FrameSizes /\ PayloadLength \in Nat /\ PayloadLength > ChunkLen
      /\ PayloadLength % ChunkLen # 0
  BY <1>1, OpenPayload, RestOfFrame
<1>8. ASSUME NEW total \in Payloads, NEW j \in Nat, j < Chunks(total),
             p.len = LengthOf(total, j + 1)
      PROVE  /\ p.len \in Nat /\ p.len < ChunkLen /\ j * ChunkLen + p.len = total
             /\ p.len = PayloadLength % ChunkLen /\ p.len = total % ChunkLen
             /\ total = PayloadLength => Len(placed) = j
  <2>1. total \in Nat \ {0}
    BY PayloadSizes
  <2> DEFINE len == p.len
             n == Len(placed)
  <2>2. /\ len \in 1 .. ChunkLen
        /\ j + 1 < Chunks(total) => len = ChunkLen
        /\ j + 1 = Chunks(total) => j * ChunkLen + len = total
    BY <1>8, <2>1, ChunkLength
  <2>3. n * ChunkLen + len = PayloadLength /\ n \in Nat
    BY <1>4, <1>5, <1>6
  <2>4. Chunks(total) \in Nat
    BY <2>1, ChunkCount
  <2> HIDE DEF len, n, p
  <2>5. len # ChunkLen
    BY <1>7, <2>3 DEF ChunkLen
  <2>6. j + 1 = Chunks(total) /\ j * ChunkLen + len = total
    BY <1>8, <2>2, <2>4, <2>5
  <2>7. /\ PayloadLength % ChunkLen = len /\ total % ChunkLen = len
        /\ len \in Nat /\ len < ChunkLen
    BY <2>2, <2>3, <2>5, <2>6 DEF ChunkLen
  <2>8. total = PayloadLength => n = j
    BY <2>2, <2>3, <2>6 DEF ChunkLen
  <2> QED BY <2>6, <2>7, <2>8 DEF len, n
<1>9. ~Behind
  BY DEF Behind
<1>10. ~Overrun
  <2> SUFFICES ASSUME NEW kind \in Kinds, NEW n \in Nat, NEW total \in Payloads,
                      Streaming(net, kind, n, total, 0)
               PROVE  FALSE
    BY <1>2 DEF Overrun
  <2>1. total \in Nat \ {0} /\ 0 \in Nat /\ 0 + 1 = 1
    BY PayloadSizes
  <2>2. 0 < Chunks(total) /\ p.len = LengthOf(total, 0 + 1)
    BY <1>2, <2>1, StreamIsPayload
  <2>3. /\ p.len \in Nat /\ p.len < ChunkLen /\ 0 * ChunkLen + p.len = total
        /\ p.len = PayloadLength % ChunkLen
    BY <1>8, <2>1, <2>2
  <2>4. total < ChunkLen /\ total = PayloadLength % ChunkLen
    <3> HIDE DEF p
    <3> QED BY <2>1, <2>3 DEF ChunkLen
  <2>5. total \notin FrameSizes
    BY <2>1, <2>4, RestOfFrame DEF ChunkLen
  <2>6. total \in Sounds /\ total <= ChunkLen
    BY <2>1, <2>4, <2>5 DEF Payloads, ChunkLen
  <2> QED BY <1>7, <2>4, <2>6 DEF RestsDiffer
<1>11. PICK total \in FrameSizes, j \in Nat :
         /\ Streaming(net, "frame", frame, total, j) /\ total \in FrameBytes /\ poc.frame_recv = frame
         /\ ~PlacedIsFrame(frame) => Len(placed) < j
         /\ total # PayloadLength => losses >= 1 /\ blitCompression = 0
  BY <1>5, <1>9, <1>10 DEF Own
<1>12. total \in Nat \ {0} /\ total \in Payloads /\ "frame" \in Kinds
  BY PayloadSizes DEF Kinds
<1>13. /\ j < Chunks(total) /\ p.len = LengthOf(total, j + 1)
       /\ m.kind = "frame" /\ m.of = frame /\ m.index = j + 1
  BY <1>2, <1>6, <1>11, <1>12, StreamIsPayload
<1>14. total = PayloadLength
  <2> SUFFICES ASSUME blitCompression = 0 PROVE total = PayloadLength
    BY <1>11
  <2>1. /\ total = mode * Bpp(0) /\ PayloadLength = poc.pixels_len * Bpp(0)
        /\ mode \in Modes /\ poc.pixels_len \in Modes
    BY <1>1, <1>11, OpenPayload
       DEF FrameBytes, PayloadLength, StreamTypeOK, SessionOK, RInv, WholePixels
  <2>2. total % ChunkLen = PayloadLength % ChunkLen
    BY <1>8, <1>12, <1>13
  <2> QED BY <2>1, <2>2 DEF RestsDiffer
<1>15. Len(placed) = j
  BY <1>8, <1>12, <1>13, <1>14
<1>16. PlacedIsFrame(frame)
  BY <1>11, <1>15
<1>17. placed' = Append(placed, <<"frame", frame, Len(placed) + 1>>)
  BY <1>2, <1>3, <1>13, <1>15
<1>18. PlacedIsFrame(frame)'
  BY <1>2, <1>6, <1>16, <1>17, AppendIsFrame DEF PlacedIsFrame
<1> QED BY <1>2, <1>4, <1>11, <1>18 DEF PlacedIsFrame

LEMMA WholeWhenComplete ==
  ASSUME IntegrityInv, LongRests, RestsDiffer, StreamNext, isBlitting = 1, HeaderComplete'
  PROVE  PlacedIsFrame(poc.frame_recv)'
<1>1. CleanInv /\ RInv /\ StreamTypeOK
  BY DEF IntegrityInv, CleanInv
<1>2. isBlitting' # 1
  BY DEF HeaderComplete
<1>3. ~(Switch \/ Frame \/ Sound)
  BY <1>1, <1>2, CallMade DEF vars, blit
<1>4. ~Lose
  BY <1>2 DEF Lose, vars, blit
<1>5. ~Redispatch
  BY <1>1, HandledAtRest DEF Redispatch
<1>6. Deliver
  BY <1>3, <1>4, <1>5 DEF StreamNext
<1>7. Head(net).index # 0
  BY <1>1, <1>6, CommandLoses
<1> QED BY <1>6, <1>7, CompletesWhole

(* When the header says that a frame is complete, its pixels are those the     *)
(* client sent for that frame, however the datagrams of frames, sound and      *)
(* commands were thinned out by two losses.                                    *)
THEOREM FramesKeepTheirPixels ==
  ASSUME SizesFit, LongRests, RestsDiffer, MaxLosses <= 2
  PROVE  StreamSpec => FrameIntegrity
<1>1. StreamInit => IntegrityInv
  BY IntegrityStart
<1>2. IntegrityInv /\ [StreamNext]_streamVars => IntegrityInv'
  BY IntegrityStep
<1>3. IntegrityInv /\ StreamNext =>
        (isBlitting = 1 /\ HeaderComplete' => PlacedIsFrame(poc.frame_recv)')
  BY WholeWhenComplete
<1> QED BY <1>1, <1>2, <1>3, PTL DEF StreamSpec, FrameIntegrity
=============================================================================
