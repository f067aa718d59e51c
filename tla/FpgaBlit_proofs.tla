---------------------------- MODULE FpgaBlit_proofs ----------------------------
(***************************************************************************)
(* Theorems about FpgaBlit, for every width of a header byte, size of      *)
(* pixel, chunk, burst and modeline, and any number of frames, modelines,  *)
(* sounds, sessions and empty FIFOs.                                       *)
(*                                                                         *)
(* The core may read the header between any two writes of its bytes.  The  *)
(* invariant says what the header may say meanwhile: never a frame after   *)
(* the one told, and of that frame never a pixel more than has come; then  *)
(* what a word read earlier, and the registers loaded from it, may still   *)
(* say now that the server has gone on.                                    *)
(***************************************************************************)
EXTENDS FpgaBlit, TLAPS, SequenceTheorems

-----------------------------------------------------------------------------
(* The inductive invariant *)

(* Of the writes s: one goes to this place; none of another value does; bytes  *)
(* are bytes and modelines have pixels; in the order of the handlers, but for *)
(* setInit.                                                                   *)
Has(s, at) == \E i \in DOMAIN s : s[i][1] = at

Value(s, at, v) == \A i \in DOMAIN s : s[i][1] = at => s[i][2] = v

Small(s) == \A i \in DOMAIN s :
  /\ s[i][1] < ModelineAt => s[i][2] < Byte
  /\ s[i][1] = ModelineAt => s[i][2] > 0

Rank(at) == IF at < PixelsAt THEN at + 6
            ELSE IF at > NumBlitAt + 1 THEN at + 2 ELSE at

Ordered(s) == \A i, j \in DOMAIN s : i < j => Rank(s[i][1]) < Rank(s[j][1])

(* A write of the handler under way to this place is still to come. *)
Pending(at) == Has(todo, at)

Writes == (FrameAt .. SpiInit) \X Nat

(* The frame told to the core is the one the server receives, or has received *)
(* whole.                                                                     *)
Receiving ==
  /\ hps.told = hps.recv /\ hps.told > hps.mode
  /\ hps.open \/ hps.bytes = hps.len

PixelsCome == hps.bytes \div PixelBytes

HpsType == [recv : Nat, told : Nat, bytes : Nat, len : Nat, open : BOOLEAN,
            numBlit : Nat, mode : Nat, waits : BOOLEAN]

HpsOK ==
  /\ hpsBlit \in {0, 1}
  /\ hps \in HpsType
  /\ hps.told <= hps.recv /\ hps.mode <= hps.told
  /\ hps.open => /\ hps.bytes < hps.len /\ hps.recv > hps.mode
                 /\ hpsBlit = 0 => hps.told = hps.recv
  /\ hps.waits => hps = NewSession

TodoOK ==
  /\ todo \in Seq(Writes) /\ Small(todo)
  /\ ~hps.waits => Ordered(todo)

(* What the header says of the frame told, byte by byte: the number is never  *)
(* above the one told, and below it until both of its bytes are written.      *)
FrameOK ==
  /\ Value(todo, FrameAt, hps.told % Byte)
  /\ Value(todo, FrameAt + 1, (hps.told \div Byte) % Byte)
  /\ ~Pending(FrameAt) => header[FrameAt] = hps.told % Byte
  /\ ~Pending(FrameAt + 1) => header[FrameAt + 1] = (hps.told \div Byte) % Byte
  /\ ~hps.waits => Field(header, FrameAt) <= hps.told
  /\ ~hps.waits /\ Pending(FrameAt) =>
       Pending(FrameAt + 1) /\ Field(header, FrameAt) < hps.told

(* Once the frame's number is written, and before it once both bytes of its   *)
(* pixels are, the header announces no pixel that has not come.               *)
PixelsOK ==
  Receiving =>
    /\ Value(todo, PixelsAt, PixelsCome % Byte)
    /\ Value(todo, PixelsAt + 1, (PixelsCome \div Byte) % Byte)
    /\ Pending(PixelsAt) => Pending(PixelsAt + 1)
    /\ Pending(PixelsAt + 1) /\ ~Pending(PixelsAt) =>
         header[PixelsAt] = PixelsCome % Byte
    /\ ~Pending(FrameAt) \/ ~Pending(PixelsAt + 1) =>
         Field(header, PixelsAt) <= PixelsCome

(* The modeline on its way to the core, and whether it runs a session. *)
ModelineOK ==
  /\ \A i \in DOMAIN todo :
       todo[i][1] = ModelineAt => todo[i][2] * PixelBytes = hps.len
  /\ Value(todo, SpiSwitchres, hps.mode)
  /\ Value(todo, SpiInit, IF hps.waits THEN 0 ELSE 1)
  /\ Pending(SpiSwitchres) => hps.mode = hps.told /\ ~hps.waits /\ ~Pending(SpiInit)
  /\ Pending(ModelineAt) => Pending(SpiSwitchres)
  /\ hps.waits \/ Pending(SpiInit) => hps.len = 0
  /\ ~Pending(ModelineAt) /\ hps.len > 0 => modeline * PixelBytes = hps.len
  /\ hps.waits /\ ~Pending(SpiInit) => ~latch.init /\ ~latch.switchres
  /\ ~hps.waits /\ Pending(SpiInit) =>
       state = "S_Idle" /\ ~latch.init /\ ~latch.switchres
  /\ ~hps.waits => state # "S_Defaults" /\ (~Pending(SpiInit) => latch.init)
  /\ ~hps.waits /\ latch.switchres /\ ~Pending(SpiSwitchres) => latch.frame = hps.mode
  /\ ~hps.waits /\ hps.len > 0 /\ ~Pending(SpiSwitchres) /\ ~latch.switchres =>
       /\ state \notin {"S_Switchres_Header", "S_Switchres_PLL"}
            => vga.pixels * PixelBytes = hps.len
       /\ state = "S_Switchres_PLL" => ddr[1] * PixelBytes = hps.len

LatchType == [init : BOOLEAN, blit : BOOLEAN, switchres : BOOLEAN, frame : Nat,
              audio : Nat]
VgaType   == [frame : Nat, pixels : Nat, held : BOOLEAN, started : BOOLEAN]
VramType  == [pixels : Nat, synced : BOOLEAN]
UsedType  == [blits : Nat, modes : Nat, sounds : Nat, inits : Nat, starved : Nat]
PoCType   == [frame_ddr : Nat, bl_ddr : Nat, px_ddr : Nat, ddr_bytes : Nat,
              frame_vram : Nat, bl_vram : Nat, px_vram : Nat, vram_bytes : Nat,
              rgb_offset : Nat]

Fetching == {"S_Blit_Prepare_Raw", "S_Blit_Copy_Raw", "S_Blit_End_Raw"}
Drawing  == Fetching \cup {"S_Blit_Raw"}

(* The registers of the core and of the video module *)
RegistersOK ==
  /\ state \in States /\ auto_blit \in BOOLEAN
  /\ header \in [FrameAt .. NumBlitAt + 1 -> 0 .. Byte - 1]
  /\ modeline \in Nat \ {0}
  /\ latch \in LatchType /\ vga \in VgaType /\ vram \in VramType /\ used \in UsedType
  /\ vga.pixels > 0
  /\ burst \in 0 .. MaxBurst /\ (burst > 0 <=> state = "S_Blit_Copy_Raw")
  /\ audio \in Nat /\ (audio > 0 <=> state = "S_Audio")
  /\ PoC \in PoCType
  /\ PoC.rgb_offset <= 2 /\ PoC.bl_ddr <= Abort /\ PoC.bl_vram < Abort
  /\ state \in Fetching => PoC.px_vram <= PoC.px_ddr
  /\ (PoC.px_vram > 0 \/ state \in Fetching) /\ state # "S_Idle"
       => PoC.frame_vram < PoC.frame_ddr

(* The word read, and what of it the server has not made stale *)
ReadOK ==
  /\ state = "S_Switchres_PLL" => ddr = <<ddr[1]>> /\ ddr[1] \in Nat \ {0}
  /\ state = "S_Blit_Header_Raw" /\ ddr # NoWord =>
       /\ ddr \in [FrameAt .. NumBlitAt + 1 -> 0 .. Byte - 1]
       /\ ~hps.waits => Field(ddr, FrameAt) <= hps.told
       /\ Receiving /\ Field(ddr, FrameAt) = hps.told
            => Field(ddr, PixelsAt) <= PixelsCome
  /\ state \notin {"S_Switchres_PLL", "S_Blit_Header_Raw"} => ddr = NoWord

(* The frame being drawn is not above the one told, nor, with a modeline      *)
(* waiting, above that modeline's; its pixels are those that came.            *)
DrawnOK ==
  state # "S_Idle" =>
    /\ ~hps.waits /\ (state \in Drawing \/ PoC.px_vram > 0)
         => PoC.frame_ddr <= hps.told
    /\ ~hps.waits /\ (state \in Drawing \/ PoC.px_vram > 0)
         => (latch.switchres /\ used.starved = 0 => PoC.frame_ddr <= latch.frame)
    /\ state \in Drawing /\ Receiving /\ PoC.frame_ddr = hps.told
         => PoC.px_ddr <= PixelsCome

(* The video FIFO and the pixels drawn *)
AlignedOK ==
  used.starved = 0 =>
    /\ vram.synced
    /\ state # "S_Idle" =>
         /\ PoC.px_vram > 0 /\ PoC.px_vram <= vga.pixels => vram.pixels = PoC.px_vram
         /\ state \in Fetching /\ PoC.px_vram = 0 => vram.pixels \in {0, vga.pixels}
         /\ state \notin {"S_Blit_Copy_Raw", "S_Blit_End_Raw"}
              => PoC.px_vram < vga.pixels

FpgaInv ==
  /\ HpsOK /\ TodoOK /\ FrameOK /\ PixelsOK /\ ModelineOK
  /\ RegistersOK /\ ReadOK /\ DrawnOK /\ AlignedOK

-----------------------------------------------------------------------------
(* Numbers *)

LEMMA Constants ==
  /\ PixelBytes \in {2, 3, 4} /\ WordBytes = 8
  /\ ChunkBytes \in Nat \ {0} /\ MaxBurst \in Nat \ {0} /\ Byte \in Nat /\ Byte > 1
  /\ DefaultPixels \in Nat \ {0} /\ Modes \subseteq Nat \ {0}
  /\ BlitSettings \subseteq {0, 1} /\ MaxFrame \in Nat
  BY FpgaAssumption DEF FpgaAssumption

LEMMA DivMod ==
  ASSUME NEW B \in Nat \ {0}, NEW v \in Nat
  PROVE  /\ v \div B \in Nat /\ v % B \in 0 .. B - 1
         /\ v = B * (v \div B) + (v % B)
  BY SMT

LEMMA MulMono ==
  ASSUME NEW B \in Nat, NEW p \in Nat, NEW q \in Nat, p <= q
  PROVE  B * p <= B * q
  BY SMT

LEMMA MulLess ==
  ASSUME NEW B \in Nat \ {0}, NEW p \in Nat, NEW q \in Nat, B * p < B * q + B
  PROVE  p <= q
<1> SUFFICES ASSUME p > q PROVE FALSE
  OBVIOUS
<1>1. p = q + 1 + (p - q - 1) /\ p - q - 1 \in Nat
  OBVIOUS
<1>2. PICK d \in Nat : p = q + 1 + d
  BY <1>1
<1>3. B * p = B * q + B + B * d /\ B * d >= 0
  BY <1>2
<1> QED BY <1>3

(* A number written in two bytes is itself or less. *)
LEMMA TwoBytes ==
  ASSUME NEW B \in Nat \ {0}, NEW v \in Nat
  PROVE  (v % B) + B * ((v \div B) % B) <= v
<1> DEFINE w == v \div B
<1>1. w \in Nat /\ v % B \in 0 .. B - 1 /\ v = B * w + (v % B)
  BY DivMod
<1> HIDE DEF w
<1>2. w % B \in 0 .. B - 1 /\ w = B * (w \div B) + (w % B) /\ w \div B \in Nat
  BY <1>1, DivMod
<1>3. B * (w \div B) >= 0
  BY <1>2
<1>4. w % B \in Nat /\ w % B <= w
  BY <1>1, <1>2, <1>3
<1>5. B * (w % B) <= B * w
  BY <1>1, <1>4, MulMono
<1>6. (v % B) + B * (w % B) <= v
  BY <1>1, <1>4, <1>5
<1> QED BY <1>6 DEF w

(* With the low byte of a larger number, a number does not pass it. *)
LEMMA TornNumber ==
  ASSUME NEW B \in Nat \ {0}, NEW v \in Nat, NEW lo \in 0 .. B - 1, NEW hi \in 0 .. B - 1,
         lo + B * hi <= v
  PROVE  (v % B) + B * hi <= v
<1>1. v \div B \in Nat /\ v % B \in 0 .. B - 1 /\ v = B * (v \div B) + (v % B)
  BY DivMod
<1>2. B * hi < B * (v \div B) + B
  BY <1>1
<1>3. hi <= v \div B
  BY <1>1, <1>2, MulLess
<1>4. B * hi <= B * (v \div B)
  BY <1>1, <1>3, MulMono
<1> QED BY <1>1, <1>4

(* Whole pixels take no more bytes than there are. *)
LEMMA WholePixels ==
  ASSUME NEW b \in Nat
  PROVE  /\ b \div PixelBytes \in Nat
         /\ (b \div PixelBytes) * PixelBytes <= b
         /\ \A c \in Nat : b <= c => b \div PixelBytes <= c \div PixelBytes
<1>1. PixelBytes = 2 \/ PixelBytes = 3 \/ PixelBytes = 4
  BY Constants
<1> QED BY <1>1

LEMMA ByteRange ==
  ASSUME NEW v \in Nat
  PROVE  /\ v % Byte \in 0 .. Byte - 1 /\ v \div Byte \in Nat
         /\ (v \div Byte) % Byte \in 0 .. Byte - 1
<1>1. Byte \in Nat \ {0}
  BY Constants
<1>2. v % Byte \in 0 .. Byte - 1 /\ v \div Byte \in Nat
  BY <1>1, DivMod
<1> QED BY <1>1, <1>2, DivMod

-----------------------------------------------------------------------------
(* What a handler writes *)

PixelWrites(v, nb) ==
  << <<3, v % Byte>>, <<4, (v \div Byte) % Byte>>,
     <<5, nb % Byte>>, <<6, (nb \div Byte) % Byte>> >>

NewFrameWrites(n, v, nb) ==
  << <<3, v % Byte>>, <<4, (v \div Byte) % Byte>>,
     <<5, nb % Byte>>, <<6, (nb \div Byte) % Byte>>,
     <<1, n % Byte>>, <<2, (n \div Byte) % Byte>>, <<8, 1>> >>

(* Explicit sequences joined *)
LEMMA Joined ==
  ASSUME NEW S, NEW s \in Seq(S), NEW t \in Seq(S), NEW u \in Seq(S),
         Len(u) = Len(s) + Len(t),
         \A i \in 1 .. Len(u) : u[i] = IF i <= Len(s) THEN s[i] ELSE t[i - Len(s)]
  PROVE  s \o t = u
<1>1. /\ s \o t \in Seq(S) /\ Len(s \o t) = Len(s) + Len(t)
      /\ \A i \in 1 .. Len(s) + Len(t) :
           (s \o t)[i] = IF i <= Len(s) THEN s[i] ELSE t[i - Len(s)]
  BY ConcatProperties
<1> QED BY <1>1, SeqEqual

LEMMA Joined2and1 ==
  ASSUME NEW a, NEW b, NEW c
  PROVE  <<a, b>> \o <<c>> = <<a, b, c>>
<1> DEFINE S == {a, b, c}
           s == <<a, b>>
           t == <<c>>
           u == <<a, b, c>>
<1>1. s \in Seq(S) /\ t \in Seq(S) /\ u \in Seq(S)
  OBVIOUS
<1>2. Len(s) = 2 /\ Len(t) = 1 /\ Len(u) = 3
  OBVIOUS
<1>3. \A i \in 1 .. 3 : u[i] = IF i <= 2 THEN s[i] ELSE t[i - 2]
  OBVIOUS
<1> HIDE DEF S, s, t, u
<1>4. /\ Len(u) = Len(s) + Len(t)
      /\ \A i \in 1 .. Len(u) : u[i] = IF i <= Len(s) THEN s[i] ELSE t[i - Len(s)]
  BY <1>2, <1>3
<1>5. s \o t = u
  BY <1>1, <1>4, Joined
<1> QED BY <1>5 DEF s, t, u

LEMMA Joined2and2 ==
  ASSUME NEW a, NEW b, NEW c, NEW d
  PROVE  <<a, b>> \o <<c, d>> = <<a, b, c, d>>
<1> DEFINE S == {a, b, c, d}
           s == <<a, b>>
           t == <<c, d>>
           u == <<a, b, c, d>>
<1>1. s \in Seq(S) /\ t \in Seq(S) /\ u \in Seq(S)
  OBVIOUS
<1>2. Len(s) = 2 /\ Len(t) = 2 /\ Len(u) = 4
  OBVIOUS
<1>3. \A i \in 1 .. 4 : u[i] = IF i <= 2 THEN s[i] ELSE t[i - 2]
  OBVIOUS
<1> HIDE DEF S, s, t, u
<1>4. /\ Len(u) = Len(s) + Len(t)
      /\ \A i \in 1 .. Len(u) : u[i] = IF i <= Len(s) THEN s[i] ELSE t[i - Len(s)]
  BY <1>2, <1>3
<1>5. s \o t = u
  BY <1>1, <1>4, Joined
<1> QED BY <1>5 DEF s, t, u

LEMMA Joined4and2 ==
  ASSUME NEW a, NEW b, NEW c, NEW d, NEW e, NEW f
  PROVE  <<a, b, c, d>> \o <<e, f>> = <<a, b, c, d, e, f>>
<1> DEFINE S == {a, b, c, d, e, f}
           s == <<a, b, c, d>>
           t == <<e, f>>
           u == <<a, b, c, d, e, f>>
<1>1. s \in Seq(S) /\ t \in Seq(S) /\ u \in Seq(S)
  OBVIOUS
<1>2. Len(s) = 4 /\ Len(t) = 2 /\ Len(u) = 6
  OBVIOUS
<1>3. \A i \in 1 .. 6 : u[i] = IF i <= 4 THEN s[i] ELSE t[i - 4]
  OBVIOUS
<1> HIDE DEF S, s, t, u
<1>4. /\ Len(u) = Len(s) + Len(t)
      /\ \A i \in 1 .. Len(u) : u[i] = IF i <= Len(s) THEN s[i] ELSE t[i - Len(s)]
  BY <1>2, <1>3
<1>5. s \o t = u
  BY <1>1, <1>4, Joined
<1> QED BY <1>5 DEF s, t, u

LEMMA Joined4and3 ==
  ASSUME NEW a, NEW b, NEW c, NEW d, NEW e, NEW f, NEW g
  PROVE  <<a, b, c, d>> \o <<e, f, g>> = <<a, b, c, d, e, f, g>>
<1> DEFINE S == {a, b, c, d, e, f, g}
           s == <<a, b, c, d>>
           t == <<e, f, g>>
           u == <<a, b, c, d, e, f, g>>
<1>1. s \in Seq(S) /\ t \in Seq(S) /\ u \in Seq(S)
  OBVIOUS
<1>2. Len(s) = 4 /\ Len(t) = 3 /\ Len(u) = 7
  OBVIOUS
<1>3. \A i \in 1 .. 7 : u[i] = IF i <= 4 THEN s[i] ELSE t[i - 4]
  OBVIOUS
<1> HIDE DEF S, s, t, u
<1>4. /\ Len(u) = Len(s) + Len(t)
      /\ \A i \in 1 .. Len(u) : u[i] = IF i <= Len(s) THEN s[i] ELSE t[i - Len(s)]
  BY <1>2, <1>3
<1>5. s \o t = u
  BY <1>1, <1>4, Joined
<1> QED BY <1>5 DEF s, t, u

LEMMA Joined6and1 ==
  ASSUME NEW a, NEW b, NEW c, NEW d, NEW e, NEW f, NEW g
  PROVE  <<a, b, c, d, e, f>> \o <<g>> = <<a, b, c, d, e, f, g>>
<1> DEFINE S == {a, b, c, d, e, f, g}
           s == <<a, b, c, d, e, f>>
           t == <<g>>
           u == <<a, b, c, d, e, f, g>>
<1>1. s \in Seq(S) /\ t \in Seq(S) /\ u \in Seq(S)
  OBVIOUS
<1>2. Len(s) = 6 /\ Len(t) = 1 /\ Len(u) = 7
  OBVIOUS
<1>3. \A i \in 1 .. 7 : u[i] = IF i <= 6 THEN s[i] ELSE t[i - 6]
  OBVIOUS
<1> HIDE DEF S, s, t, u
<1>4. /\ Len(u) = Len(s) + Len(t)
      /\ \A i \in 1 .. Len(u) : u[i] = IF i <= Len(s) THEN s[i] ELSE t[i - Len(s)]
  BY <1>2, <1>3
<1>5. s \o t = u
  BY <1>1, <1>4, Joined
<1> QED BY <1>5 DEF s, t, u

LEMMA PixelWritesSeq ==
  ASSUME NEW v \in Nat, NEW nb \in Nat
  PROVE  PixelWrites(v, nb) \in Seq(Writes)
<1>1. /\ v % Byte \in Nat /\ (v \div Byte) % Byte \in Nat
      /\ nb % Byte \in Nat /\ (nb \div Byte) % Byte \in Nat
  BY ByteRange, Constants
<1> QED BY <1>1 DEF PixelWrites, Writes, FrameAt, SpiInit

LEMMA BlitWrites ==
  ASSUME NEW n \in Nat, NEW bytes \in Nat, NEW nb \in Nat
  PROVE  FPGA_blit(n, bytes, nb) =
           IF hps.told # n THEN NewFrameWrites(n, bytes \div PixelBytes, nb)
                           ELSE PixelWrites(bytes \div PixelBytes, nb)
<1> DEFINE v == bytes \div PixelBytes
<1>1. v \in Nat
  BY WholePixels
<1> HIDE DEF v
<1>2. Put(PixelsAt, v) \o Put(NumBlitAt, nb) = PixelWrites(v, nb)
  <2>1. /\ Put(PixelsAt, v) = << <<3, v % Byte>>, <<4, (v \div Byte) % Byte>> >>
        /\ Put(NumBlitAt, nb) = << <<5, nb % Byte>>, <<6, (nb \div Byte) % Byte>> >>
    BY DEF Put, PixelsAt, NumBlitAt
  <2> QED BY <2>1, Joined2and2 DEF PixelWrites
<1>3. PixelWrites(v, nb) \o <<>> = PixelWrites(v, nb)
  BY ConcatEmptySeq, PixelWritesSeq
<1>4. Put(FrameAt, n) \o << <<SpiBlit, 1>> >>
        = << <<1, n % Byte>>, <<2, (n \div Byte) % Byte>>, <<8, 1>> >>
  <2>1. Put(FrameAt, n) = << <<1, n % Byte>>, <<2, (n \div Byte) % Byte>> >>
    BY DEF Put, FrameAt
  <2> QED BY <2>1, Joined2and1 DEF SpiBlit
<1>5. PixelWrites(v, nb) \o << <<1, n % Byte>>, <<2, (n \div Byte) % Byte>>, <<8, 1>> >>
        = NewFrameWrites(n, v, nb)
  BY Joined4and3 DEF PixelWrites, NewFrameWrites
<1>6. FPGA_blit(n, bytes, nb) = (Put(PixelsAt, v) \o Put(NumBlitAt, nb))
        \o (IF hps.told # n THEN Put(FrameAt, n) \o << <<SpiBlit, 1>> >> ELSE <<>>)
  BY DEF FPGA_blit, v
<1> QED BY <1>2, <1>3, <1>4, <1>5, <1>6 DEF v

LEMMA PixelWritesFacts ==
  ASSUME NEW v \in Nat, NEW nb \in Nat
  PROVE  LET s == PixelWrites(v, nb)
         IN  /\ s \in Seq(Writes) /\ Small(s) /\ Ordered(s)
             /\ Value(s, 3, v % Byte) /\ Value(s, 4, (v \div Byte) % Byte)
             /\ Has(s, 3) /\ Has(s, 4)
             /\ ~Has(s, 1) /\ ~Has(s, 2) /\ ~Has(s, 7) /\ ~Has(s, 9) /\ ~Has(s, 11)
<1> DEFINE s == PixelWrites(v, nb)
<1>1. /\ v % Byte \in 0 .. Byte - 1 /\ (v \div Byte) % Byte \in 0 .. Byte - 1
      /\ nb % Byte \in 0 .. Byte - 1 /\ (nb \div Byte) % Byte \in 0 .. Byte - 1
      /\ Byte \in Nat
  BY ByteRange, Constants
<1>2. DOMAIN s = 1 .. 4
  BY DEF PixelWrites
<1>3. /\ s[1] = <<3, v % Byte>> /\ s[2] = <<4, (v \div Byte) % Byte>>
      /\ s[3] = <<5, nb % Byte>> /\ s[4] = <<6, (nb \div Byte) % Byte>>
  BY DEF PixelWrites
<1>4. s \in Seq(Writes)
  BY PixelWritesSeq
<1> HIDE DEF s
<1>5. Small(s)
  BY <1>1, <1>2, <1>3 DEF Small, ModelineAt
<1>6. Ordered(s)
  BY <1>2, <1>3 DEF Ordered, Rank, PixelsAt, NumBlitAt
<1>7. Value(s, 3, v % Byte) /\ Value(s, 4, (v \div Byte) % Byte)
  BY <1>2, <1>3 DEF Value
<1>8. /\ Has(s, 3) /\ Has(s, 4)
      /\ ~Has(s, 1) /\ ~Has(s, 2) /\ ~Has(s, 7) /\ ~Has(s, 9) /\ ~Has(s, 11)
  BY <1>2, <1>3 DEF Has
<1> QED BY <1>4, <1>5, <1>6, <1>7, <1>8 DEF s

LEMMA NewFrameWritesFacts ==
  ASSUME NEW n \in Nat, NEW v \in Nat, NEW nb \in Nat
  PROVE  LET s == NewFrameWrites(n, v, nb)
         IN  /\ s \in Seq(Writes) /\ Small(s) /\ Ordered(s)
             /\ Value(s, 1, n % Byte) /\ Value(s, 2, (n \div Byte) % Byte)
             /\ Value(s, 3, v % Byte) /\ Value(s, 4, (v \div Byte) % Byte)
             /\ Has(s, 1) /\ Has(s, 2) /\ Has(s, 3) /\ Has(s, 4)
             /\ ~Has(s, 7) /\ ~Has(s, 9) /\ ~Has(s, 11)
<1> DEFINE s == NewFrameWrites(n, v, nb)
<1>1. /\ v % Byte \in 0 .. Byte - 1 /\ (v \div Byte) % Byte \in 0 .. Byte - 1
      /\ n % Byte \in 0 .. Byte - 1 /\ (n \div Byte) % Byte \in 0 .. Byte - 1
      /\ nb % Byte \in 0 .. Byte - 1 /\ (nb \div Byte) % Byte \in 0 .. Byte - 1
      /\ Byte \in Nat
  BY ByteRange, Constants
<1>2. DOMAIN s = 1 .. 7
  BY DEF NewFrameWrites
<1>3. /\ s[1] = <<3, v % Byte>> /\ s[2] = <<4, (v \div Byte) % Byte>>
      /\ s[3] = <<5, nb % Byte>> /\ s[4] = <<6, (nb \div Byte) % Byte>>
      /\ s[5] = <<1, n % Byte>> /\ s[6] = <<2, (n \div Byte) % Byte>>
      /\ s[7] = <<8, 1>>
  BY DEF NewFrameWrites
<1>4. s \in Seq(Writes)
  BY <1>1 DEF NewFrameWrites, Writes, FrameAt, SpiInit
<1> HIDE DEF s
<1>5. Small(s)
  BY <1>1, <1>2, <1>3 DEF Small, ModelineAt
<1>6. Ordered(s)
  BY <1>2, <1>3 DEF Ordered, Rank, PixelsAt, NumBlitAt
<1>7. /\ Value(s, 1, n % Byte) /\ Value(s, 2, (n \div Byte) % Byte)
      /\ Value(s, 3, v % Byte) /\ Value(s, 4, (v \div Byte) % Byte)
  BY <1>2, <1>3 DEF Value
<1>8. /\ Has(s, 1) /\ Has(s, 2) /\ Has(s, 3) /\ Has(s, 4)
      /\ ~Has(s, 7) /\ ~Has(s, 9) /\ ~Has(s, 11)
  BY <1>2, <1>3 DEF Has
<1> QED BY <1>4, <1>5, <1>6, <1>7, <1>8 DEF s

(* The next write done, the others keep their order and values. *)
LEMMA TailFacts ==
  ASSUME NEW s \in Seq(Writes), s # <<>>
  PROVE  /\ Head(s) \in Writes /\ Tail(s) \in Seq(Writes)
         /\ \A i \in DOMAIN Tail(s) : i + 1 \in DOMAIN s /\ Tail(s)[i] = s[i + 1]
         /\ 1 \in DOMAIN s /\ Head(s) = s[1]
         /\ Small(s) =>
              /\ Small(Tail(s))
              /\ Head(s)[1] < ModelineAt => Head(s)[2] < Byte
              /\ Head(s)[1] = ModelineAt => Head(s)[2] > 0
         /\ \A at, v : Value(s, at, v) =>
              /\ Value(Tail(s), at, v)
              /\ Head(s)[1] = at => Head(s)[2] = v
         /\ \A at : Has(s, at) <=> at = Head(s)[1] \/ Has(Tail(s), at)
         /\ Ordered(s) =>
              /\ Ordered(Tail(s))
              /\ \A at : Has(Tail(s), at) => Rank(Head(s)[1]) < Rank(at)
<1> DEFINE t == Tail(s)
           h == Head(s)
<1>1. /\ h \in Writes /\ t \in Seq(Writes) /\ Len(t) = Len(s) - 1
      /\ \A i \in 1 .. Len(t) : t[i] = s[i + 1]
      /\ Len(s) \in Nat \ {0} /\ Len(t) \in Nat /\ h = s[1]
  BY HeadTailProperties, EmptySeq, LenProperties
<1>2. DOMAIN s = 1 .. Len(s) /\ DOMAIN t = 1 .. Len(t)
  BY <1>1
<1> HIDE DEF t, h
<1>3. \A i \in DOMAIN t : i + 1 \in DOMAIN s /\ t[i] = s[i + 1] /\ 1 < i + 1
  BY <1>1, <1>2
<1>4. 1 \in DOMAIN s /\ h = s[1] /\ \A i \in DOMAIN s : i = 1 \/ (i - 1 \in DOMAIN t /\ i = i - 1 + 1)
  BY <1>1, <1>2
<1>5. Small(s) => Small(t) /\ (h[1] < ModelineAt => h[2] < Byte)
                           /\ (h[1] = ModelineAt => h[2] > 0)
  BY <1>3, <1>4 DEF Small
<1>6. \A at, v : Value(s, at, v) => Value(t, at, v) /\ (h[1] = at => h[2] = v)
  BY <1>3, <1>4 DEF Value
<1>7. \A at : Has(s, at) <=> at = h[1] \/ Has(t, at)
  <2>1. \A at : Has(s, at) => at = h[1] \/ Has(t, at)
    <3> SUFFICES ASSUME NEW at, NEW i \in DOMAIN s, s[i][1] = at, i # 1
                 PROVE  \E j \in DOMAIN t : t[j][1] = at
      BY <1>4 DEF Has
    <3>1. i - 1 \in DOMAIN t /\ t[i - 1] = s[i]
      BY <1>3, <1>4
    <3> QED BY <3>1
  <2>2. \A at : at = h[1] \/ Has(t, at) => Has(s, at)
    BY <1>3, <1>4 DEF Has
  <2> QED BY <2>1, <2>2
<1>8. Ordered(s) => Ordered(t) /\ \A at : Has(t, at) => Rank(h[1]) < Rank(at)
  <2> SUFFICES ASSUME Ordered(s)
               PROVE  Ordered(t) /\ \A at : Has(t, at) => Rank(h[1]) < Rank(at)
    OBVIOUS
  <2>1. Ordered(t)
    <3> SUFFICES ASSUME NEW i \in DOMAIN t, NEW j \in DOMAIN t, i < j
                 PROVE  Rank(t[i][1]) < Rank(t[j][1])
      BY DEF Ordered
    <3>1. i + 1 < j + 1
      BY <1>1, <1>2
    <3> QED BY <1>3, <3>1 DEF Ordered
  <2>2. \A at : Has(t, at) => Rank(h[1]) < Rank(at)
    BY <1>3, <1>4 DEF Has, Ordered
  <2> QED BY <2>1, <2>2
<1> QED BY <1>1, <1>3, <1>4, <1>5, <1>6, <1>7, <1>8 DEF t, h

LEMMA NothingPending ==
  ASSUME todo = <<>>
  PROVE  \A at : ~Pending(at)
  BY DEF Pending, Has

SwitchresWrites(px, n) ==
  << <<4, 0>>, <<5, 0>>, <<6, 0>>, <<7, px>>, <<9, n>> >>

LEMMA SwitchresWritesFacts ==
  ASSUME NEW px \in Nat \ {0}, NEW n \in Nat
  PROVE  LET s == SwitchresWrites(px, n)
         IN  /\ s \in Seq(Writes) /\ Small(s) /\ Ordered(s)
             /\ \A i \in DOMAIN s : s[i][1] = 7 => s[i][2] = px
             /\ Value(s, 9, n)
             /\ Has(s, 7) /\ Has(s, 9)
             /\ ~Has(s, 1) /\ ~Has(s, 2) /\ ~Has(s, 3) /\ ~Has(s, 11)
<1> DEFINE s == SwitchresWrites(px, n)
<1>1. Byte \in Nat /\ Byte > 0
  BY Constants
<1>2. DOMAIN s = 1 .. 5
  BY DEF SwitchresWrites
<1>3. /\ s[1] = <<4, 0>> /\ s[2] = <<5, 0>> /\ s[3] = <<6, 0>> /\ s[4] = <<7, px>>
      /\ s[5] = <<9, n>>
  BY DEF SwitchresWrites
<1>4. s \in Seq(Writes)
  BY DEF SwitchresWrites, Writes, FrameAt, SpiInit
<1> HIDE DEF s
<1>5. Small(s)
  BY <1>1, <1>2, <1>3 DEF Small, ModelineAt
<1>6. Ordered(s)
  BY <1>2, <1>3 DEF Ordered, Rank, PixelsAt, NumBlitAt
<1>7. Value(s, 9, n) /\ \A i \in DOMAIN s : s[i][1] = 7 => s[i][2] = px
  BY <1>2, <1>3 DEF Value
<1>8. /\ Has(s, 7) /\ Has(s, 9)
      /\ ~Has(s, 1) /\ ~Has(s, 2) /\ ~Has(s, 3) /\ ~Has(s, 11)
  BY <1>2, <1>3 DEF Has
<1> QED BY <1>4, <1>5, <1>6, <1>7, <1>8 DEF s

LEMMA OneWriteFacts ==
  ASSUME NEW at \in {SpiAudio, SpiInit}, NEW v \in Nat
  PROVE  LET s == << <<at, v>> >>
         IN  /\ s \in Seq(Writes) /\ Small(s) /\ Ordered(s) /\ Value(s, at, v)
             /\ Has(s, at) /\ \A a \in 1 .. 9 : ~Has(s, a)
             /\ at # SpiInit => ~Has(s, 11)
<1> DEFINE s == << <<at, v>> >>
<1>1. DOMAIN s = 1 .. 1 /\ s[1] = <<at, v>> /\ s[1][1] = at /\ s[1][2] = v
  OBVIOUS
<1>2. s \in Seq(Writes)
  BY DEF Writes, FrameAt, SpiInit, SpiAudio
<1>3. at > ModelineAt
  BY DEF SpiAudio, SpiInit, ModelineAt
<1> HIDE DEF s
<1>4. Small(s) /\ Ordered(s) /\ Value(s, at, v)
  BY <1>1, <1>3 DEF Small, Ordered, Value, ModelineAt, SpiAudio, SpiInit
<1>5. Has(s, at) /\ (\A a \in 1 .. 9 : ~Has(s, a)) /\ (at # SpiInit => ~Has(s, 11))
  BY <1>1 DEF Has, SpiAudio, SpiInit
<1> QED BY <1>2, <1>4, <1>5 DEF s

InitWrites ==
  << <<1, 0 % Byte>>, <<2, (0 \div Byte) % Byte>>, <<3, 0 % Byte>>,
     <<4, (0 \div Byte) % Byte>>, <<5, 0 % Byte>>, <<6, (0 \div Byte) % Byte>>,
     <<11, 0>> >>

LEMMA InitWritesFacts ==
  /\ InitWrites = Put(FrameAt, 0) \o Put(PixelsAt, 0) \o Put(NumBlitAt, 0)
                    \o << <<SpiInit, 0>> >>
  /\ InitWrites \in Seq(Writes) /\ Small(InitWrites)
  /\ Value(InitWrites, 1, 0 % Byte) /\ Value(InitWrites, 2, (0 \div Byte) % Byte)
  /\ Value(InitWrites, 11, 0)
  /\ Has(InitWrites, 1) /\ Has(InitWrites, 2) /\ Has(InitWrites, 11)
  /\ ~Has(InitWrites, 7) /\ ~Has(InitWrites, 9)
<1> DEFINE s == InitWrites
<1>1. 0 % Byte \in 0 .. Byte - 1 /\ (0 \div Byte) % Byte \in 0 .. Byte - 1 /\ Byte \in Nat
  BY ByteRange, Constants
<1>2. DOMAIN s = 1 .. 7
  BY DEF InitWrites
<1>3. /\ s[1] = <<1, 0 % Byte>> /\ s[2] = <<2, (0 \div Byte) % Byte>>
      /\ s[3] = <<3, 0 % Byte>> /\ s[4] = <<4, (0 \div Byte) % Byte>>
      /\ s[5] = <<5, 0 % Byte>> /\ s[6] = <<6, (0 \div Byte) % Byte>>
      /\ s[7] = <<11, 0>>
  BY DEF InitWrites
<1>4. s \in Seq(Writes)
  BY <1>1 DEF InitWrites, Writes, FrameAt, SpiInit
<1>5. s = Put(FrameAt, 0) \o Put(PixelsAt, 0) \o Put(NumBlitAt, 0) \o << <<SpiInit, 0>> >>
  <2> DEFINE a == <<1, 0 % Byte>>
             b == <<2, (0 \div Byte) % Byte>>
             c == <<3, 0 % Byte>>
             d == <<4, (0 \div Byte) % Byte>>
             e == <<5, 0 % Byte>>
             f == <<6, (0 \div Byte) % Byte>>
             g == <<11, 0>>
  <2>1. Put(FrameAt, 0) = <<a, b>> /\ Put(PixelsAt, 0) = <<c, d>> /\ Put(NumBlitAt, 0) = <<e, f>>
    BY DEF Put, PixelsAt, NumBlitAt, FrameAt
  <2>2. << <<SpiInit, 0>> >> = <<g>> /\ s = <<a, b, c, d, e, f, g>>
    BY DEF SpiInit, InitWrites
  <2> HIDE DEF a, b, c, d, e, f, g, s
  <2>3. <<a, b>> \o <<c, d>> = <<a, b, c, d>>
    BY Joined2and2
  <2>4. <<a, b, c, d>> \o <<e, f>> = <<a, b, c, d, e, f>>
    BY Joined4and2
  <2>5. <<a, b, c, d, e, f>> \o <<g>> = <<a, b, c, d, e, f, g>>
    BY Joined6and1
  <2> QED BY <2>1, <2>2, <2>3, <2>4, <2>5, Zenon
<1> HIDE DEF s
<1>6. Small(s)
  BY <1>1, <1>2, <1>3 DEF Small, ModelineAt
<1>7. /\ Value(s, 1, 0 % Byte) /\ Value(s, 2, (0 \div Byte) % Byte)
      /\ Value(s, 11, 0)
  BY <1>2, <1>3 DEF Value
<1>8. /\ Has(s, 1) /\ Has(s, 2) /\ Has(s, 11)
      /\ ~Has(s, 7) /\ ~Has(s, 9)
  BY <1>2, <1>3 DEF Has
<1> QED BY <1>4, <1>5, <1>6, <1>7, <1>8 DEF s

-----------------------------------------------------------------------------
(* The server's handlers *)

(* No handler but setInit and its end is of another session, and none changes *)
(* what the core and the memory hold; those that tell a frame write its       *)
(* pixels, and its number if it is new.                                       *)
Handlers == ServerNext \/ InitDone

LEMMA SetBlitFacts ==
  ASSUME HpsOK, NEW n \in 1 .. MaxFrame, NEW again \in BOOLEAN, SetBlit(n, again)
  PROVE  /\ hps' \in HpsType /\ n > hps.recv /\ n \in Nat /\ ~hps.open /\ hps.len > 0
         /\ hps'.recv = n /\ hps'.open = ~again /\ hps'.len = hps.len
         /\ hps'.mode = hps.mode /\ hps'.waits = hps.waits
         /\ hps'.bytes = IF again THEN hps.len ELSE 0
         /\ hps'.told = IF again \/ hpsBlit = 0 THEN n ELSE hps.told
         /\ todo' = IF again \/ hpsBlit = 0
                    THEN NewFrameWrites(n, PixelsCome', hps'.numBlit) ELSE <<>>
<1>1. n \in Nat /\ hps \in HpsType /\ n > hps.recv /\ ~hps.open /\ hps.len > 0
  BY Constants DEF HpsOK, SetBlit
<1>2. PICK b \in Nat : b = IF again THEN hps.len ELSE 0
  BY <1>1 DEF HpsType
<1>3. PICK nb \in Nat : nb = IF again THEN 1 ELSE 0
  OBVIOUS
<1>4. PICK t \in Nat : t = IF again \/ hpsBlit = 0 THEN n ELSE hps.told
  BY <1>1 DEF HpsType
<1>5. hps' = [hps EXCEPT !.recv = n, !.open = ~again, !.bytes = b, !.numBlit = nb,
                         !.told = t]
  BY <1>2, <1>3, <1>4 DEF SetBlit
<1>6. hps' = [recv |-> n, told |-> t, bytes |-> b, len |-> hps.len, open |-> ~again,
              numBlit |-> nb, mode |-> hps.mode, waits |-> hps.waits]
  BY <1>1, <1>5 DEF HpsType
<1>7. hps' \in HpsType /\ hps'.bytes = b /\ hps'.numBlit = nb /\ hps'.told = t
  BY <1>1, <1>6 DEF HpsType
<1>8. FPGA_blit(n, b, nb) = NewFrameWrites(n, b \div PixelBytes, nb)
  BY <1>1, BlitWrites DEF HpsOK, HpsType
<1>9. todo' = IF again \/ hpsBlit = 0
              THEN NewFrameWrites(n, PixelsCome', hps'.numBlit) ELSE <<>>
  BY <1>7, <1>8 DEF SetBlit, PixelsCome
<1> QED BY <1>1, <1>2, <1>4, <1>6, <1>7, <1>9

LEMMA SetBlitRawFacts ==
  ASSUME HpsOK, SetBlitRaw
  PROVE  /\ hps' \in HpsType /\ hps.open
         /\ hps'.recv = hps.recv /\ hps'.len = hps.len
         /\ hps'.mode = hps.mode /\ hps'.waits = hps.waits
         /\ hps.bytes <= hps'.bytes /\ hps'.bytes <= hps.len
         /\ hps'.open = (hps'.bytes < hps.len)
         /\ \/ /\ hps'.told = hps.told /\ todo' = <<>> /\ hpsBlit = 1 /\ hps'.open
            \/ /\ hps'.told = hps.recv
               /\ \/ /\ hps.told < hps.recv
                     /\ todo' = NewFrameWrites(hps.recv, PixelsCome', hps'.numBlit)
                  \/ /\ hps.told = hps.recv
                     /\ todo' = PixelWrites(PixelsCome', hps'.numBlit)
<1>1. /\ hps \in HpsType /\ hps.open /\ hps.bytes < hps.len /\ hpsBlit \in {0, 1}
      /\ hps.told <= hps.recv /\ (hpsBlit = 0 => hps.told = hps.recv)
  BY DEF HpsOK, SetBlitRaw
<1>2. PICK b \in Nat :
        b = IF hps.bytes + ChunkBytes < hps.len THEN hps.bytes + ChunkBytes ELSE hps.len
  BY <1>1, Constants DEF HpsType
<1>3. hps.bytes <= b /\ b <= hps.len
  BY <1>1, <1>2, Constants DEF HpsType
<1>4. PICK tell \in BOOLEAN : tell = (hpsBlit = 0 \/ b = hps.len)
  OBVIOUS
<1>5. PICK nb \in Nat : nb = IF tell THEN hps.numBlit + 1 ELSE hps.numBlit
  BY <1>1 DEF HpsType
<1>6. PICK t \in Nat : t = IF tell THEN hps.recv ELSE hps.told
  BY <1>1 DEF HpsType
<1>7. hps' = [hps EXCEPT !.bytes = b, !.open = b < hps.len, !.numBlit = nb, !.told = t]
  BY <1>2, <1>4, <1>5, <1>6 DEF SetBlitRaw
<1>8. (b < hps.len) \in BOOLEAN
  OBVIOUS
<1>9. hps' = [recv |-> hps.recv, told |-> t, bytes |-> b, len |-> hps.len,
              open |-> b < hps.len, numBlit |-> nb, mode |-> hps.mode,
              waits |-> hps.waits]
  BY <1>1, <1>7 DEF HpsType
<1>10. hps' \in HpsType /\ hps'.bytes = b /\ hps'.numBlit = nb /\ hps'.told = t
       /\ hps'.open = (b < hps.len)
  BY <1>1, <1>8, <1>9 DEF HpsType
<1>11. FPGA_blit(hps.recv, b, nb)
         = IF hps.told # hps.recv
           THEN NewFrameWrites(hps.recv, b \div PixelBytes, nb)
           ELSE PixelWrites(b \div PixelBytes, nb)
  BY <1>1, BlitWrites DEF HpsType
<1>12. todo' = IF tell THEN FPGA_blit(hps.recv, b, nb) ELSE <<>>
  <2>1. todo' = IF hpsBlit = 0 \/ b = hps.len
                THEN FPGA_blit(hps.recv, b, hps'.numBlit) ELSE <<>>
    BY <1>2 DEF SetBlitRaw
  <2> QED BY <2>1, <1>4, <1>10
<1>13. PixelsCome' = b \div PixelBytes
  BY <1>10 DEF PixelsCome
<1>14. CASE tell
  BY <1>14, <1>1, <1>6, <1>10, <1>11, <1>12, <1>13, <1>9, <1>3 DEF HpsType
<1>15. CASE ~tell
  BY <1>15, <1>1, <1>3, <1>4, <1>6, <1>9, <1>10, <1>12 DEF HpsType
<1> QED BY <1>14, <1>15

LEMMA LostFacts ==
  ASSUME HpsOK, NEW tell \in BOOLEAN, Lost(tell)
  PROVE  /\ hps' = [hps EXCEPT !.open = FALSE] /\ hps' \in HpsType
         /\ hps'.recv = hps.recv /\ hps'.told = hps.told /\ hps'.bytes = hps.bytes
         /\ hps'.len = hps.len /\ ~hps'.open /\ hps'.mode = hps.mode
         /\ hps'.waits = hps.waits
         /\ hps.open /\ hps.bytes < hps.len
         /\ \/ todo' = <<>>
            \/ todo' = PixelWrites(hps.len \div PixelBytes, Abort)
<1>1. /\ hps \in HpsType /\ hps.open /\ hps.bytes < hps.len
      /\ hpsBlit = 0 => hps.told = hps.recv
  BY DEF HpsOK, Lost
<1>2. hps' = [hps EXCEPT !.open = FALSE]
  BY DEF Lost
<1>3. /\ hps' \in HpsType
      /\ hps'.recv = hps.recv /\ hps'.told = hps.told /\ hps'.bytes = hps.bytes
      /\ hps'.len = hps.len /\ ~hps'.open /\ hps'.mode = hps.mode
      /\ hps'.waits = hps.waits
  BY <1>1, <1>2 DEF HpsType
<1>4. Abort \in Nat
  <2>1. Byte * Byte \in Nat /\ Byte * Byte >= 1
    BY Constants
  <2> QED BY <2>1 DEF Abort
<1>5. hps.told = hps.recv => FPGA_blit(hps.recv, hps.len, Abort)
                               = PixelWrites(hps.len \div PixelBytes, Abort)
  BY <1>1, <1>4, BlitWrites DEF HpsType
<1>6. todo' = IF tell /\ hpsBlit = 0 THEN FPGA_blit(hps.recv, hps.len, Abort) ELSE <<>>
  BY DEF Lost
<1> QED BY <1>1, <1>2, <1>3, <1>5, <1>6

LEMMA SetSwitchresFacts ==
  ASSUME HpsOK, NEW px \in Modes, SetSwitchres(px)
  PROVE  /\ hps' \in HpsType /\ px \in Nat \ {0}
         /\ hps'.recv = hps.recv /\ hps'.told = hps.told /\ hps'.bytes = 0
         /\ hps'.len = px * PixelBytes /\ ~hps'.open /\ hps'.mode = hps.told
         /\ hps'.waits = hps.waits /\ ~hps.open
         /\ todo' = SwitchresWrites(px, hps.told)
<1>1. hps \in HpsType /\ ~hps.open /\ px \in Nat \ {0} /\ px * PixelBytes \in Nat
  BY Constants DEF HpsOK, SetSwitchres
<1> DEFINE l == px * PixelBytes
<1>2. hps' = [hps EXCEPT !.len = l, !.bytes = 0, !.mode = hps.told] /\ l \in Nat
  BY <1>1 DEF SetSwitchres
<1> HIDE DEF l
<1>3. hps' = [recv |-> hps.recv, told |-> hps.told, bytes |-> 0, len |-> l,
              open |-> hps.open, numBlit |-> hps.numBlit, mode |-> hps.told,
              waits |-> hps.waits]
  BY <1>1, <1>2 DEF HpsType
<1>4. hps' \in HpsType
  BY <1>1, <1>2, <1>3 DEF HpsType
<1>5. todo' = SwitchresWrites(px, hps.told)
  BY DEF SetSwitchres, SwitchresWrites, PixelsAt, NumBlitAt, ModelineAt, SpiSwitchres
<1> QED BY <1>1, <1>3, <1>4, <1>5 DEF l

LEMMA SetInitFacts ==
  ASSUME SetInit
  PROVE  /\ hps' = NewSession /\ hps' \in HpsType
         /\ hps'.recv = 0 /\ hps'.told = 0 /\ hps'.bytes = 0 /\ hps'.len = 0
         /\ ~hps'.open /\ hps'.mode = 0 /\ hps'.waits
         /\ todo' = InitWrites
<1>1. hps' = NewSession
  BY DEF SetInit
<1>2. todo' = InitWrites
  BY InitWritesFacts DEF SetInit
<1> QED BY <1>1, <1>2 DEF NewSession, HpsType

LEMMA InitDoneFacts ==
  ASSUME HpsOK, InitDone
  PROVE  /\ hps.waits /\ todo = <<>> /\ state = "S_Idle"
         /\ hps = NewSession
         /\ hps'.recv = 0 /\ hps'.told = 0 /\ hps'.bytes = 0 /\ hps'.len = 0
         /\ ~hps'.open /\ hps'.mode = 0 /\ ~hps'.waits /\ hps' \in HpsType
         /\ hps.told = 0 /\ hps.recv = 0 /\ hps.len = 0 /\ hps.mode = 0
         /\ todo' = << <<SpiInit, 1>> >>
<1>1. hps.waits /\ todo = <<>> /\ state = "S_Idle" /\ hps = NewSession
  BY DEF InitDone, HpsOK
<1>2. hps' = [hps EXCEPT !.waits = FALSE] /\ todo' = << <<SpiInit, 1>> >>
  BY DEF InitDone
<1> QED BY <1>1, <1>2 DEF NewSession, HpsType

LEMMA HandlersKeep ==
  ASSUME Handlers
  PROVE  /\ todo = <<>>
         /\ hpsBlit' = hpsBlit /\ header' = header /\ modeline' = modeline
         /\ latch' = latch /\ state' = state /\ PoC' = PoC /\ auto_blit' = auto_blit
         /\ ddr' = ddr /\ burst' = burst /\ audio' = audio /\ vga' = vga /\ vram' = vram
  BY DEF Handlers, ServerNext, InitDone, SetBlit, SetBlitRaw, Lost, SetSwitchres, SetAudio,
         SetInit, Free, ServerStep, memory, fpga, video

LEMMA HandlersUsed ==
  ASSUME used \in UsedType, Handlers
  PROVE  used' \in UsedType /\ used'.starved = used.starved
<1>1. ASSUME NEW n \in 1 .. MaxFrame, NEW again \in BOOLEAN, SetBlit(n, again)
      PROVE  used' = [used EXCEPT !.blits = @ + 1]
  BY <1>1 DEF SetBlit
<1>2. ASSUME NEW px \in Modes, SetSwitchres(px)
      PROVE  used' = [used EXCEPT !.modes = @ + 1]
  BY <1>2 DEF SetSwitchres
<1>3. ASSUME SetAudio(MaxBurst + 1)
      PROVE  used' = [used EXCEPT !.sounds = @ + 1]
  BY <1>3 DEF SetAudio
<1>4. ASSUME SetInit
      PROVE  used' = [used EXCEPT !.inits = @ + 1]
  BY <1>4 DEF SetInit
<1>5. \/ SetBlitRaw \/ (\E tell \in BOOLEAN : Lost(tell)) \/ InitDone => used' = used
  BY DEF SetBlitRaw, Lost, InitDone
<1> QED BY <1>1, <1>2, <1>3, <1>4, <1>5 DEF UsedType, Handlers, ServerNext

USE DEF FrameAt, PixelsAt, NumBlitAt, ModelineAt, SpiBlit, SpiSwitchres, SpiAudio, SpiInit

LEMMA HpsStep ==
  ASSUME HpsOK, Handlers
  PROVE  HpsOK'
<1>0. hpsBlit' = hpsBlit /\ hpsBlit \in {0, 1} /\ hps \in HpsType
  BY HandlersKeep DEF HpsOK
<1>1. ASSUME NEW n \in 1 .. MaxFrame, NEW again \in BOOLEAN, SetBlit(n, again)
      PROVE  HpsOK'
  <2>1. ~hps.waits
    BY <1>1 DEF SetBlit, Free
  <2> QED BY <1>0, <1>1, <2>1, SetBlitFacts DEF HpsOK, HpsType
<1>2. ASSUME SetBlitRaw PROVE HpsOK'
  <2>1. ~hps.waits
    BY <1>2 DEF SetBlitRaw, Free
  <2> QED BY <1>0, <1>2, <2>1, SetBlitRawFacts DEF HpsOK, HpsType
<1>3. ASSUME NEW tell \in BOOLEAN, Lost(tell) PROVE HpsOK'
  <2>1. ~hps.waits
    BY <1>3 DEF Lost, Free
  <2> QED BY <1>0, <1>3, <2>1, LostFacts DEF HpsOK, HpsType
<1>4. ASSUME NEW px \in Modes, SetSwitchres(px) PROVE HpsOK'
  <2>1. ~hps.waits
    BY <1>4 DEF SetSwitchres, Free
  <2> QED BY <1>0, <1>4, <2>1, SetSwitchresFacts DEF HpsOK, HpsType
<1>5. ASSUME SetAudio(MaxBurst + 1) PROVE HpsOK'
  BY <1>0, <1>5 DEF SetAudio, HpsOK
<1>6. ASSUME SetInit PROVE HpsOK'
  BY <1>0, <1>6, SetInitFacts DEF HpsOK
<1>7. ASSUME InitDone PROVE HpsOK'
  BY <1>0, <1>7, InitDoneFacts DEF HpsOK
<1> QED BY <1>1, <1>2, <1>3, <1>4, <1>5, <1>6, <1>7 DEF Handlers, ServerNext

(* What SetAudio writes *)
LEMMA SetAudioFacts ==
  ASSUME SetAudio(MaxBurst + 1)
  PROVE  /\ hps' = hps /\ ~hps.waits /\ ~hps.open
         /\ todo' \in Seq(Writes) /\ Small(todo') /\ Ordered(todo')
         /\ (\A a \in 1 .. 9 : ~Has(todo', a)) /\ ~Has(todo', 11)
<1>1. MaxBurst + 1 \in Nat /\ SpiAudio \in {SpiAudio, SpiInit}
  BY Constants
<1>2. todo' = << <<SpiAudio, MaxBurst + 1>> >>
  BY DEF SetAudio
<1>3. hps' = hps /\ ~hps.waits /\ ~hps.open
  BY DEF SetAudio, Free
<1>4. SpiAudio # SpiInit
  OBVIOUS
<1> HIDE DEF SpiAudio, SpiInit
<1> QED BY <1>1, <1>2, <1>3, <1>4, OneWriteFacts

LEMMA EmptyTodo ==
  /\ <<>> \in Seq(Writes) /\ Small(<<>>) /\ Ordered(<<>>) /\ \A at : ~Has(<<>>, at)
  BY DEF Small, Ordered, Has

LEMMA NoneOf ==
  ASSUME NEW s, NEW at, ~Has(s, at)
  PROVE  /\ \A v : Value(s, at, v)
         /\ \A i \in DOMAIN s : s[i][1] # at
  BY DEF Has, Value

LEMMA HpsNumbers ==
  ASSUME hps \in HpsType
  PROVE  /\ hps.recv \in Nat /\ hps.told \in Nat /\ hps.bytes \in Nat /\ hps.len \in Nat
         /\ hps.mode \in Nat /\ hps.numBlit \in Nat /\ PixelsCome \in Nat
         /\ hps.open \in BOOLEAN /\ hps.waits \in BOOLEAN
  BY WholePixels DEF HpsType, PixelsCome

LEMMA HpsNumbersPrime ==
  ASSUME (hps \in HpsType)'
  PROVE  /\ hps'.recv \in Nat /\ hps'.told \in Nat /\ hps'.bytes \in Nat /\ hps'.len \in Nat
         /\ hps'.mode \in Nat /\ hps'.numBlit \in Nat /\ PixelsCome' \in Nat
         /\ hps'.open \in BOOLEAN /\ hps'.waits \in BOOLEAN
  BY WholePixels DEF HpsType, PixelsCome

LEMMA TodoStep ==
  ASSUME HpsOK, TodoOK, Handlers
  PROVE  TodoOK'
<1>1. ASSUME NEW n \in 1 .. MaxFrame, NEW again \in BOOLEAN, SetBlit(n, again)
      PROVE  TodoOK'
  <2>1. hps' \in HpsType
    BY <1>1, SetBlitFacts
  <2>2. n \in Nat /\ PixelsCome' \in Nat /\ hps'.numBlit \in Nat
    BY <2>1, HpsNumbersPrime, Constants
  <2>3. todo' = NewFrameWrites(n, PixelsCome', hps'.numBlit) \/ todo' = <<>>
    BY <1>1, SetBlitFacts
  <2> QED BY <2>2, <2>3, NewFrameWritesFacts, EmptyTodo DEF TodoOK
<1>2. ASSUME SetBlitRaw PROVE TodoOK'
  <2>1. hps' \in HpsType
    BY <1>2, SetBlitRawFacts
  <2>2. hps.recv \in Nat /\ PixelsCome' \in Nat /\ hps'.numBlit \in Nat
    BY <2>1, HpsNumbersPrime, HpsNumbers DEF HpsOK
  <2>3. \/ todo' = NewFrameWrites(hps.recv, PixelsCome', hps'.numBlit)
        \/ todo' = PixelWrites(PixelsCome', hps'.numBlit)
        \/ todo' = <<>>
    BY <1>2, SetBlitRawFacts
  <2>4. CASE todo' = NewFrameWrites(hps.recv, PixelsCome', hps'.numBlit)
    BY <2>2, <2>4, NewFrameWritesFacts DEF TodoOK
  <2>5. CASE todo' = PixelWrites(PixelsCome', hps'.numBlit)
    BY <2>2, <2>5, PixelWritesFacts DEF TodoOK
  <2>6. CASE todo' = <<>>
    BY <2>6, EmptyTodo DEF TodoOK
  <2> QED BY <2>3, <2>4, <2>5, <2>6
<1>3. ASSUME NEW tell \in BOOLEAN, Lost(tell) PROVE TodoOK'
  <2>1. hps.len \div PixelBytes \in Nat /\ Abort \in Nat
    <3>1. Byte * Byte \in Nat /\ Byte * Byte >= 1
      BY Constants
    <3> QED BY <3>1, WholePixels, HpsNumbers DEF HpsOK, Abort
  <2> QED BY <1>3, <2>1, LostFacts, PixelWritesFacts, EmptyTodo DEF TodoOK
<1>4. ASSUME NEW px \in Modes, SetSwitchres(px) PROVE TodoOK'
  <2>1. px \in Nat \ {0} /\ hps.told \in Nat
    BY <1>4, SetSwitchresFacts, HpsNumbers DEF HpsOK
  <2>2. todo' = SwitchresWrites(px, hps.told)
    BY <1>4, SetSwitchresFacts
  <2> QED BY <2>1, <2>2, SwitchresWritesFacts DEF TodoOK
<1>5. ASSUME SetAudio(MaxBurst + 1) PROVE TodoOK'
  BY <1>5, SetAudioFacts DEF TodoOK
<1>6. ASSUME SetInit PROVE TodoOK'
  BY <1>6, SetInitFacts, InitWritesFacts DEF TodoOK
<1>7. ASSUME InitDone PROVE TodoOK'
  <2> HIDE DEF SpiInit
  <2>1. SpiInit \in {SpiAudio, SpiInit} /\ 1 \in Nat
    OBVIOUS
  <2> QED BY <1>7, <2>1, InitDoneFacts, OneWriteFacts DEF TodoOK
<1> QED BY <1>1, <1>2, <1>3, <1>4, <1>5, <1>6, <1>7 DEF Handlers, ServerNext

HeaderType == header \in [1 .. 6 -> 0 .. Byte - 1]

LEMMA Fields ==
  ASSUME NEW h \in [1 .. 6 -> 0 .. Byte - 1]
  PROVE  /\ Field(h, 1) = h[1] + Byte * h[2] /\ Field(h, 1) \in Nat
         /\ Field(h, 3) = h[3] + Byte * h[4] /\ Field(h, 3) \in Nat
         /\ Field(h, 5) \in 0 .. Abort
         /\ \A i \in 1 .. 6 : h[i] \in 0 .. Byte - 1
<1>1. \A i \in 1 .. 6 : h[i] \in 0 .. Byte - 1
  OBVIOUS
<1>2. Byte \in Nat \ {0}
  BY Constants
<1>3. \A x \in 0 .. Byte - 1 : Byte * x \in Nat /\ Byte * x <= Byte * (Byte - 1)
  <2> SUFFICES ASSUME NEW x \in 0 .. Byte - 1
               PROVE  Byte * x \in Nat /\ Byte * x <= Byte * (Byte - 1)
    OBVIOUS
  <2>1. x \in Nat /\ Byte - 1 \in Nat /\ x <= Byte - 1
    BY <1>2
  <2> QED BY <1>2, <2>1, MulMono
<1>4. 1 + 1 = 2 /\ 3 + 1 = 4 /\ 5 + 1 = 6
  OBVIOUS
<1>5. /\ Field(h, 1) = h[1] + Byte * h[2] /\ Field(h, 3) = h[3] + Byte * h[4]
      /\ Field(h, 5) = h[5] + Byte * h[6]
  BY <1>4 DEF Field
<1>6. Byte * (Byte - 1) + Byte - 1 = Abort
  BY <1>2 DEF Abort
<1>7. Byte * (Byte - 1) \in Nat
  BY <1>2, <1>3
<1>8. \A x, y \in 0 .. Byte - 1 : x + Byte * y \in 0 .. Byte * (Byte - 1) + Byte - 1
  BY <1>2, <1>3, <1>7
<1> QED BY <1>1, <1>5, <1>6, <1>8

(* A handler that tells no frame leaves what the header says of the frame, and *)
(* one that tells a new one writes it.                                         *)
LEMMA FrameQuiet ==
  ASSUME FrameOK, todo = <<>>, header' = header, hps'.told = hps.told,
         hps'.waits = hps.waits, ~Has(todo', 1), ~Has(todo', 2)
  PROVE  FrameOK'
<1>1. Value(todo', 1, hps.told % Byte) /\ Value(todo', 2, (hps.told \div Byte) % Byte)
  BY NoneOf
<1>2. ~Pending(1) /\ ~Pending(2) /\ ~Pending(1)' /\ ~Pending(2)'
  BY NothingPending DEF Pending
<1> QED BY <1>1, <1>2 DEF FrameOK, Field

LEMMA FrameNew ==
  ASSUME FrameOK, todo = <<>>, header' = header, hps.told < hps'.told,
         ~hps.waits, ~hps'.waits, hps.told \in Nat, hps'.told \in Nat,
         header \in [1 .. 6 -> 0 .. Byte - 1],
         Value(todo', 1, hps'.told % Byte), Value(todo', 2, (hps'.told \div Byte) % Byte),
         Has(todo', 1), Has(todo', 2)
  PROVE  FrameOK'
<1>1. Pending(1)' /\ Pending(2)'
  BY DEF Pending
<1>2. Field(header, 1)' = Field(header, 1)
  BY DEF Field
<1>3. Field(header, 1) <= hps.told /\ Field(header, 1) \in Nat
  <2>1. Field(header, 1) \in Nat
    BY Fields
  <2> QED BY <2>1 DEF FrameOK
<1>4. Field(header, 1) < hps'.told
  BY <1>3
<1> QED BY <1>1, <1>2, <1>3, <1>4 DEF FrameOK

LEMMA FrameStep ==
  ASSUME HpsOK, FrameOK, HeaderType, Handlers
  PROVE  FrameOK'
<1>0. todo = <<>> /\ header' = header /\ hps.told \in Nat /\ hps.recv \in Nat
  BY HandlersKeep, HpsNumbers DEF HpsOK
<1>1. ASSUME NEW n \in 1 .. MaxFrame, NEW again \in BOOLEAN, SetBlit(n, again)
      PROVE  FrameOK'
  <2>1. ~hps.waits /\ ~hps'.waits /\ hps'.waits = hps.waits
    BY <1>1, SetBlitFacts DEF SetBlit, Free
  <2>2. n \in Nat /\ PixelsCome' \in Nat /\ hps'.numBlit \in Nat
    <3>1. hps' \in HpsType
      BY <1>1, SetBlitFacts
    <3> QED BY <3>1, HpsNumbersPrime, Constants
  <2>3. CASE again \/ hpsBlit = 0
    <3>1. hps'.told = n /\ hps.told < n
      BY <1>0, <1>1, <2>2, <2>3, SetBlitFacts DEF HpsOK
    <3>2. todo' = NewFrameWrites(n, PixelsCome', hps'.numBlit)
      BY <1>1, <2>3, SetBlitFacts
    <3>3. /\ Value(todo', 1, n % Byte) /\ Value(todo', 2, (n \div Byte) % Byte)
          /\ Has(todo', 1) /\ Has(todo', 2)
      BY <2>2, <3>2, NewFrameWritesFacts
    <3> QED BY <1>0, <2>1, <2>2, <3>1, <3>3, FrameNew DEF HeaderType
  <2>4. CASE ~(again \/ hpsBlit = 0)
    <3>1. hps'.told = hps.told /\ todo' = <<>>
      BY <1>1, <2>4, SetBlitFacts
    <3> QED BY <1>0, <2>1, <3>1, EmptyTodo, FrameQuiet
  <2> QED BY <2>3, <2>4
<1>2. ASSUME SetBlitRaw PROVE FrameOK'
  <2>1. ~hps.waits /\ ~hps'.waits /\ hps'.waits = hps.waits
    BY <1>2, SetBlitRawFacts DEF SetBlitRaw, Free
  <2>2. hps'.told \in Nat /\ PixelsCome' \in Nat /\ hps'.numBlit \in Nat
    <3>1. hps' \in HpsType
      BY <1>2, SetBlitRawFacts
    <3> QED BY <3>1, HpsNumbersPrime
  <2>3. CASE hps'.told = hps.told /\ todo' = <<>>
    BY <1>0, <2>1, <2>3, EmptyTodo, FrameQuiet
  <2>4. CASE /\ hps'.told = hps.recv /\ hps.told < hps.recv
             /\ todo' = NewFrameWrites(hps.recv, PixelsCome', hps'.numBlit)
    <3>3. /\ Value(todo', 1, hps.recv % Byte) /\ Value(todo', 2, (hps.recv \div Byte) % Byte)
          /\ Has(todo', 1) /\ Has(todo', 2)
      BY <1>0, <2>2, <2>4, NewFrameWritesFacts
    <3> QED BY <1>0, <2>1, <2>2, <2>4, <3>3, FrameNew DEF HeaderType
  <2>5. CASE /\ hps'.told = hps.told
             /\ todo' = PixelWrites(PixelsCome', hps'.numBlit)
    <3>1. ~Has(todo', 1) /\ ~Has(todo', 2)
      BY <2>2, <2>5, PixelWritesFacts
    <3> QED BY <1>0, <2>1, <2>5, <3>1, FrameQuiet
  <2> QED BY <1>2, <2>3, <2>4, <2>5, SetBlitRawFacts
<1>3. ASSUME NEW tell \in BOOLEAN, Lost(tell) PROVE FrameOK'
  <2>1. hps'.told = hps.told /\ hps'.waits = hps.waits
    BY <1>3, LostFacts
  <2>2. hps.len \div PixelBytes \in Nat /\ Abort \in Nat
    <3>1. Byte * Byte \in Nat /\ Byte * Byte >= 1
      BY Constants
    <3> QED BY <3>1, WholePixels, HpsNumbers DEF HpsOK, Abort
  <2>3. ~Has(todo', 1) /\ ~Has(todo', 2)
    BY <1>3, <2>2, LostFacts, PixelWritesFacts, EmptyTodo
  <2> QED BY <1>0, <2>1, <2>3, FrameQuiet
<1>4. ASSUME NEW px \in Modes, SetSwitchres(px) PROVE FrameOK'
  <2>1. /\ hps'.told = hps.told /\ hps'.waits = hps.waits /\ px \in Nat \ {0}
        /\ todo' = SwitchresWrites(px, hps.told)
    BY <1>4, SetSwitchresFacts
  <2>2. ~Has(todo', 1) /\ ~Has(todo', 2)
    BY <1>0, <2>1, SwitchresWritesFacts
  <2> QED BY <1>0, <2>1, <2>2, FrameQuiet
<1>5. ASSUME SetAudio(MaxBurst + 1) PROVE FrameOK'
  <2>1. hps' = hps /\ ~Has(todo', 1) /\ ~Has(todo', 2)
    BY <1>5, SetAudioFacts
  <2> QED BY <1>0, <2>1, FrameQuiet
<1>6. ASSUME SetInit PROVE FrameOK'
  <2>1. hps'.told = 0 /\ hps'.waits /\ todo' = InitWrites
    BY <1>6, SetInitFacts
  <2>2. Pending(1)' /\ Pending(2)'
    BY <2>1, InitWritesFacts DEF Pending
  <2>3. /\ Value(todo', 1, hps'.told % Byte)
        /\ Value(todo', 2, (hps'.told \div Byte) % Byte)
    BY <2>1, InitWritesFacts
  <2> QED BY <2>1, <2>2, <2>3 DEF FrameOK
<1>7. ASSUME InitDone PROVE FrameOK'
  <2>1. hps'.told = 0 /\ hps.told = 0 /\ todo' = << <<SpiInit, 1>> >>
    BY <1>7, InitDoneFacts
  <2>2. ~Has(todo', 1) /\ ~Has(todo', 2)
    <3>1. SpiInit \in {SpiAudio, SpiInit} /\ 1 \in Nat
      OBVIOUS
    <3>2. \A a \in 1 .. 9 : ~Has(todo', a)
      <4> HIDE DEF SpiInit
      <4> QED BY <2>1, <3>1, OneWriteFacts
    <3> QED BY <3>2
  <2>3. ~Pending(1) /\ ~Pending(2) /\ ~Pending(1)' /\ ~Pending(2)'
    BY <1>0, <2>2, NothingPending DEF Pending
  <2>4. Value(todo', 1, 0 % Byte) /\ Value(todo', 2, (0 \div Byte) % Byte)
    BY <2>2, NoneOf
  <2>5. 0 % Byte = 0 /\ (0 \div Byte) % Byte = 0
    <3>1. (0 % Byte) + Byte * ((0 \div Byte) % Byte) <= 0
      BY Constants, TwoBytes
    <3>2. 0 % Byte \in Nat /\ (0 \div Byte) % Byte \in Nat /\ Byte \in Nat \ {0}
      BY Constants, ByteRange
    <3> DEFINE lo == 0 % Byte
               hi == (0 \div Byte) % Byte
    <3> HIDE DEF lo, hi
    <3>3. hi \in Nat /\ lo \in Nat /\ lo + Byte * hi <= 0
      BY <3>1, <3>2 DEF lo, hi
    <3>4. hi <= Byte * hi
      BY <3>2, <3>3, MulMono
    <3>5. lo = 0 /\ hi = 0
      BY <3>2, <3>3, <3>4
    <3> QED BY <3>5 DEF lo, hi
  <2>6. header[1] = 0 % Byte /\ header[2] = (0 \div Byte) % Byte
    BY <2>1, <2>3 DEF FrameOK
  <2>7. Field(header, 1)' <= 0
    BY <1>0, <2>5, <2>6, Constants DEF Field
  <2> QED BY <1>0, <2>1, <2>3, <2>4, <2>6, <2>7 DEF FrameOK
<1> QED BY <1>1, <1>2, <1>3, <1>4, <1>5, <1>6, <1>7 DEF Handlers, ServerNext

(* The frame the server receives after a handler is the one before, with no   *)
(* fewer pixels, or one told since.                                           *)
LEMMA Later ==
  ASSUME HpsOK, ServerNext, ~hps'.waits
  PROVE  /\ ~hps.waits /\ hps.told <= hps'.told
         /\ Receiving' => \/ hps.told < hps'.told
                          \/ Receiving /\ hps'.told = hps.told /\ PixelsCome <= PixelsCome'
<1>0. hps \in HpsType /\ hps.told \in Nat /\ hps.recv \in Nat
  BY HpsNumbers DEF HpsOK
<1>1. ASSUME NEW n \in 1 .. MaxFrame, NEW again \in BOOLEAN, SetBlit(n, again)
      PROVE  /\ ~hps.waits /\ hps.told <= hps'.told
             /\ Receiving' => hps.told < hps'.told
  <2>1. ~hps.waits
    BY <1>1 DEF SetBlit, Free
  <2>2. hps.told < n /\ n \in Nat
    BY <1>0, <1>1, SetBlitFacts DEF HpsOK
  <2>3. hps'.told = n \/ hps'.told = hps.told
    BY <1>1, SetBlitFacts
  <2>4. hps'.recv = n
    BY <1>1, SetBlitFacts
  <2> QED BY <1>0, <2>1, <2>2, <2>3, <2>4 DEF Receiving
<1>2. ASSUME SetBlitRaw
      PROVE  /\ ~hps.waits /\ hps.told <= hps'.told
             /\ Receiving' => \/ hps.told < hps'.told
                              \/ Receiving /\ hps'.told = hps.told /\ PixelsCome <= PixelsCome'
  <2>1. ~hps.waits
    BY <1>2 DEF SetBlitRaw, Free
  <2>2. /\ hps.open /\ hps'.recv = hps.recv /\ hps.bytes <= hps'.bytes /\ hps'.mode = hps.mode
        /\ hps'.told = hps.told \/ hps'.told = hps.recv
    BY <1>2, SetBlitRawFacts
  <2>3. hps.told <= hps.recv /\ hps.recv > hps.mode
    BY <2>2 DEF HpsOK
  <2>4. hps.bytes \in Nat /\ hps'.bytes \in Nat
    <3>1. hps' \in HpsType
      BY <1>2, SetBlitRawFacts
    <3> QED BY <1>0, <3>1, HpsNumbers, HpsNumbersPrime
  <2>5. PixelsCome <= PixelsCome'
    BY <2>2, <2>4, WholePixels DEF PixelsCome
  <2> QED BY <1>0, <2>1, <2>2, <2>3, <2>5 DEF Receiving
<1>3. ASSUME NEW tell \in BOOLEAN, Lost(tell)
      PROVE  ~hps.waits /\ hps.told <= hps'.told /\ ~Receiving'
  <2>1. ~hps.waits
    BY <1>3 DEF Lost, Free
  <2>2. hps'.bytes = hps.bytes /\ hps.bytes < hps.len /\ hps'.len = hps.len /\ ~hps'.open
        /\ hps'.told = hps.told
    BY <1>3, LostFacts
  <2> QED BY <1>0, <2>1, <2>2, HpsNumbers DEF Receiving
<1>4. ASSUME NEW px \in Modes, SetSwitchres(px)
      PROVE  ~hps.waits /\ hps.told <= hps'.told /\ ~Receiving'
  <2>1. ~hps.waits
    BY <1>4 DEF SetSwitchres, Free
  <2>2. hps'.told = hps.told /\ hps'.mode = hps.told
    BY <1>4, SetSwitchresFacts
  <2> QED BY <1>0, <2>1, <2>2 DEF Receiving
<1>5. ASSUME SetAudio(MaxBurst + 1)
      PROVE  /\ ~hps.waits /\ hps.told <= hps'.told
             /\ Receiving' => Receiving /\ hps'.told = hps.told /\ PixelsCome <= PixelsCome'
  <2>1. hps' = hps /\ ~hps.waits
    BY <1>5, SetAudioFacts
  <2>2. PixelsCome' = PixelsCome /\ PixelsCome \in Nat
    BY <1>0, <2>1, HpsNumbers DEF PixelsCome
  <2> QED BY <1>0, <2>1, <2>2 DEF Receiving
<1>6. ASSUME SetInit PROVE FALSE
  BY <1>6, SetInitFacts
<1> QED BY <1>1, <1>2, <1>3, <1>4, <1>5, <1>6 DEF ServerNext

LEMMA ReceivingSession ==
  ASSUME HpsOK, Receiving
  PROVE  ~hps.waits
  BY DEF HpsOK, Receiving, NewSession

LEMMA PixelsStep ==
  ASSUME HpsOK, PixelsOK, HeaderType, Handlers
  PROVE  PixelsOK'
<1>0. todo = <<>> /\ header' = header
  BY HandlersKeep
<1>a. Field(header, 3)' = Field(header, 3) /\ Field(header, 3) \in Nat
  BY <1>0, Fields DEF Field, HeaderType
<1>b. Receiving => Field(header, 3) <= PixelsCome
  BY <1>0, NothingPending DEF PixelsOK
<1>c. HpsOK'
  BY HpsStep
<1>d. PixelsCome \in Nat /\ PixelsCome' \in Nat /\ hps.told \in Nat /\ hps'.told \in Nat
      /\ hps'.numBlit \in Nat /\ hps.recv \in Nat
  BY <1>c, HpsNumbers, HpsNumbersPrime DEF HpsOK
(* Nothing of the header is written, or nothing but the pixels. *)
<1>q. ASSUME Receiving' => Receiving /\ PixelsCome <= PixelsCome',
             ~Has(todo', 1), ~Has(todo', 3), ~Has(todo', 4)
      PROVE  PixelsOK'
  <2>1. /\ Value(todo', 3, PixelsCome' % Byte)
        /\ Value(todo', 4, (PixelsCome' \div Byte) % Byte)
    BY <1>q, NoneOf
  <2>2. ~Pending(3)' /\ ~Pending(4)'
    BY <1>q DEF Pending
  <2>3. Receiving' => Field(header, 3)' <= PixelsCome'
    BY <1>a, <1>b, <1>d, <1>q
  <2> QED BY <2>1, <2>2, <2>3 DEF PixelsOK
<1>s. ASSUME Receiving' => Receiving /\ PixelsCome <= PixelsCome',
             todo' = PixelWrites(PixelsCome', hps'.numBlit)
      PROVE  PixelsOK'
  <2>1. /\ Value(todo', 3, PixelsCome' % Byte)
        /\ Value(todo', 4, (PixelsCome' \div Byte) % Byte)
        /\ Has(todo', 3) /\ Has(todo', 4)
    BY <1>d, <1>s, PixelWritesFacts
  <2>2. Pending(3)' /\ Pending(4)'
    BY <2>1 DEF Pending
  <2>3. Receiving' => Field(header, 3)' <= PixelsCome'
    BY <1>a, <1>b, <1>d, <1>s
  <2> QED BY <2>1, <2>2, <2>3 DEF PixelsOK
<1>n. ASSUME NEW n \in Nat, todo' = NewFrameWrites(n, PixelsCome', hps'.numBlit)
      PROVE  PixelsOK'
  <2>1. /\ Value(todo', 3, PixelsCome' % Byte)
        /\ Value(todo', 4, (PixelsCome' \div Byte) % Byte)
        /\ Has(todo', 3) /\ Has(todo', 4) /\ Has(todo', 1)
    BY <1>d, <1>n, NewFrameWritesFacts
  <2>2. Pending(3)' /\ Pending(4)' /\ Pending(1)'
    BY <2>1 DEF Pending
  <2> QED BY <2>1, <2>2 DEF PixelsOK
<1>r. ~Receiving' => PixelsOK'
  BY DEF PixelsOK
<1>w. hps'.waits => ~Receiving'
  <2>1. hps'.waits => hps'.told = hps'.mode /\ hps'.told = 0
    BY <1>c DEF HpsOK, NewSession
  <2> QED BY <2>1 DEF Receiving
<1>1. ASSUME NEW n \in 1 .. MaxFrame, NEW again \in BOOLEAN, SetBlit(n, again)
      PROVE  PixelsOK'
  <2>1. CASE again \/ hpsBlit = 0
    BY <1>1, <1>n, <2>1, SetBlitFacts
  <2>2. CASE ~(again \/ hpsBlit = 0)
    <3>1. hps'.told = hps.told /\ hps'.recv > hps.recv /\ hps.told <= hps.recv
          /\ hps'.recv \in Nat
      BY <1>1, <2>2, SetBlitFacts DEF HpsOK
    <3>2. ~Receiving'
      BY <1>d, <3>1 DEF Receiving
    <3> QED BY <1>r, <3>2
  <2> QED BY <2>1, <2>2
<1>2. ASSUME SetBlitRaw PROVE PixelsOK'
  <2>1. ~hps'.waits
    BY <1>2, SetBlitRawFacts DEF SetBlitRaw, Free
  <2>2. CASE todo' = NewFrameWrites(hps.recv, PixelsCome', hps'.numBlit)
    BY <1>d, <1>n, <2>2
  <2>3. CASE /\ ~(hps.told < hps'.told)
             /\ todo' = <<>> \/ todo' = PixelWrites(PixelsCome', hps'.numBlit)
    <3>1. Receiving' => Receiving /\ PixelsCome <= PixelsCome'
      BY <1>2, <2>1, <2>3, Later DEF ServerNext
    <3>2. CASE todo' = <<>>
      BY <1>q, <3>1, <3>2, EmptyTodo
    <3>3. CASE todo' = PixelWrites(PixelsCome', hps'.numBlit)
      BY <1>s, <3>1, <3>3
    <3> QED BY <2>3, <3>2, <3>3
  <2> QED BY <1>2, <1>d, <2>2, <2>3, SetBlitRawFacts
<1>3. ASSUME NEW tell \in BOOLEAN, Lost(tell) PROVE PixelsOK'
  <2>1. ~Receiving'
    <3>1. /\ hps'.bytes = hps.bytes /\ hps.bytes < hps.len /\ hps'.len = hps.len /\ ~hps'.open
      BY <1>3, LostFacts
    <3>2. hps.bytes \in Nat /\ hps.len \in Nat
      BY HpsNumbers DEF HpsOK
    <3> QED BY <3>1, <3>2 DEF Receiving
  <2> QED BY <1>r, <2>1
<1>4. ASSUME NEW px \in Modes, SetSwitchres(px) PROVE PixelsOK'
  <2>1. ~Receiving'
    <3>1. hps'.told = hps.told /\ hps'.mode = hps.told
      BY <1>4, SetSwitchresFacts
    <3> QED BY <1>d, <3>1 DEF Receiving
  <2> QED BY <1>r, <2>1
<1>5. ASSUME SetAudio(MaxBurst + 1) PROVE PixelsOK'
  <2>1. hps' = hps /\ ~Has(todo', 1) /\ ~Has(todo', 3) /\ ~Has(todo', 4)
    BY <1>5, SetAudioFacts
  <2>2. Receiving' => Receiving /\ PixelsCome <= PixelsCome'
    BY <1>d, <2>1 DEF Receiving, PixelsCome
  <2> QED BY <1>q, <2>1, <2>2
<1>6. ASSUME SetInit PROVE PixelsOK'
  BY <1>6, <1>r, <1>w, SetInitFacts
<1>7. ASSUME InitDone PROVE PixelsOK'
  <2>1. hps'.told = 0 /\ hps'.mode = 0
    BY <1>7, InitDoneFacts
  <2>2. ~Receiving'
    BY <2>1 DEF Receiving
  <2> QED BY <1>r, <2>2
<1> QED BY <1>1, <1>2, <1>3, <1>4, <1>5, <1>6, <1>7 DEF Handlers, ServerNext

LEMMA ModelineStep ==
  ASSUME HpsOK, ModelineOK, Handlers
  PROVE  ModelineOK'
<1>0. /\ todo = <<>> /\ modeline' = modeline /\ latch' = latch /\ state' = state
      /\ vga' = vga /\ ddr' = ddr
  BY HandlersKeep
<1>a. \A at : ~Pending(at)
  BY <1>0, NothingPending
<1>b. /\ hps.told \in Nat /\ hps.mode \in Nat /\ hps.recv \in Nat /\ hps.len \in Nat
  BY HpsNumbers DEF HpsOK
<1>q. ASSUME hps'.len = hps.len, hps'.mode = hps.mode, hps'.waits = hps.waits,
             ~Has(todo', 7), ~Has(todo', 9), ~Has(todo', 11)
      PROVE  ModelineOK'
  <2>1. ~Pending(7)' /\ ~Pending(9)' /\ ~Pending(11)'
    BY <1>q DEF Pending
  <2>2. /\ \A i \in DOMAIN todo' : todo'[i][1] # 7
        /\ Value(todo', 9, hps'.mode)
        /\ Value(todo', 11, IF hps'.waits THEN 0 ELSE 1)
    BY <1>q, NoneOf
  <2>3. ~Pending(7) /\ ~Pending(9) /\ ~Pending(11)
    BY <1>a
  <2> QED BY <1>0, <1>q, <2>1, <2>2, <2>3 DEF ModelineOK
<1>1. ASSUME NEW n \in 1 .. MaxFrame, NEW again \in BOOLEAN, SetBlit(n, again)
      PROVE  ModelineOK'
  <2>1. hps'.len = hps.len /\ hps'.mode = hps.mode /\ hps'.waits = hps.waits
    BY <1>1, SetBlitFacts
  <2>2. n \in Nat /\ PixelsCome' \in Nat /\ hps'.numBlit \in Nat
    <3>1. hps' \in HpsType
      BY <1>1, SetBlitFacts
    <3> QED BY <3>1, HpsNumbersPrime, Constants
  <2>3. todo' = NewFrameWrites(n, PixelsCome', hps'.numBlit) \/ todo' = <<>>
    BY <1>1, SetBlitFacts
  <2>4. ~Has(todo', 7) /\ ~Has(todo', 9) /\ ~Has(todo', 11)
    BY <2>2, <2>3, NewFrameWritesFacts, EmptyTodo
  <2> QED BY <1>q, <2>1, <2>4
<1>2. ASSUME SetBlitRaw PROVE ModelineOK'
  <2>1. hps'.len = hps.len /\ hps'.mode = hps.mode /\ hps'.waits = hps.waits
    BY <1>2, SetBlitRawFacts
  <2>2. PixelsCome' \in Nat /\ hps'.numBlit \in Nat
    <3>1. hps' \in HpsType
      BY <1>2, SetBlitRawFacts
    <3> QED BY <3>1, HpsNumbersPrime
  <2>3. \/ todo' = NewFrameWrites(hps.recv, PixelsCome', hps'.numBlit)
        \/ todo' = PixelWrites(PixelsCome', hps'.numBlit)
        \/ todo' = <<>>
    BY <1>2, SetBlitRawFacts
  <2>4. ~Has(todo', 7) /\ ~Has(todo', 9) /\ ~Has(todo', 11)
    <3>1. CASE todo' = NewFrameWrites(hps.recv, PixelsCome', hps'.numBlit)
      BY <1>b, <2>2, <3>1, NewFrameWritesFacts
    <3>2. CASE todo' = PixelWrites(PixelsCome', hps'.numBlit)
      BY <2>2, <3>2, PixelWritesFacts
    <3> QED BY <2>3, <3>1, <3>2, EmptyTodo
  <2> QED BY <1>q, <2>1, <2>4
<1>3. ASSUME NEW tell \in BOOLEAN, Lost(tell) PROVE ModelineOK'
  <2>1. hps'.len = hps.len /\ hps'.mode = hps.mode /\ hps'.waits = hps.waits
    BY <1>3, LostFacts
  <2>2. hps.len \div PixelBytes \in Nat /\ Abort \in Nat
    <3>1. Byte * Byte \in Nat /\ Byte * Byte >= 1
      BY Constants
    <3> QED BY <1>b, <3>1, WholePixels DEF Abort
  <2>3. ~Has(todo', 7) /\ ~Has(todo', 9) /\ ~Has(todo', 11)
    BY <1>3, <2>2, LostFacts, PixelWritesFacts, EmptyTodo
  <2> QED BY <1>q, <2>1, <2>3
<1>4. ASSUME NEW px \in Modes, SetSwitchres(px) PROVE ModelineOK'
  <2>1. /\ px \in Nat \ {0} /\ todo' = SwitchresWrites(px, hps.told)
        /\ hps'.len = px * PixelBytes /\ hps'.mode = hps.told /\ hps'.told = hps.told
        /\ hps'.waits = hps.waits
    BY <1>4, SetSwitchresFacts
  <2>2. /\ \A i \in DOMAIN todo' : todo'[i][1] = 7 => todo'[i][2] = px
        /\ Value(todo', 9, hps.told) /\ Has(todo', 7) /\ Has(todo', 9) /\ ~Has(todo', 11)
    BY <1>b, <2>1, SwitchresWritesFacts
  <2>3. Pending(7)' /\ Pending(9)' /\ ~Pending(11)'
    BY <2>2 DEF Pending
  <2>4. ~hps.waits
    BY <1>4 DEF SetSwitchres, Free
  <2>5. Value(todo', 11, IF hps'.waits THEN 0 ELSE 1)
    BY <2>2, NoneOf
  <2>6. ~Pending(11)
    BY <1>a
  <2> QED BY <1>0, <2>1, <2>2, <2>3, <2>4, <2>5, <2>6 DEF ModelineOK
<1>5. ASSUME SetAudio(MaxBurst + 1) PROVE ModelineOK'
  <2>1. hps' = hps /\ ~Has(todo', 7) /\ ~Has(todo', 9) /\ ~Has(todo', 11)
    BY <1>5, SetAudioFacts
  <2> QED BY <1>q, <2>1
<1>6. ASSUME SetInit PROVE ModelineOK'
  <2>1. hps'.waits /\ hps'.len = 0 /\ hps'.mode = 0 /\ hps'.told = 0 /\ todo' = InitWrites
    BY <1>6, SetInitFacts
  <2>2. Has(todo', 11) /\ ~Has(todo', 7) /\ ~Has(todo', 9) /\ Value(todo', 11, 0)
    BY <2>1, InitWritesFacts
  <2>3. /\ Value(todo', 9, hps'.mode) /\ \A i \in DOMAIN todo' : todo'[i][1] # 7
    BY <2>2, NoneOf
  <2>4. Pending(11)' /\ ~Pending(7)' /\ ~Pending(9)'
    BY <2>2 DEF Pending
  <2> QED BY <2>1, <2>2, <2>3, <2>4 DEF ModelineOK
<1>7. ASSUME InitDone PROVE ModelineOK'
  <2>1. /\ ~hps'.waits /\ hps'.len = 0 /\ hps'.mode = 0 /\ hps'.told = 0
        /\ todo' = << <<SpiInit, 1>> >> /\ hps.waits /\ state = "S_Idle"
    BY <1>7, InitDoneFacts
  <2>2. Has(todo', 11) /\ ~Has(todo', 7) /\ ~Has(todo', 9) /\ Value(todo', 11, 1)
    <3>1. SpiInit \in {SpiAudio, SpiInit} /\ 1 \in Nat
      OBVIOUS
    <3>2. Has(todo', SpiInit) /\ (\A a \in 1 .. 9 : ~Has(todo', a)) /\ Value(todo', SpiInit, 1)
      <4> HIDE DEF SpiInit
      <4> QED BY <2>1, <3>1, OneWriteFacts
    <3> QED BY <3>2
  <2>3. /\ Value(todo', 9, hps'.mode) /\ \A i \in DOMAIN todo' : todo'[i][1] # 7
    BY <2>2, NoneOf
  <2>4. Pending(11)' /\ ~Pending(7)' /\ ~Pending(9)'
    BY <2>2 DEF Pending
  <2>5. ~latch.init /\ ~latch.switchres
    BY <1>a, <2>1 DEF ModelineOK
  <2> QED BY <1>0, <2>1, <2>2, <2>3, <2>4, <2>5 DEF ModelineOK
<1> QED BY <1>1, <1>2, <1>3, <1>4, <1>5, <1>6, <1>7 DEF Handlers, ServerNext

LEMMA ReadStep ==
  ASSUME HpsOK, ReadOK, Handlers
  PROVE  ReadOK'
<1>1. state' = state /\ ddr' = ddr
  BY HandlersKeep
<1>2. CASE InitDone
  BY <1>1, <1>2, InitDoneFacts DEF ReadOK
<1>3. CASE ServerNext
  <2>1. HpsOK'
    BY HpsStep
  <2>2. hps.told \in Nat /\ hps'.told \in Nat /\ PixelsCome \in Nat /\ PixelsCome' \in Nat
    BY <2>1, HpsNumbers, HpsNumbersPrime DEF HpsOK
  <2>3. Receiving' => ~hps'.waits
    <3>1. hps'.waits => hps'.told = hps'.mode /\ hps'.told = 0
      BY <2>1 DEF HpsOK, NewSession
    <3> QED BY <3>1 DEF Receiving
  <2>4. ASSUME state = "S_Blit_Header_Raw", ddr # NoWord
        PROVE  /\ ~hps'.waits => Field(ddr, FrameAt) <= hps'.told
               /\ Receiving' /\ Field(ddr, FrameAt) = hps'.told
                    => Field(ddr, PixelsAt) <= PixelsCome'
    <3>1. ddr \in [1 .. 6 -> 0 .. Byte - 1]
      BY <2>4 DEF ReadOK
    <3>2. Field(ddr, FrameAt) \in Nat /\ Field(ddr, PixelsAt) \in Nat
      BY <3>1, Fields
    <3> QED BY <1>3, <2>2, <2>3, <2>4, <3>2, Later DEF ReadOK
  <2> QED BY <1>1, <2>4 DEF ReadOK, Field
<1> QED BY <1>2, <1>3 DEF Handlers

LEMMA DrawnStep ==
  ASSUME HpsOK, DrawnOK, PoC \in PoCType, used \in UsedType, Handlers
  PROVE  DrawnOK'
<1>1. state' = state /\ PoC' = PoC /\ latch' = latch
  BY HandlersKeep
<1>2. CASE InitDone
  BY <1>1, <1>2, InitDoneFacts DEF DrawnOK
<1>3. CASE ServerNext
  <2>1. HpsOK'
    BY HpsStep
  <2>2. hps.told \in Nat /\ hps'.told \in Nat /\ PixelsCome \in Nat /\ PixelsCome' \in Nat
    BY <2>1, HpsNumbers, HpsNumbersPrime DEF HpsOK
  <2>3. Receiving' => ~hps'.waits
    <3>1. hps'.waits => hps'.told = hps'.mode /\ hps'.told = 0
      BY <2>1 DEF HpsOK, NewSession
    <3> QED BY <3>1 DEF Receiving
  <2>4. PoC.frame_ddr \in Nat /\ PoC.px_ddr \in Nat
    BY DEF PoCType
  <2>5. used'.starved = used.starved
    BY HandlersUsed
  <2> QED BY <1>1, <1>3, <2>2, <2>3, <2>4, <2>5, Later DEF DrawnOK
<1> QED BY <1>2, <1>3 DEF Handlers

LEMMA HandlersInv ==
  ASSUME FpgaInv, Handlers
  PROVE  FpgaInv'
<1> USE DEF FpgaInv
<1>1. HpsOK' /\ TodoOK' /\ FrameOK' /\ PixelsOK' /\ ModelineOK'
  BY HpsStep, TodoStep, FrameStep, PixelsStep, ModelineStep DEF RegistersOK, HeaderType
<1>2. ReadOK' /\ DrawnOK'
  BY ReadStep, DrawnStep DEF RegistersOK
<1>3. RegistersOK'
  BY HandlersKeep, HandlersUsed DEF RegistersOK
<1>4. AlignedOK'
  BY HandlersKeep, HandlersUsed DEF AlignedOK, RegistersOK
<1> QED BY <1>1, <1>2, <1>3, <1>4

-----------------------------------------------------------------------------
(* The next write reaches the memory or a latch *)

LEMMA WriteFacts ==
  ASSUME TodoOK, HeaderType, Write, NEW at, at = Head(todo)[1], NEW v, v = Head(todo)[2]
  PROVE  /\ at \in 1 .. 11 /\ v \in Nat
         /\ header' = IF at \in 1 .. 6 THEN [header EXCEPT ![at] = v] ELSE header
         /\ \A a : Pending(a) <=> a = at \/ Pending(a)'
         /\ ~hps.waits => \A a : Pending(a)' => Rank(at) < Rank(a)
         /\ \A a, w : Value(todo, a, w) => Value(todo', a, w) /\ (at = a => v = w)
         /\ at < 7 => v < Byte
         /\ at = 7 => v > 0
<1>1. todo \in Seq(Writes) /\ todo # <<>> /\ todo' = Tail(todo) /\ Small(todo)
  BY DEF TodoOK, Write
<1>2. Head(todo) \in Writes
  BY <1>1, TailFacts
<1>3. at \in 1 .. 11 /\ v \in Nat
  BY <1>2 DEF Writes
<1>4. header' = IF at \in 1 .. 6 THEN [header EXCEPT ![at] = v] ELSE header
  <2>1. DOMAIN header = 1 .. 6
    BY DEF HeaderType
  <2> QED BY <2>1 DEF Write
<1>5. \A a : Has(todo, a) <=> a = at \/ Has(todo', a)
  BY <1>1, TailFacts
<1>6. ~hps.waits => \A a : Has(todo', a) => Rank(at) < Rank(a)
  BY <1>1, TailFacts DEF TodoOK
<1>7. \A a, w : Value(todo, a, w) => Value(todo', a, w) /\ (at = a => v = w)
  BY <1>1, TailFacts
<1>8. (at < 7 => v < Byte) /\ (at = 7 => v > 0)
  BY <1>1, TailFacts
<1> QED BY <1>3, <1>4, <1>5, <1>6, <1>7, <1>8 DEF Pending

LEMMA WriteKeeps ==
  ASSUME Write
  PROVE  /\ hpsBlit' = hpsBlit /\ hps' = hps /\ state' = state /\ PoC' = PoC
         /\ auto_blit' = auto_blit /\ ddr' = ddr /\ burst' = burst /\ audio' = audio
         /\ vga' = vga /\ vram' = vram /\ used' = used
  BY DEF Write, fpga, video

LEMMA WriteTodo ==
  ASSUME TodoOK, Write
  PROVE  TodoOK'
<1>1. todo \in Seq(Writes) /\ todo # <<>> /\ todo' = Tail(todo) /\ Small(todo) /\ hps' = hps
  BY WriteKeeps DEF TodoOK, Write
<1>2. todo' \in Seq(Writes) /\ Small(todo')
  BY <1>1, TailFacts
<1>3. Ordered(todo) => Ordered(todo')
  BY <1>1, TailFacts
<1> QED BY <1>1, <1>2, <1>3 DEF TodoOK

LEMMA WriteFrame ==
  ASSUME HpsOK, TodoOK, FrameOK, HeaderType, Write
  PROVE  FrameOK'
<1> DEFINE at == Head(todo)[1]
           v  == Head(todo)[2]
<1>1. /\ at \in 1 .. 11 /\ v \in Nat
      /\ header' = IF at \in 1 .. 6 THEN [header EXCEPT ![at] = v] ELSE header
      /\ \A a : Pending(a) <=> a = at \/ Pending(a)'
      /\ ~hps.waits => \A a : Pending(a)' => Rank(at) < Rank(a)
      /\ \A a, w : Value(todo, a, w) => Value(todo', a, w) /\ (at = a => v = w)
  BY WriteFacts
<1> HIDE DEF at, v
<1>2. hps' = hps /\ hps.told \in Nat
  BY WriteKeeps, HpsNumbers DEF HpsOK
<1>3. header \in [1 .. 6 -> 0 .. Byte - 1] /\ Byte \in Nat \ {0}
  BY Constants DEF HeaderType
<1> DEFINE lo == hps.told % Byte
           hi == (hps.told \div Byte) % Byte
<1>4. lo \in 0 .. Byte - 1 /\ hi \in 0 .. Byte - 1 /\ lo + Byte * hi <= hps.told
  BY <1>2, <1>3, ByteRange, TwoBytes
<1>5. /\ Value(todo', 1, lo) /\ (at = 1 => v = lo)
      /\ Value(todo', 2, hi) /\ (at = 2 => v = hi)
  BY <1>1 DEF FrameOK
<1>6. /\ ~Pending(1) => header[1] = lo
      /\ ~Pending(2) => header[2] = hi
      /\ ~hps.waits => Field(header, 1) <= hps.told
      /\ ~hps.waits /\ Pending(1) => Pending(2) /\ Field(header, 1) < hps.told
  BY DEF FrameOK
<1> HIDE DEF lo, hi
<1>7. header[1] \in 0 .. Byte - 1 /\ header[2] \in 0 .. Byte - 1
  BY <1>3
<1>8. Field(header, 1) = header[1] + Byte * header[2]
  BY <1>3, Fields
<1>9. header'[1] = IF at = 1 THEN v ELSE header[1]
  BY <1>1, <1>3
<1>10. header'[2] = IF at = 2 THEN v ELSE header[2]
  BY <1>1, <1>3
<1>11. Field(header, 1)' = header'[1] + Byte * header'[2]
  <2>1. 1 + 1 = 2
    OBVIOUS
  <2> QED BY <2>1 DEF Field
<1>12. /\ ~Pending(1)' => header'[1] = lo
       /\ ~Pending(2)' => header'[2] = hi
  BY <1>1, <1>5, <1>6, <1>9, <1>10
<1>13. ASSUME ~hps.waits
       PROVE  /\ Field(header, 1)' <= hps.told
              /\ Pending(1)' => Pending(2)' /\ Field(header, 1)' < hps.told
  <2>1. CASE at = 1
    <3>1. ~Pending(1)'
      BY <1>1, <1>13, <2>1 DEF Rank
    <3>2. Field(header, 1)' = lo + Byte * header[2]
      BY <1>5, <1>9, <1>10, <1>11, <2>1
    <3>3. lo + Byte * header[2] <= hps.told
      <4>1. header[1] + Byte * header[2] <= hps.told
        BY <1>6, <1>8, <1>13
      <4> QED BY <4>1, <1>2, <1>3, <1>7, TornNumber DEF lo
    <3> QED BY <3>1, <3>2, <3>3
  <2>2. CASE at = 2
    <3>1. ~Pending(1)'
      BY <1>1, <1>13, <2>2 DEF Rank
    <3>2. header[1] = lo
      BY <1>1, <1>6, <2>2, <3>1
    <3>3. Field(header, 1)' = lo + Byte * hi
      BY <1>5, <1>9, <1>10, <1>11, <2>2, <3>2
    <3> QED BY <1>4, <3>1, <3>3
  <2>3. CASE at # 1 /\ at # 2
    BY <1>1, <1>6, <1>8, <1>9, <1>10, <1>11, <1>13, <2>3
  <2> QED BY <2>1, <2>2, <2>3
<1> QED BY <1>2, <1>5, <1>12, <1>13 DEF FrameOK, lo, hi

LEMMA WritePixels ==
  ASSUME HpsOK, TodoOK, PixelsOK, HeaderType, Write
  PROVE  PixelsOK'
<1>r. hps' = hps /\ Receiving' = Receiving /\ PixelsCome' = PixelsCome /\ PixelsCome \in Nat
  BY WriteKeeps, HpsNumbers DEF HpsOK, Receiving, PixelsCome
<1> SUFFICES ASSUME Receiving PROVE PixelsOK'
  BY <1>r DEF PixelsOK
<1> DEFINE at == Head(todo)[1]
           v  == Head(todo)[2]
           lo == PixelsCome % Byte
           hi == (PixelsCome \div Byte) % Byte
<1>1. /\ at \in 1 .. 11 /\ v \in Nat
      /\ header' = IF at \in 1 .. 6 THEN [header EXCEPT ![at] = v] ELSE header
      /\ \A a : Pending(a) <=> a = at \/ Pending(a)'
      /\ ~hps.waits => \A a : Pending(a)' => Rank(at) < Rank(a)
      /\ \A a, w : Value(todo, a, w) => Value(todo', a, w) /\ (at = a => v = w)
  BY WriteFacts
<1> HIDE DEF at, v
<1>2. \A a : Pending(a)' => Rank(at) < Rank(a)
  BY <1>1, ReceivingSession
<1>3. header \in [1 .. 6 -> 0 .. Byte - 1] /\ Byte \in Nat \ {0}
  BY Constants DEF HeaderType
<1>4. lo \in 0 .. Byte - 1 /\ hi \in 0 .. Byte - 1 /\ lo + Byte * hi <= PixelsCome
  BY <1>r, <1>3, ByteRange, TwoBytes
<1>5. /\ Value(todo', 3, lo) /\ (at = 3 => v = lo)
      /\ Value(todo', 4, hi) /\ (at = 4 => v = hi)
  BY <1>1 DEF PixelsOK
<1>6. /\ Pending(3) => Pending(4)
      /\ Pending(4) /\ ~Pending(3) => header[3] = lo
      /\ ~Pending(1) \/ ~Pending(4) => Field(header, 3) <= PixelsCome
  BY DEF PixelsOK
<1> HIDE DEF lo, hi
<1>7. header[3] \in 0 .. Byte - 1 /\ header[4] \in 0 .. Byte - 1
  BY <1>3
<1>8. Field(header, 3) = header[3] + Byte * header[4]
  BY <1>3, Fields
<1>9. header'[3] = IF at = 3 THEN v ELSE header[3]
  BY <1>1, <1>3
<1>10. header'[4] = IF at = 4 THEN v ELSE header[4]
  BY <1>1, <1>3
<1>11. Field(header, 3)' = header'[3] + Byte * header'[4]
  <2>1. 3 + 1 = 4
    OBVIOUS
  <2> QED BY <2>1 DEF Field
<1>12. /\ Pending(3)' => Pending(4)'
       /\ Pending(4)' /\ ~Pending(3)' => header'[3] = lo
       /\ ~Pending(1)' \/ ~Pending(4)' => Field(header, 3)' <= PixelsCome
  <2>1. CASE at = 3
    <3>1. ~Pending(3)' /\ Pending(4)' /\ (~Pending(1)' => ~Pending(1))
      BY <1>1, <1>2, <1>6, <2>1 DEF Rank
    <3>2. header'[3] = lo /\ header'[4] = header[4]
      BY <1>5, <1>9, <1>10, <2>1
    <3>3. ~Pending(1) => lo + Byte * header[4] <= PixelsCome
      <4>1. ~Pending(1) => header[3] + Byte * header[4] <= PixelsCome
        BY <1>6, <1>8
      <4> QED BY <4>1, <1>r, <1>3, <1>7, TornNumber DEF lo
    <3> QED BY <1>11, <3>1, <3>2, <3>3
  <2>2. CASE at = 4
    <3>1. ~Pending(3)' /\ ~Pending(4)' /\ Pending(4) /\ ~Pending(3)
      BY <1>1, <1>2, <2>2 DEF Rank
    <3>2. header'[3] = lo /\ header'[4] = hi
      BY <1>5, <1>6, <1>9, <1>10, <2>2, <3>1
    <3> QED BY <1>4, <1>11, <3>1, <3>2
  <2>3. CASE at = 1
    <3>1. ~Pending(3)' /\ ~Pending(4)' /\ ~Pending(3) /\ ~Pending(4)
      BY <1>1, <1>2, <2>3 DEF Rank
    <3>2. header'[3] = header[3] /\ header'[4] = header[4]
      BY <1>9, <1>10, <2>3
    <3> QED BY <1>6, <1>8, <1>11, <3>1, <3>2
  <2>4. CASE at \notin {1, 3, 4}
    BY <1>1, <1>6, <1>8, <1>9, <1>10, <1>11, <2>4
  <2> QED BY <2>1, <2>2, <2>3, <2>4
<1> QED BY <1>r, <1>5, <1>12 DEF PixelsOK, lo, hi

LEMMA WriteLatch ==
  ASSUME Write, RegistersOK, NEW at \in 1 .. 11, at = Head(todo)[1],
         NEW v \in Nat, v = Head(todo)[2]
  PROVE  /\ latch' \in LatchType
         /\ modeline' = IF at = 7 THEN v ELSE modeline
         /\ at = 9 => latch'.switchres /\ latch'.frame = v /\ latch'.init = latch.init
         /\ at = 11 => ~latch'.switchres /\ (latch'.init <=> v = 1)
         /\ at \notin {9, 11} => /\ latch'.switchres = latch.switchres
                                 /\ latch'.frame = latch.frame
                                 /\ latch'.init = latch.init
<1>1. latch \in LatchType
  BY DEF RegistersOK
<1>2. modeline' = IF at = 7 THEN v ELSE modeline
  BY DEF Write
<1>3. CASE at = 8
  <2>1. latch' = [latch EXCEPT !.blit = TRUE]
    BY <1>3 DEF Write
  <2>2. latch' = [init |-> latch.init, blit |-> TRUE, switchres |-> latch.switchres,
                  frame |-> latch.frame, audio |-> latch.audio]
    BY <1>1, <2>1 DEF LatchType
  <2>3. /\ latch' \in LatchType /\ latch'.switchres = latch.switchres /\ latch'.frame = latch.frame
        /\ latch'.init = latch.init
    BY <1>1, <2>2 DEF LatchType
  <2> QED BY <1>2, <1>3, <2>3
<1>4. CASE at = 9
  <2>1. latch' = [latch EXCEPT !.switchres = TRUE, !.frame = v]
    BY <1>4 DEF Write
  <2>2. latch' = [init |-> latch.init, blit |-> latch.blit, switchres |-> TRUE,
                  frame |-> v, audio |-> latch.audio]
    BY <1>1, <2>1 DEF LatchType
  <2>3. /\ latch' \in LatchType /\ latch'.switchres = TRUE /\ latch'.frame = v
        /\ latch'.init = latch.init
    BY <1>1, <2>2 DEF LatchType
  <2> QED BY <1>2, <1>4, <2>3
<1>5. CASE at = 10
  <2>1. latch' = [latch EXCEPT !.audio = v]
    BY <1>5 DEF Write
  <2>2. latch' = [init |-> latch.init, blit |-> latch.blit, switchres |-> latch.switchres,
                  frame |-> latch.frame, audio |-> v]
    BY <1>1, <2>1 DEF LatchType
  <2>3. /\ latch' \in LatchType /\ latch'.switchres = latch.switchres /\ latch'.frame = latch.frame
        /\ latch'.init = latch.init
    BY <1>1, <2>2 DEF LatchType
  <2> QED BY <1>2, <1>5, <2>3
<1>6. CASE at = 11
  <2>1. latch' = [init |-> v = 1, blit |-> FALSE, switchres |-> FALSE, frame |-> 0,
                  audio |-> 0]
    BY <1>6 DEF Write
  <2>2. (v = 1) \in BOOLEAN
    OBVIOUS
  <2>3. /\ latch' \in LatchType /\ ~latch'.switchres /\ (latch'.init <=> v = 1)
    BY <2>1, <2>2 DEF LatchType
  <2> QED BY <1>2, <1>6, <2>3
<1>7. CASE at \notin {8, 9, 10, 11}
  <2>1. latch' = latch
    BY <1>7 DEF Write
  <2> QED BY <1>1, <1>2, <1>7, <2>1
<1> QED BY <1>3, <1>4, <1>5, <1>6, <1>7

LEMMA WriteModeline ==
  ASSUME HpsOK, TodoOK, ModelineOK, RegistersOK, Write
  PROVE  ModelineOK'
<1> DEFINE at == Head(todo)[1]
           v  == Head(todo)[2]
<1>1. /\ at \in 1 .. 11 /\ v \in Nat
      /\ \A a : Pending(a) <=> a = at \/ Pending(a)'
      /\ ~hps.waits => \A a : Pending(a)' => Rank(at) < Rank(a)
      /\ \A a, w : Value(todo, a, w) => Value(todo', a, w) /\ (at = a => v = w)
  BY WriteFacts DEF RegistersOK, HeaderType
<1>2. /\ hps' = hps /\ state' = state /\ vga' = vga /\ ddr' = ddr
  BY WriteKeeps
<1>3. /\ modeline' = IF at = 7 THEN v ELSE modeline
      /\ at = 9 => latch'.switchres /\ latch'.frame = v /\ latch'.init = latch.init
      /\ at = 11 => ~latch'.switchres /\ (latch'.init <=> v = 1)
      /\ at \notin {9, 11} => /\ latch'.switchres = latch.switchres
                              /\ latch'.frame = latch.frame
                              /\ latch'.init = latch.init
  BY <1>1, WriteLatch
<1>4. /\ \A i \in DOMAIN todo' : todo'[i][1] = 7 => todo'[i][2] * PixelBytes = hps.len
      /\ at = 7 => v * PixelBytes = hps.len
  <2>1. todo \in Seq(Writes) /\ todo # <<>> /\ todo' = Tail(todo)
    BY DEF TodoOK, Write
  <2>2. /\ \A i \in DOMAIN todo' : i + 1 \in DOMAIN todo /\ todo'[i] = todo[i + 1]
        /\ 1 \in DOMAIN todo /\ Head(todo) = todo[1]
    BY <2>1, TailFacts
  <2>3. \A i \in DOMAIN todo : todo[i][1] = 7 => todo[i][2] * PixelBytes = hps.len
    BY DEF ModelineOK
  <2> QED BY <2>2, <2>3
<1>5. /\ Value(todo', 9, hps.mode) /\ (at = 9 => v = hps.mode)
      /\ Value(todo', 11, IF hps.waits THEN 0 ELSE 1)
      /\ at = 11 => v = IF hps.waits THEN 0 ELSE 1
  BY <1>1 DEF ModelineOK
<1> HIDE DEF at, v
<1>6. hps.waits \in BOOLEAN /\ hps.len \in Nat
  BY HpsNumbers DEF HpsOK
<1>7. CASE at = 7
  <2>1. Pending(7) /\ Pending(9) /\ ~hps.waits
    BY <1>1, <1>7 DEF ModelineOK
  <2>2. ~Pending(7)' /\ Pending(9)' /\ (Pending(11)' <=> Pending(11))
    BY <1>1, <1>7, <2>1 DEF Rank
  <2> QED BY <1>2, <1>3, <1>4, <1>5, <1>7, <2>1, <2>2 DEF ModelineOK
<1>8. CASE at = 9
  <2>1. Pending(9) /\ ~hps.waits /\ ~Pending(11)
    BY <1>1, <1>8 DEF ModelineOK
  <2>2. ~Pending(7)' /\ ~Pending(9)' /\ ~Pending(11)' /\ ~Pending(7)
    BY <1>1, <1>8, <2>1 DEF Rank
  <2> QED BY <1>2, <1>3, <1>4, <1>5, <1>8, <2>1, <2>2 DEF ModelineOK
<1>9. CASE at = 11
  <2>1. Pending(11) /\ hps.len = 0
    BY <1>1, <1>9 DEF ModelineOK
  <2>2. ~Pending(9) /\ ~Pending(7)
    BY <2>1 DEF ModelineOK
  <2>3. ~Pending(9)' /\ ~Pending(7)' /\ (~hps.waits => ~Pending(11)')
    BY <1>1, <1>9, <2>2 DEF Rank
  <2>4. ~hps.waits => state = "S_Idle" /\ latch'.init
    BY <1>3, <1>5, <1>9, <2>1 DEF ModelineOK
  <2>5. hps.waits => ~latch'.init
    BY <1>3, <1>5, <1>9
  <2> QED BY <1>2, <1>3, <1>4, <1>5, <1>9, <2>1, <2>2, <2>3, <2>4, <2>5 DEF ModelineOK
<1>10. CASE at \notin {7, 9, 11}
  <2>1. /\ Pending(7)' <=> Pending(7)
        /\ Pending(9)' <=> Pending(9)
        /\ Pending(11)' <=> Pending(11)
    BY <1>1, <1>10
  <2> QED BY <1>2, <1>3, <1>4, <1>5, <1>10, <2>1 DEF ModelineOK
<1> QED BY <1>7, <1>8, <1>9, <1>10

LEMMA WriteInv ==
  ASSUME FpgaInv, Write
  PROVE  FpgaInv'
<1> USE DEF FpgaInv
<1> DEFINE at == Head(todo)[1]
           v  == Head(todo)[2]
<1>1. /\ at \in 1 .. 11 /\ v \in Nat
      /\ header' = IF at \in 1 .. 6 THEN [header EXCEPT ![at] = v] ELSE header
      /\ \A a : Pending(a) <=> a = at \/ Pending(a)'
      /\ at < 7 => v < Byte
      /\ at = 7 => v > 0
      /\ \A a, w : Value(todo, a, w) => Value(todo', a, w) /\ (at = a => v = w)
  BY WriteFacts DEF RegistersOK, HeaderType
<1>2. /\ latch' \in LatchType
      /\ modeline' = IF at = 7 THEN v ELSE modeline
      /\ at = 9 => latch'.switchres /\ latch'.frame = v /\ latch'.init = latch.init
      /\ at = 11 => ~latch'.switchres /\ (latch'.init <=> v = 1)
      /\ at \notin {9, 11} => /\ latch'.switchres = latch.switchres
                              /\ latch'.frame = latch.frame
                              /\ latch'.init = latch.init
  BY <1>1, WriteLatch
<1>3. at = 9 => v = hps.mode /\ hps.mode = hps.told
  BY <1>1 DEF ModelineOK
<1> HIDE DEF at, v
<1>4. HpsOK'
  BY WriteKeeps DEF HpsOK
<1>5. TodoOK' /\ FrameOK' /\ PixelsOK' /\ ModelineOK'
  BY WriteTodo, WriteFrame, WritePixels, WriteModeline DEF RegistersOK, HeaderType
<1>6. RegistersOK'
  <2>1. header \in [1 .. 6 -> 0 .. Byte - 1] /\ Byte \in Nat
    BY Constants DEF RegistersOK
  <2>2. header' \in [1 .. 6 -> 0 .. Byte - 1]
    BY <1>1, <2>1
  <2>3. modeline' \in Nat \ {0}
    BY <1>1, <1>2 DEF RegistersOK
  <2> QED BY <1>2, <2>2, <2>3, WriteKeeps DEF RegistersOK
<1>7. ReadOK'
  BY WriteKeeps DEF ReadOK, Receiving, PixelsCome
<1>8. DrawnOK'
  <2>1. PoC' = PoC /\ hps' = hps /\ state' = state /\ used' = used
    BY WriteKeeps
  <2>2. CASE at = 9
    BY <1>2, <1>3, <2>1, <2>2 DEF DrawnOK, Receiving, PixelsCome
  <2>3. CASE at = 11
    BY <1>2, <2>1, <2>3 DEF DrawnOK, Receiving, PixelsCome
  <2>4. CASE at \notin {9, 11}
    BY <1>2, <2>1, <2>4 DEF DrawnOK, Receiving, PixelsCome
  <2> QED BY <2>2, <2>3, <2>4
<1>9. AlignedOK'
  BY WriteKeeps DEF AlignedOK
<1> QED BY <1>4, <1>5, <1>6, <1>7, <1>8, <1>9

-----------------------------------------------------------------------------
(* A clock of the core *)

LEMMA ClockInv ==
  ASSUME FpgaInv, Clock,
         ModelineOK', RegistersOK', ReadOK', DrawnOK', AlignedOK'
  PROVE  FpgaInv'
<1>1. /\ hpsBlit' = hpsBlit /\ hps' = hps /\ todo' = todo /\ header' = header
      /\ modeline' = modeline /\ used' = used
  BY DEF Clock, memory
<1>2. HpsOK' /\ TodoOK' /\ FrameOK' /\ PixelsOK'
  BY <1>1 DEF FpgaInv, HpsOK, TodoOK, FrameOK, PixelsOK, Pending, Field, Receiving, PixelsCome
<1> QED BY <1>2 DEF FpgaInv

LEMMA AbortNat == Abort \in Nat /\ Abort > 0
<1>1. Byte \in Nat /\ Byte > 1 /\ Byte * Byte >= Byte * 1 /\ Byte * Byte \in Nat
  BY Constants, MulMono
<1> QED BY <1>1 DEF Abort

LEMMA ClockKeeps ==
  ASSUME Clock
  PROVE  /\ hpsBlit' = hpsBlit /\ hps' = hps /\ todo' = todo /\ header' = header
         /\ modeline' = modeline /\ used' = used
         /\ Receiving' = Receiving /\ PixelsCome' = PixelsCome
         /\ \A at : Pending(at)' <=> Pending(at)
  BY DEF Clock, memory, Receiving, PixelsCome, Pending

LEMMA ClockRegisters ==
  ASSUME RegistersOK, Clock,
         state' \in States, auto_blit' \in BOOLEAN,
         latch' \in LatchType, vga' \in VgaType, vga'.pixels > 0, vram' \in VramType,
         burst' \in 0 .. MaxBurst, burst' > 0 <=> state' = "S_Blit_Copy_Raw",
         audio' \in Nat, audio' > 0 <=> state' = "S_Audio",
         PoC' \in PoCType, PoC'.rgb_offset <= 2, PoC'.bl_ddr <= Abort,
         PoC'.bl_vram < Abort,
         state' \in Fetching => PoC'.px_vram <= PoC'.px_ddr,
         (PoC'.px_vram > 0 \/ state' \in Fetching) /\ state' # "S_Idle"
           => PoC'.frame_vram < PoC'.frame_ddr
  PROVE  RegistersOK'
<1>1. header' = header /\ modeline' = modeline /\ used' = used
  BY ClockKeeps
<1>2. used' \in UsedType
  BY <1>1 DEF RegistersOK
<1>3. header' \in [FrameAt .. NumBlitAt + 1 -> 0 .. Byte - 1] /\ modeline' \in Nat \ {0}
  BY <1>1 DEF RegistersOK
<1> QED BY <1>2, <1>3 DEF RegistersOK

(* Between states without a burst or a sound under way *)
LEMMA QuietRegisters ==
  ASSUME RegistersOK, state \notin {"S_Blit_Copy_Raw", "S_Audio"},
         burst' = burst, audio' = audio,
         state' \in States \ {"S_Blit_Copy_Raw", "S_Audio"}
  PROVE  /\ burst' \in 0 .. MaxBurst /\ (burst' > 0 <=> state' = "S_Blit_Copy_Raw")
         /\ audio' \in Nat /\ (audio' > 0 <=> state' = "S_Audio")
<1>1. /\ burst \in 0 .. MaxBurst /\ (burst > 0 <=> state = "S_Blit_Copy_Raw")
      /\ audio \in Nat /\ (audio > 0 <=> state = "S_Audio")
  BY DEF RegistersOK
<1> QED BY <1>1

LEMMA ModelineKept ==
  ASSUME ModelineOK, Clock,
         latch'.init = latch.init, latch'.switchres = latch.switchres,
         latch'.frame = latch.frame, vga'.pixels = vga.pixels,
         state \notin {"S_Switchres_Header", "S_Switchres_PLL", "S_Idle"},
         state' \notin {"S_Switchres_Header", "S_Switchres_PLL", "S_Defaults"}
  PROVE  ModelineOK'
  BY ClockKeeps DEF ModelineOK

LEMMA IdleInv ==
  ASSUME FpgaInv, Idle
  PROVE  FpgaInv'
<1> USE DEF FpgaInv
<1>1. /\ state = "S_Idle" /\ latch.init /\ state' = "S_Dispatcher" /\ PoC' = ZeroPoC
      /\ auto_blit' = FALSE /\ vga' = [vga EXCEPT !.frame = 0, !.held = FALSE]
      /\ vram' = EmptyVram /\ latch' = latch /\ ddr' = ddr /\ burst' = burst
      /\ audio' = audio /\ Clock
  BY DEF Idle
<1>2. PoC' \in PoCType /\ PoC'.px_vram = 0 /\ PoC'.bl_vram = 0 /\ PoC'.rgb_offset = 0
      /\ PoC'.bl_ddr = 0
  BY <1>1 DEF ZeroPoC, PoCType
<1>3. vga' \in VgaType /\ vga'.pixels = vga.pixels
  BY <1>1 DEF RegistersOK, VgaType
<1>4. vram' \in VramType /\ vram'.synced
  BY <1>1 DEF EmptyVram, VramType
<1>5. RegistersOK'
  <2>1. Abort \in Nat /\ Abort > 0
    BY AbortNat
  <2>2. /\ state' \in States /\ state' \notin Fetching
        /\ burst' \in 0 .. MaxBurst /\ (burst' > 0 <=> state' = "S_Blit_Copy_Raw")
        /\ audio' \in Nat /\ (audio' > 0 <=> state' = "S_Audio")
    BY <1>1, QuietRegisters DEF States, Fetching
  <2>3. auto_blit' \in BOOLEAN /\ latch' \in LatchType /\ vga'.pixels > 0
    BY <1>1, <1>3 DEF RegistersOK
  <2>4. /\ PoC'.rgb_offset <= 2 /\ PoC'.bl_ddr <= Abort /\ PoC'.bl_vram < Abort
        /\ ~(PoC'.px_vram > 0)
    BY <1>2, <2>1
  <2> QED BY <1>1, <1>2, <1>3, <1>4, <2>2, <2>3, <2>4, ClockRegisters
<1>6. ModelineOK'
  BY <1>1, <1>3, ClockKeeps DEF ModelineOK
<1>7. ReadOK'
  BY <1>1 DEF ReadOK
<1>8. DrawnOK'
  BY <1>1, <1>2 DEF DrawnOK, Drawing, Fetching
<1>9. AlignedOK'
  BY <1>1, <1>2, <1>3, <1>4 DEF AlignedOK, Fetching, RegistersOK
<1> QED BY <1>1, <1>5, <1>6, <1>7, <1>8, <1>9, ClockInv

LEMMA ResetInv ==
  ASSUME FpgaInv, Reset
  PROVE  FpgaInv'
<1> USE DEF FpgaInv
<1>1. /\ Clock /\ latch' = latch /\ PoC' = PoC /\ auto_blit' = auto_blit /\ ddr' = ddr
      /\ burst' = burst /\ audio' = audio
  BY DEF Reset
<1>2. CASE state = "S_Dispatcher" /\ ~latch.init /\ state' = "S_Defaults" /\ UNCHANGED video
  <2>1. vga' = vga /\ vram' = vram
    BY <1>2 DEF video
  <2>2. RegistersOK'
    BY <1>1, <1>2, <2>1, ClockKeeps DEF RegistersOK, States, Fetching
  <2>3. hps.waits
    BY <1>2 DEF ModelineOK
  <2>4. ModelineOK'
    BY <1>1, <1>2, <2>1, <2>3, ClockKeeps DEF ModelineOK
  <2>5. ReadOK'
    BY <1>1, <1>2 DEF ReadOK
  <2>6. DrawnOK'
    BY <1>1, <1>2, ClockKeeps DEF DrawnOK, Drawing, Fetching
  <2>7. AlignedOK'
    BY <1>1, <1>2, <2>1, ClockKeeps DEF AlignedOK, Fetching
  <2> QED BY <1>1, <2>2, <2>4, <2>5, <2>6, <2>7, ClockInv
<1>3. CASE /\ state = "S_Defaults" /\ state' = "S_Idle"
           /\ vga' = [vga EXCEPT !.frame = 0, !.pixels = DefaultPixels, !.started = FALSE]
           /\ vram' = EmptyVram
  <2>1. vga' \in VgaType /\ vga'.pixels > 0
    <3>1. vga \in VgaType /\ DefaultPixels \in Nat /\ DefaultPixels > 0
      BY Constants DEF RegistersOK
    <3>2. vga' = [frame |-> 0, pixels |-> DefaultPixels, held |-> vga.held,
                  started |-> FALSE]
      BY <1>3, <3>1 DEF VgaType
    <3> QED BY <3>1, <3>2 DEF VgaType
  <2>2. vram' \in VramType /\ vram'.synced
    BY <1>3 DEF EmptyVram, VramType
  <2>3. RegistersOK'
    BY <1>1, <1>3, <2>1, <2>2, ClockKeeps DEF RegistersOK, States, Fetching
  <2>4. hps.waits
    BY <1>3 DEF ModelineOK
  <2>5. ModelineOK'
    BY <1>1, <1>3, <2>4, ClockKeeps DEF ModelineOK
  <2>6. ReadOK' /\ DrawnOK' /\ AlignedOK'
    BY <1>1, <1>3, <2>2 DEF ReadOK, DrawnOK, AlignedOK
  <2> QED BY <1>1, <2>3, <2>5, <2>6, ClockInv
<1> QED BY <1>2, <1>3 DEF Reset

LEMMA DispatchSwitchresInv ==
  ASSUME FpgaInv, DispatchSwitchres
  PROVE  FpgaInv'
<1> USE DEF FpgaInv
<1>1. /\ state = "S_Dispatcher" /\ latch.init /\ state' = "S_Switchres_Header" /\ Clock
      /\ latch' = [latch EXCEPT !.switchres = FALSE]
      /\ PoC' = PoC /\ auto_blit' = auto_blit /\ ddr' = ddr
      /\ burst' = burst /\ audio' = audio /\ vga' = vga /\ vram' = vram
  BY DEF DispatchSwitchres, video
<1>2. latch \in LatchType
  BY DEF RegistersOK
<1>3. latch' \in LatchType /\ ~latch'.switchres /\ latch'.init
  BY <1>1, <1>2 DEF LatchType
<1>4. RegistersOK'
  BY <1>1, <1>3, ClockKeeps DEF RegistersOK, States, Fetching
<1>5. ModelineOK'
  <2>1. ~hps.waits => ~Pending(11)
    BY <1>1 DEF ModelineOK
  <2>2. hps.waits => Pending(11)
    BY <1>1 DEF ModelineOK
  <2> QED BY <1>1, <1>3, <2>1, <2>2, ClockKeeps DEF ModelineOK
<1>6. ReadOK'
  BY <1>1 DEF ReadOK
<1>7. DrawnOK'
  BY <1>1, <1>3, ClockKeeps DEF DrawnOK, Drawing, Fetching
<1>8. AlignedOK'
  BY <1>1, ClockKeeps DEF AlignedOK, Fetching
<1> QED BY <1>1, <1>4, <1>5, <1>6, <1>7, <1>8, ClockInv

LEMMA SwitchresHeaderInv ==
  ASSUME FpgaInv, SwitchresHeader
  PROVE  FpgaInv'
<1> USE DEF FpgaInv
<1>1. /\ state = "S_Switchres_Header" /\ state' = "S_Switchres_PLL" /\ Clock
      /\ ddr' = <<modeline>> /\ latch' = latch
      /\ PoC' = PoC /\ auto_blit' = auto_blit
      /\ burst' = burst /\ audio' = audio /\ vga' = vga /\ vram' = vram
  BY DEF SwitchresHeader, video
<1>2. ddr'[1] = modeline /\ modeline \in Nat \ {0}
  BY <1>1 DEF RegistersOK
<1>3. RegistersOK'
  BY <1>1, ClockKeeps DEF RegistersOK, States, Fetching
<1>4. ModelineOK'
  BY <1>1, <1>2, ClockKeeps DEF ModelineOK
<1>5. ReadOK'
  BY <1>1, <1>2 DEF ReadOK
<1>6. DrawnOK'
  BY <1>1, ClockKeeps DEF DrawnOK, Drawing, Fetching
<1>7. AlignedOK'
  BY <1>1, ClockKeeps DEF AlignedOK, Fetching
<1> QED BY <1>1, <1>3, <1>4, <1>5, <1>6, <1>7, ClockInv

LEMMA SwitchresModeInv ==
  ASSUME FpgaInv, SwitchresMode
  PROVE  FpgaInv'
<1> USE DEF FpgaInv
<1>1. /\ state = "S_Switchres_PLL" /\ state' = "S_Dispatcher" /\ Clock
      /\ vga' = [vga EXCEPT !.pixels = ddr[1], !.held = TRUE]
      /\ vram' = EmptyVram
      /\ PoC' = [PoC EXCEPT !.frame_ddr = vga.frame, !.frame_vram = 0,
                            !.px_vram = 0, !.bl_vram = 0]
      /\ auto_blit' = FALSE /\ ddr' = NoWord /\ latch' = latch
      /\ burst' = burst /\ audio' = audio
  BY DEF SwitchresMode
<1>2. ddr[1] \in Nat \ {0} /\ vga \in VgaType /\ PoC \in PoCType
  BY <1>1 DEF ReadOK, RegistersOK
<1>3. vga' \in VgaType /\ vga'.pixels = ddr[1]
  BY <1>1, <1>2 DEF VgaType
<1>4. vram' \in VramType /\ vram'.synced
  BY <1>1 DEF EmptyVram, VramType
<1>5. PoC' = [frame_ddr |-> vga.frame, bl_ddr |-> PoC.bl_ddr, px_ddr |-> PoC.px_ddr,
              ddr_bytes |-> PoC.ddr_bytes, frame_vram |-> 0, bl_vram |-> 0,
              px_vram |-> 0, vram_bytes |-> PoC.vram_bytes,
              rgb_offset |-> PoC.rgb_offset]
  BY <1>1, <1>2 DEF PoCType
<1>6. /\ PoC' \in PoCType /\ PoC'.px_vram = 0 /\ PoC'.bl_vram = 0
      /\ PoC'.rgb_offset = PoC.rgb_offset /\ PoC'.bl_ddr = PoC.bl_ddr
  BY <1>2, <1>5 DEF PoCType, VgaType
<1>7. RegistersOK'
  <2>1. Abort \in Nat /\ Abort > 0
    BY AbortNat
  <2>2. /\ state' \in States /\ state' \notin Fetching
        /\ burst' \in 0 .. MaxBurst /\ (burst' > 0 <=> state' = "S_Blit_Copy_Raw")
        /\ audio' \in Nat /\ (audio' > 0 <=> state' = "S_Audio")
    BY <1>1, QuietRegisters DEF States, Fetching
  <2>3. auto_blit' \in BOOLEAN /\ latch' \in LatchType /\ vga'.pixels > 0
    <3>1. auto_blit' = FALSE /\ latch' = latch /\ vga'.pixels = ddr[1]
      BY <1>1, <1>3
    <3>2. latch \in LatchType /\ ddr[1] \in Nat \ {0}
      BY <1>2 DEF RegistersOK
    <3>3. vga'.pixels > 0
      BY <3>1, <3>2, SMT
    <3>4. auto_blit' \in BOOLEAN
      BY <3>1
    <3> QED BY <3>1, <3>2, <3>3, <3>4
  <2>4. /\ PoC'.rgb_offset <= 2 /\ PoC'.bl_ddr <= Abort /\ PoC'.bl_vram < Abort
        /\ ~(PoC'.px_vram > 0)
    BY <1>6, <2>1 DEF RegistersOK
  <2> QED BY <1>1, <1>3, <1>4, <1>6, <2>2, <2>3, <2>4, ClockRegisters
<1>8. ModelineOK'
  BY <1>1, <1>3, ClockKeeps DEF ModelineOK
<1>9. ReadOK'
  BY <1>1 DEF ReadOK
<1>10. DrawnOK'
  BY <1>1, <1>6 DEF DrawnOK, Drawing, Fetching
<1>11. AlignedOK'
  BY <1>1, <1>2, <1>3, <1>4, <1>6 DEF AlignedOK, Fetching
<1> QED BY <1>1, <1>7, <1>8, <1>9, <1>10, <1>11, ClockInv

LEMMA DispatchAudioInv ==
  ASSUME FpgaInv, DispatchAudio
  PROVE  FpgaInv'
<1> USE DEF FpgaInv
<1>1. /\ state = "S_Dispatcher" /\ latch.audio > 0 /\ state' = "S_Audio" /\ Clock
      /\ latch' = [latch EXCEPT !.audio = 0] /\ audio' = latch.audio
      /\ PoC' = PoC /\ auto_blit' = auto_blit /\ ddr' = ddr
      /\ burst' = burst /\ vga' = vga /\ vram' = vram
  BY DEF DispatchAudio, Dispatching, video
<1>2. latch \in LatchType
  BY DEF RegistersOK
<1>3. /\ latch' \in LatchType /\ latch'.switchres = latch.switchres
      /\ latch'.frame = latch.frame /\ latch'.init = latch.init /\ latch.audio \in Nat
  BY <1>1, <1>2 DEF LatchType
<1>4. RegistersOK'
  <2>1. audio' \in Nat /\ audio' > 0
    BY <1>1, <1>3
  <2> QED BY <1>1, <1>3, <2>1, ClockKeeps DEF RegistersOK, States, Fetching
<1>5. ModelineOK'
  BY <1>1, <1>3, ModelineKept
<1>6. ReadOK'
  BY <1>1 DEF ReadOK
<1>7. DrawnOK'
  BY <1>1, <1>3, ClockKeeps DEF DrawnOK, Drawing, Fetching
<1>8. AlignedOK'
  BY <1>1, ClockKeeps DEF AlignedOK, Fetching
<1> QED BY <1>1, <1>4, <1>5, <1>6, <1>7, <1>8, ClockInv

LEMMA AudioInv ==
  ASSUME FpgaInv, Audio
  PROVE  FpgaInv'
<1> USE DEF FpgaInv
<1>1. /\ state = "S_Audio" /\ Clock
      /\ audio' = IF audio > MaxBurst THEN audio - MaxBurst ELSE 0
      /\ state' = IF audio' = 0 THEN "S_Dispatcher" ELSE state
      /\ latch' = latch /\ PoC' = PoC /\ auto_blit' = auto_blit /\ ddr' = ddr
      /\ burst' = burst /\ vga' = vga /\ vram' = vram
  BY DEF Audio, video
<1>2. /\ state' \in {"S_Audio", "S_Dispatcher"} /\ audio' \in Nat
      /\ audio' > 0 <=> state' = "S_Audio"
  <2>1. audio \in Nat /\ MaxBurst \in Nat
    BY Constants DEF RegistersOK
  <2>2. audio' \in Nat
    BY <1>1, <2>1
  <2> QED BY <1>1, <2>2
<1>3. RegistersOK'
  BY <1>1, <1>2, ClockKeeps DEF RegistersOK, States, Fetching
<1>4. ModelineOK'
  BY <1>1, <1>2, ModelineKept
<1>5. ReadOK'
  BY <1>1, <1>2 DEF ReadOK
<1>6. DrawnOK'
  BY <1>1, <1>2, ClockKeeps DEF DrawnOK, Drawing, Fetching
<1>7. AlignedOK'
  BY <1>1, <1>2, ClockKeeps DEF AlignedOK, Fetching
<1> QED BY <1>1, <1>3, <1>4, <1>5, <1>6, <1>7, ClockInv

LEMMA DispatchBlitInv ==
  ASSUME FpgaInv, DispatchBlit
  PROVE  FpgaInv'
<1> USE DEF FpgaInv
<1>1. /\ state = "S_Dispatcher" /\ state' = "S_Blit_Header_Raw" /\ Clock
      /\ latch' = [latch EXCEPT !.blit = @ /\ latch.switchres]
      /\ PoC' = PoC /\ auto_blit' = auto_blit /\ ddr' = ddr
      /\ burst' = burst /\ audio' = audio /\ vga' = vga /\ vram' = vram
  BY DEF DispatchBlit, Dispatching, video
<1>2. latch \in LatchType
  BY DEF RegistersOK
<1>3. (latch.blit /\ latch.switchres) \in BOOLEAN
  OBVIOUS
<1>4. latch' = [init |-> latch.init, blit |-> latch.blit /\ latch.switchres,
                switchres |-> latch.switchres, frame |-> latch.frame,
                audio |-> latch.audio]
  BY <1>1, <1>2 DEF LatchType
<1>5. /\ latch' \in LatchType /\ latch'.switchres = latch.switchres
      /\ latch'.frame = latch.frame /\ latch'.init = latch.init
  BY <1>2, <1>3, <1>4 DEF LatchType
<1>6. RegistersOK'
  BY <1>1, <1>5, ClockKeeps DEF RegistersOK, States, Fetching
<1>7. ModelineOK'
  BY <1>1, <1>5, ModelineKept
<1>8. ReadOK'
  BY <1>1 DEF ReadOK
<1>9. DrawnOK'
  BY <1>1, <1>5, ClockKeeps DEF DrawnOK, Drawing, Fetching
<1>10. AlignedOK'
  BY <1>1, ClockKeeps DEF AlignedOK, Fetching
<1> QED BY <1>1, <1>6, <1>7, <1>8, <1>9, <1>10, ClockInv

LEMMA RasterInv ==
  ASSUME FpgaInv, Raster
  PROVE  FpgaInv'
<1> USE DEF FpgaInv
<1>1. /\ hpsBlit' = hpsBlit /\ hps' = hps /\ todo' = todo /\ header' = header
      /\ modeline' = modeline /\ used' = used /\ latch' = latch
      /\ state' = state /\ PoC' = PoC /\ auto_blit' = auto_blit /\ ddr' = ddr
      /\ burst' = burst /\ audio' = audio /\ vram' = vram
      /\ vga' = [vga EXCEPT !.frame = vga.frame + 1]
  BY DEF Raster, fpga, memory
<1>2. vga \in VgaType
  BY DEF RegistersOK
<1>3. vga' \in VgaType /\ vga'.pixels = vga.pixels
  BY <1>1, <1>2 DEF VgaType
<1>4. HpsOK' /\ TodoOK' /\ FrameOK' /\ PixelsOK' /\ ModelineOK'
  BY <1>1, <1>3 DEF HpsOK, TodoOK, FrameOK, PixelsOK, ModelineOK, Pending, Field,
                    Receiving, PixelsCome
<1>5. RegistersOK'
  BY <1>1, <1>3 DEF RegistersOK
<1>6. ReadOK' /\ DrawnOK' /\ AlignedOK'
  BY <1>1, <1>3 DEF ReadOK, DrawnOK, AlignedOK, Receiving, PixelsCome
<1> QED BY <1>4, <1>5, <1>6

LEMMA StarveInv ==
  ASSUME FpgaInv, Starve
  PROVE  FpgaInv'
<1> USE DEF FpgaInv
<1>1. /\ hpsBlit' = hpsBlit /\ hps' = hps /\ todo' = todo /\ header' = header
      /\ modeline' = modeline /\ latch' = latch
      /\ state' = state /\ PoC' = PoC /\ auto_blit' = auto_blit /\ ddr' = ddr
      /\ burst' = burst /\ audio' = audio /\ vga' = vga
      /\ vram' = [vram EXCEPT !.synced = FALSE]
      /\ used' = [used EXCEPT !.starved = used.starved + 1]
  BY DEF Starve, fpga, memory
<1>2. vram \in VramType /\ used \in UsedType
  BY DEF RegistersOK
<1>3. vram' \in VramType
  BY <1>1, <1>2 DEF VramType
<1>4. used' \in UsedType /\ used'.starved # 0
  BY <1>1, <1>2 DEF UsedType
<1>5. HpsOK' /\ TodoOK' /\ FrameOK' /\ PixelsOK' /\ ModelineOK'
  BY <1>1 DEF HpsOK, TodoOK, FrameOK, PixelsOK, ModelineOK, Pending, Field,
              Receiving, PixelsCome
<1>6. RegistersOK'
  BY <1>1, <1>3, <1>4 DEF RegistersOK
<1>7. ReadOK' /\ DrawnOK' /\ AlignedOK'
  BY <1>1, <1>4 DEF ReadOK, DrawnOK, AlignedOK, Receiving, PixelsCome
<1> QED BY <1>5, <1>6, <1>7

LEMMA ReadHeaderInv ==
  ASSUME FpgaInv, ReadHeader
  PROVE  FpgaInv'
<1> USE DEF FpgaInv
<1>1. /\ state = "S_Blit_Header_Raw" /\ state' = state /\ Clock
      /\ ddr' = header /\ vram' = IF vram.synced THEN vram ELSE EmptyVram
      /\ latch' = latch /\ PoC' = PoC /\ auto_blit' = auto_blit
      /\ burst' = burst /\ audio' = audio /\ vga' = vga
  BY DEF ReadHeader
<1>2. vram' \in VramType /\ (vram.synced => vram' = vram)
  <2>1. EmptyVram \in VramType /\ vram \in VramType
    BY DEF EmptyVram, VramType, RegistersOK
  <2> QED BY <1>1, <2>1
<1>3. RegistersOK'
  BY <1>1, <1>2, ClockKeeps DEF RegistersOK, States, Fetching
<1>4. ModelineOK'
  BY <1>1, ModelineKept
<1>5. ReadOK'
  <2>1. header \in [FrameAt .. NumBlitAt + 1 -> 0 .. Byte - 1]
    BY DEF RegistersOK
  <2>2. ~hps.waits => Field(header, FrameAt) <= hps.told
    BY DEF FrameOK
  <2>3. ASSUME Receiving, Field(header, FrameAt) = hps.told
        PROVE  Field(header, PixelsAt) <= PixelsCome
    <3>1. ~hps.waits
      BY <2>3, ReceivingSession
    <3>2. hps.told \in Nat
      BY HpsNumbers DEF HpsOK
    <3>3. ~Pending(FrameAt)
      BY <2>3, <3>1, <3>2 DEF FrameOK
    <3> QED BY <2>3, <3>3 DEF PixelsOK
  <2>4. /\ Field(ddr', FrameAt) = Field(header, FrameAt)
        /\ Field(ddr', PixelsAt) = Field(header, PixelsAt)
    BY <1>1
  <2>5. /\ hps' = hps /\ Receiving' = Receiving /\ PixelsCome' = PixelsCome
    BY <1>1, ClockKeeps
  <2>6. Field(ddr, FrameAt)' = Field(ddr', FrameAt) /\ Field(ddr, PixelsAt)' = Field(ddr', PixelsAt)
    BY DEF Field
  <2> QED BY <1>1, <2>1, <2>2, <2>3, <2>4, <2>5, <2>6 DEF ReadOK
<1>6. DrawnOK'
  BY <1>1, ClockKeeps DEF DrawnOK, Drawing, Fetching
<1>7. AlignedOK'
  BY <1>1, <1>2, ClockKeeps DEF AlignedOK, Fetching
<1> QED BY <1>1, <1>3, <1>4, <1>5, <1>6, <1>7, ClockInv

LEMMA DroppedType ==
  ASSUME NEW P, P \in PoCType
  PROVE  /\ Dropped(P) \in PoCType
         /\ Dropped(P).px_vram = 0 /\ Dropped(P).bl_vram = 0 /\ Dropped(P).bl_ddr = 0
         /\ Dropped(P).rgb_offset = 0
         /\ Dropped(P).frame_ddr = P.frame_ddr /\ Dropped(P).frame_vram = P.frame_vram
         /\ P.frame_ddr \in Nat /\ P.frame_vram \in Nat
  BY DEF PoCType, Dropped

(* A header passed over *)
LEMMA LateHeader ==
  ASSUME FpgaInv, ddr \in [FrameAt .. NumBlitAt + 1 -> 0 .. Byte - 1],
         NEW n \in Nat, Clock, state = "S_Blit_Header_Raw", state' = "S_Dispatcher",
         PoC' = [Dropped(PoC) EXCEPT
                   !.frame_vram = IF n > PoC.frame_vram THEN n ELSE @,
                   !.frame_ddr  = IF n > PoC.frame_vram THEN n ELSE @],
         auto_blit' \in BOOLEAN, ddr' = NoWord,
         vram' \in VramType, vram.synced => vram' = vram,
         latch' = latch, burst' = burst, audio' = audio, vga' = vga
  PROVE  FpgaInv'
<1> USE DEF FpgaInv
<1>1. PoC \in PoCType
  BY DEF RegistersOK
<1>2. PICK m \in Nat, d \in Nat :
        PoC' = [Dropped(PoC) EXCEPT !.frame_vram = m, !.frame_ddr = d]
  <2>1. PoC.frame_vram \in Nat /\ PoC.frame_ddr \in Nat
    BY <1>1, DroppedType
  <2>2. Dropped(PoC).frame_vram = PoC.frame_vram /\ Dropped(PoC).frame_ddr = PoC.frame_ddr
    BY <1>1, DroppedType
  <2>3. CASE n > PoC.frame_vram
    BY <2>3
  <2>4. CASE ~(n > PoC.frame_vram)
    BY <2>1, <2>2, <2>4
  <2> QED BY <2>3, <2>4
<1>3. PICK P : P = Dropped(PoC)
  OBVIOUS
<1>4. /\ PoC' \in PoCType /\ PoC'.px_vram = 0 /\ PoC'.bl_vram = 0
      /\ PoC'.rgb_offset = 0 /\ PoC'.bl_ddr = 0
  <2>1. /\ P \in PoCType /\ P.px_vram = 0 /\ P.bl_vram = 0 /\ P.bl_ddr = 0
        /\ P.rgb_offset = 0 /\ PoC' = [P EXCEPT !.frame_vram = m, !.frame_ddr = d]
    BY <1>1, <1>2, <1>3, DroppedType
  <2> QED BY <1>2, <2>1 DEF PoCType
<1>5. RegistersOK'
  <2>1. /\ state' \in States /\ state' \notin Fetching
        /\ burst' \in 0 .. MaxBurst /\ (burst' > 0 <=> state' = "S_Blit_Copy_Raw")
        /\ audio' \in Nat /\ (audio' > 0 <=> state' = "S_Audio")
    BY QuietRegisters DEF States, Fetching
  <2>2. latch' \in LatchType /\ vga' \in VgaType /\ vga'.pixels > 0
    BY DEF RegistersOK
  <2>3. /\ PoC'.rgb_offset <= 2 /\ PoC'.bl_ddr <= Abort /\ PoC'.bl_vram < Abort
        /\ ~(PoC'.px_vram > 0)
    BY <1>4, AbortNat
  <2> QED BY <1>4, <2>1, <2>2, <2>3, ClockRegisters
<1>6. ModelineOK'
  BY ModelineKept
<1>7. ReadOK'
  BY DEF ReadOK
<1>8. DrawnOK'
  BY <1>4 DEF DrawnOK, Drawing, Fetching
<1>9. AlignedOK'
  BY <1>4, ClockKeeps DEF AlignedOK, Fetching, RegistersOK
<1> QED BY <1>5, <1>6, <1>7, <1>8, <1>9, ClockInv

(* The core finishes the frame in progress before it takes this one. *)
OldFirst(n) == /\ n > PoC.frame_ddr /\ PoC.px_vram # 0
               /\ PoC.frame_vram < PoC.frame_ddr /\ vram.synced

(* A header taken: for the frame in progress, or to finish the one before. *)
LEMMA TakenPoC ==
  ASSUME PoC \in PoCType, vga.pixels \in Nat, PoC.bl_vram < Abort,
         NEW n \in Nat, NEW px \in Nat, NEW bl \in 0 .. Abort,
         PoC' = IF OldFirst(n)
                THEN [PoC EXCEPT !.px_ddr = vga.pixels, !.bl_ddr = PoC.bl_vram + 1]
                ELSE [PoC EXCEPT !.frame_ddr = n, !.px_ddr = px,
                                 !.bl_ddr = IF px = vga.pixels
                                            THEN PoC.bl_vram + 1 ELSE bl]
  PROVE  /\ PoC' \in PoCType /\ PoC'.px_vram = PoC.px_vram
         /\ PoC'.frame_vram = PoC.frame_vram /\ PoC'.bl_vram = PoC.bl_vram
         /\ PoC'.rgb_offset = PoC.rgb_offset /\ PoC'.bl_ddr \in 0 .. Abort
         /\ OldFirst(n) => PoC'.frame_ddr = PoC.frame_ddr
         /\ ~OldFirst(n) => PoC'.frame_ddr = n /\ PoC'.px_ddr = px
<1>1. PoC.bl_vram + 1 \in 0 .. Abort
  BY AbortNat DEF PoCType
<1>2. PICK b : b = IF OldFirst(n) \/ px = vga.pixels THEN PoC.bl_vram + 1 ELSE bl
  OBVIOUS
<1>3. b \in 0 .. Abort /\ b \in Nat
  BY <1>1, <1>2, AbortNat
<1>4. CASE OldFirst(n)
  <2>1. PoC' = [PoC EXCEPT !.px_ddr = vga.pixels, !.bl_ddr = b]
    BY <1>2, <1>4
  <2> QED BY <1>3, <1>4, <2>1 DEF PoCType
<1>5. CASE ~OldFirst(n)
  <2>1. PoC' = [PoC EXCEPT !.frame_ddr = n, !.px_ddr = px, !.bl_ddr = b]
    BY <1>2, <1>5
  <2> QED BY <1>3, <1>5, <2>1 DEF PoCType
<1> QED BY <1>4, <1>5

LEMMA TakenHeader ==
  ASSUME FpgaInv, NEW n \in Nat, NEW px \in Nat, NEW bl \in 0 .. Abort,
         Clock, state = "S_Blit_Header_Raw",
         ~hps.waits => n <= hps.told,
         Receiving /\ n = hps.told => px <= PixelsCome,
         ~(n < PoC.frame_ddr),
         PoC' \in PoCType, PoC'.px_vram = PoC.px_vram,
         PoC'.frame_vram = PoC.frame_vram, PoC'.bl_vram = PoC.bl_vram,
         PoC'.rgb_offset = PoC.rgb_offset, PoC'.bl_ddr \in 0 .. Abort,
         OldFirst(n) => PoC'.frame_ddr = PoC.frame_ddr,
         ~OldFirst(n) => PoC'.frame_ddr = n /\ PoC'.px_ddr = px,
         state' = IF AwaitsModeline(n) THEN "S_Dispatcher" ELSE "S_Blit_Raw",
         auto_blit' \in BOOLEAN, ddr' = NoWord,
         vram' \in VramType, vram.synced => vram' = vram,
         latch' = latch, burst' = burst, audio' = audio, vga' = vga
  PROVE  FpgaInv'
<1> USE DEF FpgaInv
<1>1. /\ PoC \in PoCType /\ vga \in VgaType /\ latch \in LatchType
      /\ Abort \in Nat /\ PoC.bl_vram < Abort /\ PoC.rgb_offset <= 2
  BY AbortNat DEF RegistersOK
<1>2. /\ PoC.frame_ddr \in Nat /\ PoC.px_vram \in Nat /\ PoC.frame_vram \in Nat
      /\ PoC.bl_vram \in Nat /\ vga.pixels \in Nat
  BY <1>1 DEF PoCType, VgaType
<1>3. PoC.px_vram > 0 => PoC.frame_vram < PoC.frame_ddr
  BY DEF RegistersOK
<1>4. /\ hps' = hps /\ used' = used /\ Receiving' = Receiving /\ PixelsCome' = PixelsCome
  BY ClockKeeps
<1>5. PoC'.bl_ddr <= Abort
  BY <1>1
<1>6. RegistersOK'
  <2>1. state' \in {"S_Dispatcher", "S_Blit_Raw"}
    OBVIOUS
  <2>2. /\ state' \in States /\ state' \notin Fetching
        /\ burst' \in 0 .. MaxBurst /\ (burst' > 0 <=> state' = "S_Blit_Copy_Raw")
        /\ audio' \in Nat /\ (audio' > 0 <=> state' = "S_Audio")
    BY <2>1, QuietRegisters DEF States, Fetching
  <2>3. latch' \in LatchType /\ vga' \in VgaType /\ vga'.pixels > 0
    BY DEF RegistersOK
  <2>4. /\ PoC'.rgb_offset <= 2 /\ PoC'.bl_ddr <= Abort /\ PoC'.bl_vram < Abort
    BY <1>1, <1>5
  <2>5. PoC'.px_vram > 0 => PoC'.frame_vram < PoC'.frame_ddr
    BY <1>2, <1>3, <1>5
  <2> QED BY <1>5, <2>2, <2>3, <2>4, <2>5, ClockRegisters
<1>7. ModelineOK'
  BY ModelineKept
<1>8. ReadOK'
  BY DEF ReadOK
<1>9. DrawnOK'
  <2>1. ~hps.waits /\ PoC.px_vram > 0 => PoC.frame_ddr <= hps.told
    BY DEF DrawnOK
  <2>2. /\ ~hps.waits /\ PoC.px_vram > 0 /\ latch.switchres /\ used.starved = 0
             => PoC.frame_ddr <= latch.frame
        /\ used.starved = 0 => vram.synced
    BY DEF DrawnOK, AlignedOK
  <2>3. hps.told \in Nat /\ (Receiving => ~hps.waits) /\ latch.frame \in Nat
    BY <1>1, HpsNumbers, ReceivingSession DEF HpsOK, LatchType
  <2>4. ~hps.waits => PoC'.frame_ddr <= hps.told
    BY <1>2, <1>5, <2>1 DEF OldFirst
  <2>5. ASSUME ~hps.waits, state' \in Drawing \/ PoC'.px_vram > 0,
               latch.switchres, used.starved = 0
        PROVE  PoC'.frame_ddr <= latch.frame
    <3>1. CASE PoC.px_vram = 0
      <4>1. ~AwaitsModeline(n)
        BY <1>2, <1>5, <2>5, <3>1 DEF Drawing, Fetching
      <4>2. n <= latch.frame
        BY <2>3, <2>5, <3>1, <4>1 DEF AwaitsModeline
      <4>3. ~OldFirst(n)
        BY <3>1 DEF OldFirst
      <4> QED BY <4>2, <4>3
    <3>2. CASE PoC.px_vram > 0
      <4>1. PoC.frame_ddr <= latch.frame /\ vram.synced
        BY <2>2, <2>5, <3>2
      <4>2. CASE OldFirst(n)
        BY <1>5, <4>1, <4>2
      <4>3. CASE ~OldFirst(n)
        BY <1>2, <1>3, <1>5, <3>2, <4>1, <4>3 DEF OldFirst
      <4> QED BY <4>2, <4>3
    <3> QED BY <1>2, <3>1, <3>2
  <2>6. ASSUME Receiving, PoC'.frame_ddr = hps.told
        PROVE  PoC'.px_ddr <= PixelsCome
    <3>1. ~OldFirst(n)
      BY <1>2, <1>5, <2>3, <2>6 DEF OldFirst
    <3> QED BY <1>5, <2>6, <3>1
  <2> QED BY <1>4, <2>4, <2>5, <2>6 DEF DrawnOK
<1>10. AlignedOK'
  <2>1. /\ state' \notin Fetching /\ state \notin {"S_Blit_Copy_Raw", "S_Blit_End_Raw"}
        /\ state # "S_Idle" /\ state' # "S_Idle"
    BY DEF Fetching
  <2> QED BY <1>4, <1>5, <2>1 DEF AlignedOK
<1> QED BY <1>6, <1>7, <1>8, <1>9, <1>10, ClockInv

LEMMA BlitHeaderRawInv ==
  ASSUME FpgaInv, NEW vblank \in BOOLEAN, BlitHeaderRaw(vblank)
  PROVE  FpgaInv'
<1> USE DEF FpgaInv
<1> DEFINE n  == Field(ddr, FrameAt)
           px == Field(ddr, PixelsAt)
           bl == Field(ddr, NumBlitAt)
<1>1. /\ state = "S_Blit_Header_Raw" /\ ddr # NoWord /\ auto_blit' = PollsOn(n)
      /\ ddr' = NoWord /\ vram' = IF vram.synced THEN vram ELSE EmptyVram
      /\ latch' = latch /\ burst' = burst /\ audio' = audio /\ vga' = vga /\ Clock
  BY DEF BlitHeaderRaw
<1>2. /\ ddr \in [FrameAt .. NumBlitAt + 1 -> 0 .. Byte - 1]
      /\ ~hps.waits => n <= hps.told
      /\ Receiving /\ n = hps.told => px <= PixelsCome
  BY <1>1 DEF ReadOK
<1>3. n \in Nat /\ px \in Nat /\ bl \in 0 .. Abort
  BY <1>2, Fields
<1>4. vram' \in VramType /\ (vram.synced => vram' = vram)
  <2>1. EmptyVram \in VramType /\ vram \in VramType
    BY DEF EmptyVram, VramType, RegistersOK
  <2> QED BY <1>1, <2>1
<1>5. auto_blit' \in BOOLEAN
  BY <1>1 DEF PollsOn
<1>6. CASE Late(n, vblank)
  <2>1. /\ PoC' = [Dropped(PoC) EXCEPT
                     !.frame_vram = IF n > PoC.frame_vram THEN n ELSE @,
                     !.frame_ddr  = IF n > PoC.frame_vram THEN n ELSE @]
        /\ state' = "S_Dispatcher"
    BY <1>6 DEF BlitHeaderRaw
  <2> HIDE DEF n, px, bl
  <2> QED BY <1>1, <1>2, <1>3, <1>4, <1>5, <2>1, LateHeader
<1>7. CASE ~Late(n, vblank)
  <2>1. /\ PoC' = IF OldFirst(n)
                  THEN [PoC EXCEPT !.px_ddr = vga.pixels, !.bl_ddr = PoC.bl_vram + 1]
                  ELSE [PoC EXCEPT !.frame_ddr = n, !.px_ddr = px,
                                   !.bl_ddr = IF px = vga.pixels
                                              THEN PoC.bl_vram + 1 ELSE bl]
        /\ state' = IF AwaitsModeline(n) THEN "S_Dispatcher" ELSE "S_Blit_Raw"
    BY <1>7 DEF BlitHeaderRaw, OldFirst
  <2> HIDE DEF n, px, bl
  <2>2. ~(n < PoC.frame_ddr)
    BY <1>7 DEF Late
  <2>3. /\ PoC \in PoCType /\ vga.pixels \in Nat /\ PoC.bl_vram < Abort
    BY DEF RegistersOK, VgaType
  <2>4. /\ PoC' \in PoCType /\ PoC'.px_vram = PoC.px_vram
        /\ PoC'.frame_vram = PoC.frame_vram /\ PoC'.bl_vram = PoC.bl_vram
        /\ PoC'.rgb_offset = PoC.rgb_offset /\ PoC'.bl_ddr \in 0 .. Abort
        /\ OldFirst(n) => PoC'.frame_ddr = PoC.frame_ddr
        /\ ~OldFirst(n) => PoC'.frame_ddr = n /\ PoC'.px_ddr = px
    BY <1>3, <2>1, <2>3, TakenPoC
  <2> QED BY <1>1, <1>2, <1>3, <1>4, <1>5, <2>1, <2>2, <2>4, TakenHeader
<1> QED BY <1>6, <1>7

LEMMA BlitRawPoC ==
  ASSUME PoC \in PoCType, PoC.rgb_offset <= 2,
         PoC' = [PoC EXCEPT
                   !.ddr_bytes  = PoC.px_ddr * PixelBytes,
                   !.vram_bytes = IF PoC.px_vram = 0 THEN 0 ELSE @,
                   !.rgb_offset = IF PoC.px_vram = 0 THEN 0 ELSE @]
  PROVE  /\ PoC' \in PoCType /\ PoC'.px_vram = PoC.px_vram /\ PoC'.px_ddr = PoC.px_ddr
         /\ PoC'.frame_vram = PoC.frame_vram /\ PoC'.frame_ddr = PoC.frame_ddr
         /\ PoC'.bl_vram = PoC.bl_vram /\ PoC'.bl_ddr = PoC.bl_ddr
         /\ PoC'.rgb_offset <= 2
<1>1. PICK a, b, c : /\ a = PoC.px_ddr * PixelBytes
                     /\ b = IF PoC.px_vram = 0 THEN 0 ELSE PoC.vram_bytes
                     /\ c = IF PoC.px_vram = 0 THEN 0 ELSE PoC.rgb_offset
  OBVIOUS
<1>2. a \in Nat /\ b \in Nat /\ c \in Nat /\ c <= 2
  <2>1. /\ PoC.px_ddr \in Nat /\ PixelBytes \in Nat /\ PoC.vram_bytes \in Nat
        /\ PoC.rgb_offset \in Nat
    BY Constants DEF PoCType
  <2> QED BY <1>1, <2>1
<1>3. PoC' = [PoC EXCEPT !.ddr_bytes = a, !.vram_bytes = b, !.rgb_offset = c]
  BY <1>1
<1> QED BY <1>2, <1>3 DEF PoCType

LEMMA BlitRawInv ==
  ASSUME FpgaInv, BlitRaw
  PROVE  FpgaInv'
<1> USE DEF FpgaInv
<1> DEFINE More == /\ PoC.frame_ddr > PoC.frame_vram /\ PoC.px_ddr > PoC.px_vram
                   /\ PoC.bl_ddr > PoC.bl_vram
<1>1. /\ state = "S_Blit_Raw" /\ auto_blit' = auto_blit /\ ddr' = ddr
      /\ latch' = latch /\ burst' = burst /\ audio' = audio /\ vga' = vga /\ Clock
  BY DEF BlitRaw
<1>2. /\ PoC \in PoCType /\ vga \in VgaType /\ latch \in LatchType /\ vram \in VramType
      /\ PoC.bl_vram < Abort /\ PoC.bl_ddr <= Abort /\ PoC.rgb_offset <= 2
      /\ vga.pixels > 0 /\ auto_blit \in BOOLEAN
      /\ PoC.px_vram > 0 => PoC.frame_vram < PoC.frame_ddr
  BY <1>1 DEF RegistersOK
<1>3. /\ PoC.frame_ddr \in Nat /\ PoC.px_vram \in Nat /\ PoC.frame_vram \in Nat
      /\ PoC.px_ddr \in Nat /\ vga.pixels \in Nat /\ vram.pixels \in Nat
  BY <1>2 DEF PoCType, VgaType, VramType
<1>4. /\ hps' = hps /\ used' = used /\ Receiving' = Receiving /\ PixelsCome' = PixelsCome
  BY <1>1, ClockKeeps
<1>5. CASE More
  <2>1. /\ PoC' = [PoC EXCEPT
                     !.ddr_bytes  = PoC.px_ddr * PixelBytes,
                     !.vram_bytes = IF PoC.px_vram = 0 THEN 0 ELSE @,
                     !.rgb_offset = IF PoC.px_vram = 0 THEN 0 ELSE @]
        /\ vram' = IF PoC.px_vram = 0 THEN CrushedVram ELSE vram
        /\ state' = IF PoC.bl_ddr = Abort THEN "S_Blit_End_Raw" ELSE "S_Blit_Prepare_Raw"
    BY <1>5 DEF BlitRaw
  <2>2. /\ PoC' \in PoCType /\ PoC'.px_vram = PoC.px_vram /\ PoC'.px_ddr = PoC.px_ddr
        /\ PoC'.frame_vram = PoC.frame_vram /\ PoC'.frame_ddr = PoC.frame_ddr
        /\ PoC'.bl_vram = PoC.bl_vram /\ PoC'.bl_ddr = PoC.bl_ddr
        /\ PoC'.rgb_offset <= 2
    BY <1>2, <2>1, BlitRawPoC
  <2>3. state' \in {"S_Blit_End_Raw", "S_Blit_Prepare_Raw"}
    BY <2>1
  <2>4. /\ vram' \in VramType
        /\ vram.synced => vram'.synced
        /\ PoC.px_vram > 0 => vram' = vram
        /\ PoC.px_vram = 0 => vram'.pixels \in {0, vga.pixels}
    <3>1. EmptyVram \in VramType /\ EmptyVram.pixels = 0 /\ EmptyVram.synced
      BY DEF EmptyVram, VramType
    <3> QED BY <1>2, <1>3, <2>1, <3>1 DEF CrushedVram
  <2>5. PoC.frame_vram < PoC.frame_ddr /\ PoC.px_vram <= PoC.px_ddr
    BY <1>3, <1>5
  <2>6. RegistersOK'
    <3>1. /\ state' \in States
          /\ burst' \in 0 .. MaxBurst /\ (burst' > 0 <=> state' = "S_Blit_Copy_Raw")
          /\ audio' \in Nat /\ (audio' > 0 <=> state' = "S_Audio")
      BY <1>1, <2>3, QuietRegisters DEF States
    <3> QED BY <1>1, <1>2, <2>2, <2>4, <2>5, <3>1, ClockRegisters
  <2>7. ModelineOK'
    BY <1>1, <2>3, ModelineKept
  <2>8. ReadOK'
    BY <1>1, <2>3 DEF ReadOK
  <2>9. DrawnOK'
    BY <1>1, <1>4, <2>2, <2>3 DEF DrawnOK, Drawing, Fetching
  <2>10. AlignedOK'
    <3>1. ASSUME used.starved = 0
          PROVE  /\ vram'.synced
                 /\ PoC.px_vram > 0 /\ PoC.px_vram <= vga.pixels => vram'.pixels = PoC.px_vram
                 /\ PoC.px_vram = 0 => vram'.pixels \in {0, vga.pixels}
                 /\ PoC.px_vram < vga.pixels
      BY <1>1, <2>4, <3>1 DEF AlignedOK
    <3> QED BY <1>1, <1>4, <2>2, <2>3, <3>1 DEF AlignedOK
  <2> QED BY <1>1, <2>6, <2>7, <2>8, <2>9, <2>10, ClockInv
<1>6. CASE ~More
  <2>1. state' = "S_Dispatcher" /\ PoC' = PoC /\ vram' = vram
    BY <1>6 DEF BlitRaw
  <2>2. RegistersOK'
    <3>1. /\ state' \in States /\ state' \notin Fetching
          /\ burst' \in 0 .. MaxBurst /\ (burst' > 0 <=> state' = "S_Blit_Copy_Raw")
          /\ audio' \in Nat /\ (audio' > 0 <=> state' = "S_Audio")
      BY <1>1, <2>1, QuietRegisters DEF States, Fetching
    <3> QED BY <1>1, <1>2, <2>1, <3>1, ClockRegisters
  <2>3. ModelineOK'
    BY <1>1, <2>1, ModelineKept
  <2>4. ReadOK'
    BY <1>1, <2>1 DEF ReadOK
  <2>5. DrawnOK'
    BY <1>1, <1>4, <2>1 DEF DrawnOK, Drawing, Fetching
  <2>6. AlignedOK'
    BY <1>1, <1>4, <2>1 DEF AlignedOK, Fetching
  <2> QED BY <1>1, <2>2, <2>3, <2>4, <2>5, <2>6, ClockInv
<1> QED BY <1>5, <1>6

LEMMA PrepareRawInv ==
  ASSUME FpgaInv, PrepareRaw
  PROVE  FpgaInv'
<1> USE DEF FpgaInv
<1>1. /\ state = "S_Blit_Prepare_Raw" /\ auto_blit' = auto_blit /\ ddr' = ddr
      /\ latch' = latch /\ PoC' = PoC /\ audio' = audio /\ vga' = vga /\ vram' = vram
      /\ Clock
  BY DEF PrepareRaw, video
<1>2. /\ state' \in {"S_Blit_Copy_Raw", "S_Dispatcher"}
      /\ burst' \in 0 .. MaxBurst /\ (burst' > 0 <=> state' = "S_Blit_Copy_Raw")
  <2>1. burst \in 0 .. MaxBurst /\ ~(burst > 0) /\ MaxBurst \in Nat \ {0}
    BY <1>1, Constants DEF RegistersOK
  <2>2. CASE latch.audio = 0 /\ MoreToFetch
    <3>1. /\ state' = "S_Blit_Copy_Raw"
          /\ burst' = IF BytesLeft \div WordBytes >= MaxBurst THEN MaxBurst ELSE WordsLeft
      BY <2>2 DEF PrepareRaw
    <3>2. BytesLeft \in Nat /\ WordsLeft > 0
      BY <2>2 DEF MoreToFetch, BytesLeft, RegistersOK, PoCType
    <3>3. BytesLeft \div WordBytes \in Nat
      BY <3>2, Constants, DivMod
    <3>4. /\ WordsLeft \in Nat
          /\ WordsLeft <= (BytesLeft \div WordBytes) + 1
      BY <3>3 DEF WordsLeft
    <3> HIDE DEF WordsLeft, BytesLeft
    <3>5. burst' \in 1 .. MaxBurst
      BY <2>1, <3>1, <3>2, <3>3, <3>4
    <3> QED BY <2>1, <3>1, <3>5
  <2>3. CASE ~(latch.audio = 0 /\ MoreToFetch)
    BY <2>1, <2>3 DEF PrepareRaw
  <2> QED BY <2>2, <2>3
<1>3. RegistersOK'
  BY <1>1, <1>2, ClockKeeps DEF RegistersOK, States, Fetching
<1>4. ModelineOK'
  BY <1>1, <1>2, ModelineKept
<1>5. ReadOK'
  BY <1>1, <1>2 DEF ReadOK
<1>6. DrawnOK'
  BY <1>1, <1>2, ClockKeeps DEF DrawnOK, Drawing, Fetching
<1>7. AlignedOK'
  BY <1>1, <1>2, ClockKeeps DEF AlignedOK, Fetching
<1> QED BY <1>1, <1>3, <1>4, <1>5, <1>6, <1>7, ClockInv

(* A word completes no pixel that was not announced. *)
LEMMA DecodedRange ==
  ASSUME PoC \in PoCType, PoC.px_vram <= PoC.px_ddr
  PROVE  Decoded \in Nat /\ PoC.px_vram + Decoded <= PoC.px_ddr
<1>1. PixelsOfWord \in Nat
  <2>1. PixelBytes = 2 \/ PixelBytes = 3 \/ PixelBytes = 4
    BY Constants
  <2>2. WordBytes = 8 /\ 8 \div 2 = 4 /\ 8 \div 4 = 2
    BY Constants
  <2> QED BY <2>1, <2>2 DEF PixelsOfWord
<1>2. PoC.px_vram \in Nat /\ PoC.px_ddr \in Nat
  BY DEF PoCType
<1> QED BY <1>1, <1>2 DEF Decoded

LEMMA CopyRawPoC ==
  ASSUME PoC \in PoCType, PoC.rgb_offset <= 2, NEW D \in Nat,
         \/ PoC' = [PoC EXCEPT !.vram_bytes = @ + WordBytes, !.px_vram = @ + D,
                               !.rgb_offset = IF PixelBytes = 3 THEN (@ + 1) % 3 ELSE @]
         \/ PoC' = [PoC EXCEPT !.vram_bytes = @ + WordBytes] /\ D = 0
  PROVE  /\ PoC' \in PoCType /\ PoC'.px_vram = PoC.px_vram + D
         /\ PoC'.px_ddr = PoC.px_ddr
         /\ PoC'.frame_vram = PoC.frame_vram /\ PoC'.frame_ddr = PoC.frame_ddr
         /\ PoC'.bl_vram = PoC.bl_vram /\ PoC'.bl_ddr = PoC.bl_ddr
         /\ PoC'.rgb_offset <= 2
<1>1. /\ PoC.vram_bytes \in Nat /\ PoC.px_vram \in Nat /\ PoC.rgb_offset \in Nat
      /\ WordBytes \in Nat
  BY Constants DEF PoCType
<1>2. PICK a, b, c : /\ a = PoC.vram_bytes + WordBytes /\ b = PoC.px_vram + D
                     /\ c = IF PixelBytes = 3 THEN (PoC.rgb_offset + 1) % 3
                                              ELSE PoC.rgb_offset
  OBVIOUS
<1>3. a \in Nat /\ b \in Nat /\ c \in Nat /\ c <= 2
  BY <1>1, <1>2
<1>4. CASE PoC' = [PoC EXCEPT !.vram_bytes = @ + WordBytes, !.px_vram = @ + D,
                              !.rgb_offset = IF PixelBytes = 3 THEN (@ + 1) % 3 ELSE @]
  <2>1. PoC' = [PoC EXCEPT !.vram_bytes = a, !.px_vram = b, !.rgb_offset = c]
    BY <1>2, <1>4
  <2>2. /\ PoC' \in PoCType /\ PoC'.px_vram = b /\ PoC'.px_ddr = PoC.px_ddr
        /\ PoC'.frame_vram = PoC.frame_vram /\ PoC'.frame_ddr = PoC.frame_ddr
        /\ PoC'.bl_vram = PoC.bl_vram /\ PoC'.bl_ddr = PoC.bl_ddr
        /\ PoC'.rgb_offset = c
    BY <1>3, <2>1 DEF PoCType
  <2> QED BY <1>2, <1>3, <2>2
<1>5. CASE PoC' = [PoC EXCEPT !.vram_bytes = @ + WordBytes] /\ D = 0
  <2>1. PoC' = [PoC EXCEPT !.vram_bytes = a]
    BY <1>2, <1>5
  <2>2. /\ PoC' \in PoCType /\ PoC'.px_vram = PoC.px_vram /\ PoC'.px_ddr = PoC.px_ddr
        /\ PoC'.frame_vram = PoC.frame_vram /\ PoC'.frame_ddr = PoC.frame_ddr
        /\ PoC'.bl_vram = PoC.bl_vram /\ PoC'.bl_ddr = PoC.bl_ddr
        /\ PoC'.rgb_offset = PoC.rgb_offset
    BY <1>3, <2>1 DEF PoCType
  <2> QED BY <1>1, <1>5, <2>2
<1> QED BY <1>4, <1>5

LEMMA CopyRawFacts ==
  ASSUME RegistersOK, CopyRaw
  PROVE  \E D \in Nat :
           /\ PoC.px_vram + D <= PoC.px_ddr
           /\ PoC' \in PoCType /\ PoC'.px_vram = PoC.px_vram + D
           /\ PoC'.px_ddr = PoC.px_ddr
           /\ PoC'.frame_vram = PoC.frame_vram /\ PoC'.frame_ddr = PoC.frame_ddr
           /\ PoC'.bl_vram = PoC.bl_vram /\ PoC'.bl_ddr = PoC.bl_ddr
           /\ PoC'.rgb_offset <= 2
           /\ vram' \in VramType /\ vram'.synced = vram.synced
           /\ vram.synced => vram'.pixels = IF D > 0 /\ vram.pixels >= vga.pixels
                                            THEN D ELSE vram.pixels + D
<1>1. /\ PoC \in PoCType /\ PoC.rgb_offset <= 2 /\ PoC.px_vram <= PoC.px_ddr
      /\ vram \in VramType
  BY DEF RegistersOK, Fetching, CopyRaw
<1>2. Decoded \in Nat /\ PoC.px_vram + Decoded <= PoC.px_ddr
  BY <1>1, DecodedRange
<1>3. CASE vram.synced
  <2>1. /\ PoC' = [PoC EXCEPT !.vram_bytes = @ + WordBytes, !.px_vram = @ + Decoded,
                              !.rgb_offset = IF PixelBytes = 3 THEN (@ + 1) % 3 ELSE @]
        /\ vram' = [vram EXCEPT !.pixels = IF Decoded > 0 /\ @ >= vga.pixels
                                           THEN Decoded ELSE @ + Decoded]
    BY <1>3 DEF CopyRaw
  <2>2. PICK D \in Nat : D = Decoded
    BY <1>2
  <2> HIDE DEF Decoded
  <2>3. /\ PoC' \in PoCType /\ PoC'.px_vram = PoC.px_vram + D
        /\ PoC'.px_ddr = PoC.px_ddr
        /\ PoC'.frame_vram = PoC.frame_vram /\ PoC'.frame_ddr = PoC.frame_ddr
        /\ PoC'.bl_vram = PoC.bl_vram /\ PoC'.bl_ddr = PoC.bl_ddr
        /\ PoC'.rgb_offset <= 2
    BY <1>1, <2>1, <2>2, CopyRawPoC
  <2>4. PICK p : p = IF D > 0 /\ vram.pixels >= vga.pixels THEN D ELSE vram.pixels + D
    OBVIOUS
  <2>5. p \in Nat
    BY <1>1, <2>2, <2>4 DEF VramType
  <2>6. vram' = [vram EXCEPT !.pixels = p]
    BY <2>1, <2>2, <2>4
  <2>7. vram' \in VramType /\ vram'.synced = vram.synced /\ vram'.pixels = p
    BY <1>1, <2>5, <2>6 DEF VramType
  <2> QED BY <1>2, <2>2, <2>3, <2>4, <2>7
<1>4. CASE ~vram.synced
  <2>1. PoC' = [PoC EXCEPT !.vram_bytes = @ + WordBytes] /\ vram' = vram
    BY <1>4 DEF CopyRaw
  <2>2. /\ PoC' \in PoCType /\ PoC'.px_vram = PoC.px_vram + 0
        /\ PoC'.px_ddr = PoC.px_ddr
        /\ PoC'.frame_vram = PoC.frame_vram /\ PoC'.frame_ddr = PoC.frame_ddr
        /\ PoC'.bl_vram = PoC.bl_vram /\ PoC'.bl_ddr = PoC.bl_ddr
        /\ PoC'.rgb_offset <= 2
    BY <1>1, <2>1, CopyRawPoC
  <2>3. PoC.px_vram + 0 <= PoC.px_ddr
    BY <1>1 DEF PoCType
  <2> QED BY <1>1, <1>4, <2>1, <2>2, <2>3
<1> QED BY <1>3, <1>4

LEMMA CopyRawInv ==
  ASSUME FpgaInv, CopyRaw
  PROVE  FpgaInv'
<1> USE DEF FpgaInv
<1>1. /\ state = "S_Blit_Copy_Raw" /\ auto_blit' = auto_blit /\ ddr' = ddr
      /\ burst' = burst - 1 /\ state' = IF burst = 1 THEN "S_Blit_End_Raw" ELSE state
      /\ vga' = [vga EXCEPT !.held = FALSE, !.started = @ \/ vram.synced]
      /\ latch' = latch /\ audio' = audio /\ Clock
  BY DEF CopyRaw
<1>2. PICK D \in Nat :
           /\ PoC.px_vram + D <= PoC.px_ddr
           /\ PoC' \in PoCType /\ PoC'.px_vram = PoC.px_vram + D
           /\ PoC'.px_ddr = PoC.px_ddr
           /\ PoC'.frame_vram = PoC.frame_vram /\ PoC'.frame_ddr = PoC.frame_ddr
           /\ PoC'.bl_vram = PoC.bl_vram /\ PoC'.bl_ddr = PoC.bl_ddr
           /\ PoC'.rgb_offset <= 2
           /\ vram' \in VramType /\ vram'.synced = vram.synced
           /\ vram.synced => vram'.pixels = IF D > 0 /\ vram.pixels >= vga.pixels
                                            THEN D ELSE vram.pixels + D
  BY CopyRawFacts
<1>3. /\ vga' \in VgaType /\ vga'.pixels = vga.pixels
  <2>1. vga \in VgaType /\ (vga.started \/ vram.synced) \in BOOLEAN
    BY DEF RegistersOK
  <2>2. PICK b \in BOOLEAN : vga' = [vga EXCEPT !.held = FALSE, !.started = b]
    BY <1>1, <2>1
  <2> QED BY <2>1, <2>2 DEF VgaType
<1>4. /\ state' \in {"S_Blit_Copy_Raw", "S_Blit_End_Raw"}
      /\ burst' \in 0 .. MaxBurst /\ (burst' > 0 <=> state' = "S_Blit_Copy_Raw")
      /\ audio' \in Nat /\ (audio' > 0 <=> state' = "S_Audio")
  <2>1. /\ burst \in 0 .. MaxBurst /\ burst > 0 /\ MaxBurst \in Nat
        /\ audio \in Nat /\ ~(audio > 0)
    BY <1>1, Constants DEF RegistersOK
  <2> QED BY <1>1, <2>1
<1>5. /\ PoC \in PoCType /\ vga.pixels > 0 /\ vga.pixels \in Nat /\ vram.pixels \in Nat
      /\ auto_blit \in BOOLEAN /\ latch \in LatchType /\ PoC.px_vram \in Nat
      /\ PoC.bl_vram < Abort /\ PoC.bl_ddr <= Abort
      /\ PoC.frame_vram < PoC.frame_ddr
  BY <1>1 DEF RegistersOK, VgaType, VramType, PoCType, Fetching
<1>6. /\ hps' = hps /\ used' = used /\ Receiving' = Receiving /\ PixelsCome' = PixelsCome
  BY <1>1, ClockKeeps
<1>7. RegistersOK'
  <2>1. state' \in States
    BY <1>4 DEF States
  <2> QED BY <1>1, <1>2, <1>3, <1>4, <1>5, <2>1, ClockRegisters
<1>8. ModelineOK'
  BY <1>1, <1>3, <1>4, ModelineKept
<1>9. ReadOK'
  BY <1>1, <1>4 DEF ReadOK
<1>10. DrawnOK'
  <2>1. state \in Drawing /\ state' \in Drawing /\ state # "S_Idle"
    BY <1>1, <1>4 DEF Drawing, Fetching
  <2> QED BY <1>1, <1>2, <1>6, <2>1 DEF DrawnOK
<1>11. AlignedOK'
  <2>1. ASSUME used.starved = 0
        PROVE  /\ vram'.synced
               /\ PoC'.px_vram > 0 /\ PoC'.px_vram <= vga.pixels
                    => vram'.pixels = PoC'.px_vram
               /\ PoC'.px_vram = 0 => vram'.pixels \in {0, vga.pixels}
    <3>1. /\ vram.synced
          /\ PoC.px_vram > 0 /\ PoC.px_vram <= vga.pixels => vram.pixels = PoC.px_vram
          /\ PoC.px_vram = 0 => vram.pixels \in {0, vga.pixels}
      BY <1>1, <2>1 DEF AlignedOK, Fetching
    <3>2. vram'.pixels = IF D > 0 /\ vram.pixels >= vga.pixels THEN D ELSE vram.pixels + D
      BY <1>2, <3>1
    <3>3. PoC'.px_vram = PoC.px_vram + D /\ (vram.synced => vram'.synced)
      BY <1>2
    <3>4. PoC'.px_vram > 0 /\ PoC'.px_vram <= vga.pixels => vram'.pixels = PoC'.px_vram
      <4>1. CASE PoC.px_vram = 0
        <5>1. CASE D = 0
          BY <1>5, <3>3, <4>1, <5>1
        <5>2. CASE D > 0
          BY <1>5, <3>1, <3>2, <3>3, <4>1, <5>2
        <5> QED BY <5>1, <5>2
      <4>2. CASE PoC.px_vram > 0
        BY <1>5, <3>1, <3>2, <3>3, <4>2
      <4> QED BY <1>5, <4>1, <4>2
    <3>5. PoC'.px_vram = 0 => vram'.pixels \in {0, vga.pixels}
      <4>1. ASSUME PoC'.px_vram = 0 PROVE D = 0 /\ PoC.px_vram = 0
        BY <1>5, <3>3, <4>1
      <4> QED BY <1>5, <3>1, <3>2, <4>1
    <3> QED BY <3>1, <3>3, <3>4, <3>5
  <2> QED BY <1>3, <1>4, <1>6, <2>1 DEF AlignedOK
<1> QED BY <1>1, <1>7, <1>8, <1>9, <1>10, <1>11, ClockInv

LEMMA EndRawInv ==
  ASSUME FpgaInv, EndRaw
  PROVE  FpgaInv'
<1> USE DEF FpgaInv
<1> DEFINE P == IF PoC.vram_bytes + 7 >= PoC.ddr_bytes
                THEN [PoC EXCEPT !.bl_vram = PoC.bl_ddr] ELSE PoC
           Ends == PoC.px_vram >= vga.pixels \/ PoC.bl_ddr = Abort
<1>1. /\ state = "S_Blit_End_Raw" /\ auto_blit' = auto_blit /\ ddr' = ddr
      /\ latch' = latch /\ burst' = burst /\ audio' = audio /\ vga' = vga /\ Clock
  BY DEF EndRaw
<1>2. /\ PoC \in PoCType /\ vga \in VgaType /\ latch \in LatchType /\ vram \in VramType
      /\ PoC.bl_vram < Abort /\ PoC.bl_ddr <= Abort /\ PoC.rgb_offset <= 2
      /\ vga.pixels > 0 /\ auto_blit \in BOOLEAN
      /\ PoC.frame_vram < PoC.frame_ddr /\ PoC.px_vram <= PoC.px_ddr
  BY <1>1 DEF RegistersOK, Fetching
<1>3. /\ PoC.frame_ddr \in Nat /\ PoC.px_vram \in Nat /\ PoC.frame_vram \in Nat
      /\ PoC.bl_ddr \in Nat /\ vga.pixels \in Nat
  BY <1>2 DEF PoCType, VgaType
<1>4. /\ hps' = hps /\ used' = used /\ Receiving' = Receiving /\ PixelsCome' = PixelsCome
  BY <1>1, ClockKeeps
<1>5. /\ P \in PoCType /\ P.px_vram = PoC.px_vram /\ P.px_ddr = PoC.px_ddr
      /\ P.frame_vram = PoC.frame_vram /\ P.frame_ddr = PoC.frame_ddr
      /\ P.bl_ddr = PoC.bl_ddr /\ P.rgb_offset = PoC.rgb_offset
      /\ P.bl_vram \in {PoC.bl_vram, PoC.bl_ddr}
  <2>1. CASE PoC.vram_bytes + 7 >= PoC.ddr_bytes
    <3>1. P = [PoC EXCEPT !.bl_vram = PoC.bl_ddr]
      BY <2>1
    <3> HIDE DEF P
    <3> QED BY <1>2, <1>3, <3>1 DEF PoCType
  <2>2. CASE ~(PoC.vram_bytes + 7 >= PoC.ddr_bytes)
    BY <1>2, <2>2
  <2> QED BY <2>1, <2>2
<1>6. CASE Ends
  <2>1. /\ PoC' = [Dropped(P) EXCEPT
                     !.frame_vram = IF PoC.frame_ddr > @ THEN PoC.frame_ddr ELSE @]
        /\ vram' = IF ~vram.synced \/ PoC.px_vram # vga.pixels THEN EmptyVram ELSE vram
        /\ state' = "S_Dispatcher"
    BY <1>6 DEF EndRaw
  <2> HIDE DEF P
  <2>2. PICK Q : Q = Dropped(P)
    OBVIOUS
  <2>3. /\ Q \in PoCType /\ Q.px_vram = 0 /\ Q.bl_vram = 0 /\ Q.bl_ddr = 0
        /\ Q.rgb_offset = 0 /\ Q.frame_vram = PoC.frame_vram
    BY <1>5, <2>2, DroppedType
  <2>4. PICK m \in Nat : PoC' = [Q EXCEPT !.frame_vram = m]
    <3>1. PoC' = [Q EXCEPT !.frame_vram = PoC.frame_ddr]
      BY <1>2, <2>1, <2>2, <2>3
    <3> QED BY <1>3, <3>1
  <2>5. /\ PoC' \in PoCType /\ PoC'.px_vram = 0 /\ PoC'.bl_vram = 0
        /\ PoC'.rgb_offset = 0 /\ PoC'.bl_ddr = 0
    BY <2>3, <2>4 DEF PoCType
  <2>6. vram' \in VramType /\ (vram.synced => vram'.synced)
    <3>1. EmptyVram \in VramType /\ EmptyVram.synced
      BY DEF EmptyVram, VramType
    <3> QED BY <1>2, <2>1, <3>1
  <2>7. RegistersOK'
    <3>1. /\ state' \in States /\ state' \notin Fetching
          /\ burst' \in 0 .. MaxBurst /\ (burst' > 0 <=> state' = "S_Blit_Copy_Raw")
          /\ audio' \in Nat /\ (audio' > 0 <=> state' = "S_Audio")
      BY <1>1, <2>1, QuietRegisters DEF States, Fetching
    <3>2. /\ PoC'.rgb_offset <= 2 /\ PoC'.bl_ddr <= Abort /\ PoC'.bl_vram < Abort
          /\ ~(PoC'.px_vram > 0)
      BY <2>5, AbortNat
    <3> QED BY <1>1, <1>2, <2>5, <2>6, <3>1, <3>2, ClockRegisters
  <2>8. ModelineOK'
    BY <1>1, <2>1, ModelineKept
  <2>9. ReadOK'
    BY <1>1, <2>1 DEF ReadOK
  <2>10. DrawnOK'
    BY <2>1, <2>5 DEF DrawnOK, Drawing, Fetching
  <2>11. AlignedOK'
    BY <1>1, <1>2, <1>3, <1>4, <2>1, <2>5, <2>6 DEF AlignedOK, Fetching
  <2> QED BY <1>1, <2>7, <2>8, <2>9, <2>10, <2>11, ClockInv
<1>7. CASE ~Ends
  <2>1. /\ PoC' = P /\ vram' = vram
        /\ state' \in {"S_Dispatcher", "S_Blit_Prepare_Raw"}
    BY <1>7 DEF EndRaw
  <2>2. PoC.px_vram < vga.pixels /\ P.bl_vram < Abort
    BY <1>2, <1>3, <1>5, <1>7, AbortNat
  <2> HIDE DEF P
  <2>3. RegistersOK'
    <3>1. /\ state' \in States
          /\ burst' \in 0 .. MaxBurst /\ (burst' > 0 <=> state' = "S_Blit_Copy_Raw")
          /\ audio' \in Nat /\ (audio' > 0 <=> state' = "S_Audio")
      BY <1>1, <2>1, QuietRegisters DEF States
    <3> QED BY <1>1, <1>2, <1>5, <2>1, <2>2, <3>1, ClockRegisters
  <2>4. ModelineOK'
    BY <1>1, <2>1, ModelineKept
  <2>5. ReadOK'
    BY <1>1, <2>1 DEF ReadOK
  <2>6. DrawnOK'
    <3>1. state \in Drawing /\ state # "S_Idle"
      BY <1>1 DEF Drawing, Fetching
    <3> QED BY <1>1, <1>4, <1>5, <2>1, <3>1 DEF DrawnOK
  <2>7. AlignedOK'
    BY <1>1, <1>4, <1>5, <2>1, <2>2 DEF AlignedOK, Fetching
  <2> QED BY <1>1, <2>3, <2>4, <2>5, <2>6, <2>7, ClockInv
<1> QED BY <1>6, <1>7

-----------------------------------------------------------------------------
(* The invariant *)

LEMMA InitInv ==
  ASSUME FpgaInit
  PROVE  FpgaInv
<1>1. /\ Byte \in Nat /\ Byte > 1 /\ DefaultPixels \in Nat \ {0} /\ MaxBurst \in Nat
      /\ hpsBlit \in {0, 1}
  BY Constants DEF FpgaInit
<1>2. /\ hps = NewSession /\ hps.told = 0 /\ hps.recv = 0 /\ hps.mode = 0 /\ hps.len = 0
      /\ hps.waits = TRUE /\ hps.open = FALSE
  BY DEF FpgaInit, NewSession
<1>3. todo = <<>> /\ todo \in Seq(Writes) /\ DOMAIN todo = {}
  BY DEF FpgaInit
<1>4. \A at : ~Pending(at)
  BY <1>3 DEF Pending, Has
<1>5. header = [at \in 1 .. 6 |-> 0]
  BY DEF FpgaInit
<1>6. /\ latch.init = FALSE /\ latch.switchres = FALSE /\ latch \in LatchType
      /\ state = "S_Idle" /\ PoC = ZeroPoC /\ ddr = NoWord /\ burst = 0 /\ audio = 0
      /\ auto_blit = FALSE /\ modeline = DefaultPixels /\ vram.synced = TRUE
      /\ vga.pixels = DefaultPixels
  BY DEF FpgaInit, EmptyVram, LatchType
<1>7. /\ PoC \in PoCType /\ PoC.px_vram = 0 /\ PoC.bl_vram = 0 /\ PoC.rgb_offset = 0
      /\ PoC.bl_ddr = 0
  BY <1>6 DEF ZeroPoC, PoCType
<1>8. vga \in VgaType /\ vram \in VramType /\ used \in UsedType
  BY <1>1 DEF FpgaInit, VgaType, VramType, UsedType, EmptyVram
<1>9. HpsOK
  BY <1>1, <1>2 DEF HpsOK, HpsType, NewSession
<1>10. TodoOK
  BY <1>2, <1>3 DEF TodoOK, Small
<1>11. FrameOK
  <2>1. 0 % Byte = 0 /\ 0 \div Byte = 0
    <3>1. /\ 0 \div Byte \in Nat /\ 0 % Byte \in 0 .. Byte - 1
          /\ 0 = Byte * (0 \div Byte) + (0 % Byte)
      BY <1>1, DivMod
    <3>2. PICK q \in Nat : q = 0 \div Byte
      BY <3>1
    <3>3. Byte * q >= q
      <4>1. q * 1 <= q * Byte
        BY <1>1, <3>2, MulMono
      <4> QED BY <1>1, <3>2, <4>1
    <3> QED BY <1>1, <3>1, <3>2, <3>3
  <2> QED BY <1>2, <1>3, <1>5, <2>1 DEF FrameOK, Value, Pending, Has
<1>12. PixelsOK
  BY <1>2 DEF PixelsOK, Receiving
<1>13. ModelineOK
  BY <1>2, <1>3, <1>4, <1>6 DEF ModelineOK, Value
<1>14. RegistersOK
  <2>1. header \in [FrameAt .. NumBlitAt + 1 -> 0 .. Byte - 1]
    BY <1>1, <1>5
  <2>2. /\ state \in States /\ state \notin Fetching
        /\ burst \in 0 .. MaxBurst /\ (burst > 0 <=> state = "S_Blit_Copy_Raw")
        /\ audio \in Nat /\ (audio > 0 <=> state = "S_Audio")
    BY <1>1, <1>6 DEF States, Fetching
  <2>5. auto_blit \in BOOLEAN
    BY <1>6
  <2>3. modeline \in Nat \ {0} /\ vga.pixels > 0
    BY <1>1, <1>6
  <2>4. /\ PoC.rgb_offset <= 2 /\ PoC.bl_ddr <= Abort /\ PoC.bl_vram < Abort
        /\ ~(PoC.px_vram > 0)
    BY <1>7, AbortNat
  <2> QED BY <1>6, <1>7, <1>8, <2>1, <2>2, <2>3, <2>4, <2>5 DEF RegistersOK
<1>15. ReadOK /\ DrawnOK /\ AlignedOK
  BY <1>6 DEF ReadOK, DrawnOK, AlignedOK
<1> QED BY <1>9, <1>10, <1>11, <1>12, <1>13, <1>14, <1>15 DEF FpgaInv

LEMMA StepInv ==
  ASSUME FpgaInv, [BlitNext]_fpgaVars
  PROVE  FpgaInv'
<1>1. CASE ServerNext \/ InitDone
  BY <1>1, HandlersInv DEF Handlers
<1>2. CASE Write
  BY <1>2, WriteInv
<1>3. CASE FpgaNext
  <2>1. CASE Idle
    BY <2>1, IdleInv
  <2>2. CASE Reset
    BY <2>2, ResetInv
  <2>3. CASE DispatchSwitchres
    BY <2>3, DispatchSwitchresInv
  <2>4. CASE SwitchresHeader
    BY <2>4, SwitchresHeaderInv
  <2>5. CASE SwitchresMode
    BY <2>5, SwitchresModeInv
  <2>6. CASE DispatchAudio
    BY <2>6, DispatchAudioInv
  <2>7. CASE Audio
    BY <2>7, AudioInv
  <2>8. CASE DispatchBlit
    BY <2>8, DispatchBlitInv
  <2>9. CASE ReadHeader
    BY <2>9, ReadHeaderInv
  <2>10. CASE \E vblank \in BOOLEAN : BlitHeaderRaw(vblank)
    BY <2>10, BlitHeaderRawInv
  <2>11. CASE BlitRaw
    BY <2>11, BlitRawInv
  <2>12. CASE PrepareRaw
    BY <2>12, PrepareRawInv
  <2>13. CASE CopyRaw
    BY <2>13, CopyRawInv
  <2>14. CASE EndRaw
    BY <2>14, EndRawInv
  <2> QED BY <1>3, <2>1, <2>2, <2>3, <2>4, <2>5, <2>6, <2>7, <2>8, <2>9, <2>10, <2>11,
             <2>12, <2>13, <2>14 DEF FpgaNext
<1>4. CASE Raster
  BY <1>4, RasterInv
<1>5. CASE Starve
  BY <1>5, StarveInv
<1>6. CASE UNCHANGED fpgaVars
  BY <1>6 DEF fpgaVars, memory, fpga, video, FpgaInv, HpsOK, TodoOK, FrameOK, PixelsOK,
              ModelineOK, RegistersOK, ReadOK, DrawnOK, AlignedOK, Pending, Field,
              Receiving, PixelsCome
<1> QED BY <1>1, <1>2, <1>3, <1>4, <1>5, <1>6 DEF BlitNext

LEMMA FpgaInvariant == BlitSpec => []FpgaInv
<1>1. FpgaInit => FpgaInv
  BY InitInv
<1>2. FpgaInv /\ [BlitNext]_fpgaVars => FpgaInv'
  BY StepInv
<1> QED BY <1>1, <1>2, PTL DEF BlitSpec

(* Only a word of a burst draws. *)
LEMMA OnlyCopyDraws ==
  ASSUME FpgaInv, [BlitNext]_fpgaVars, Draws
  PROVE  CopyRaw
<1> SUFFICES ASSUME ~CopyRaw PROVE ~(PoC'.px_vram > PoC.px_vram)
  BY DEF Draws
<1>1. PoC \in PoCType /\ PoC.px_vram \in Nat
  BY DEF FpgaInv, RegistersOK, PoCType
<1>2. CASE PoC' = PoC
  BY <1>1, <1>2
<1>3. CASE Idle
  BY <1>1, <1>3 DEF Idle, ZeroPoC
<1>4. CASE SwitchresMode
  <2>1. PoC' = [PoC EXCEPT !.frame_ddr = vga.frame, !.frame_vram = 0,
                           !.px_vram = 0, !.bl_vram = 0]
    BY <1>4 DEF SwitchresMode
  <2>2. PoC'.px_vram = 0
    BY <1>1, <2>1 DEF PoCType
  <2> QED BY <1>1, <2>2
<1>5. ASSUME NEW vblank \in BOOLEAN, BlitHeaderRaw(vblank)
      PROVE  PoC'.px_vram \in {0, PoC.px_vram}
  <2>1. PICK P : P = Dropped(PoC)
    OBVIOUS
  <2>2. P \in PoCType /\ P.px_vram = 0
    BY <1>1, <2>1, DroppedType
  <2>3. \/ \E a, b : PoC' = [P EXCEPT !.frame_vram = a, !.frame_ddr = b]
        \/ \E a, b : PoC' = [PoC EXCEPT !.px_ddr = a, !.bl_ddr = b]
        \/ \E a, b, c : PoC' = [PoC EXCEPT !.frame_ddr = a, !.px_ddr = b, !.bl_ddr = c]
    BY <1>5, <2>1, Zenon DEF BlitHeaderRaw
  <2> QED BY <1>1, <2>2, <2>3 DEF PoCType
<1>6. CASE BlitRaw
  <2>1. \/ PoC' = PoC
        \/ PoC' = [PoC EXCEPT
                     !.ddr_bytes  = PoC.px_ddr * PixelBytes,
                     !.vram_bytes = IF PoC.px_vram = 0 THEN 0 ELSE @,
                     !.rgb_offset = IF PoC.px_vram = 0 THEN 0 ELSE @]
    BY <1>6 DEF BlitRaw
  <2>2. PoC'.px_vram = PoC.px_vram
    BY <1>1, <2>1 DEF PoCType
  <2> QED BY <1>1, <2>2
<1>7. CASE EndRaw
  <2>1. PICK P : P = IF PoC.vram_bytes + 7 >= PoC.ddr_bytes
                     THEN [PoC EXCEPT !.bl_vram = PoC.bl_ddr] ELSE PoC
    OBVIOUS
  <2>2. P \in PoCType /\ P.px_vram = PoC.px_vram
    BY <1>1, <2>1 DEF PoCType
  <2>3. PICK Q : Q = Dropped(P)
    OBVIOUS
  <2>4. Q \in PoCType /\ Q.px_vram = 0
    BY <2>2, <2>3, DroppedType
  <2>5. PoC' = P \/ \E a : PoC' = [Q EXCEPT !.frame_vram = a]
    BY <1>7, <2>1, <2>3, Zenon DEF EndRaw
  <2>6. PoC'.px_vram \in {0, PoC.px_vram}
    BY <2>2, <2>4, <2>5 DEF PoCType
  <2> QED BY <1>1, <2>6
<1>8. /\ ServerNext \/ InitDone => PoC' = PoC
      /\ Write \/ Raster \/ Starve \/ UNCHANGED fpgaVars => PoC' = PoC
      /\ Reset \/ DispatchSwitchres \/ SwitchresHeader \/ DispatchAudio \/ Audio
           \/ DispatchBlit \/ ReadHeader \/ PrepareRaw => PoC' = PoC
  <2>1. ServerNext \/ InitDone => PoC' = PoC
    BY HandlersKeep DEF Handlers
  <2>2. Write \/ Raster \/ Starve \/ UNCHANGED fpgaVars => PoC' = PoC
    BY DEF Write, Raster, Starve, fpgaVars, fpga
  <2>3. Reset \/ DispatchSwitchres \/ SwitchresHeader \/ DispatchAudio \/ Audio
          \/ DispatchBlit \/ ReadHeader \/ PrepareRaw => PoC' = PoC
    BY DEF Reset, DispatchSwitchres, SwitchresHeader, DispatchAudio, Audio, DispatchBlit,
           ReadHeader, PrepareRaw
  <2> QED BY <2>1, <2>2, <2>3
<1> QED BY <1>1, <1>2, <1>3, <1>4, <1>5, <1>6, <1>7, <1>8 DEF BlitNext, FpgaNext

-----------------------------------------------------------------------------
(* The theorems *)

(* For every size of pixel, header byte, burst and modeline, the registers of  *)
(* the core are numbers of their ranges, bl_ddr never passes 65535, and a      *)
(* burst is under way exactly in S_Blit_Copy_Raw.                              *)
THEOREM FpgaTypeCorrect == BlitSpec => []FpgaTypeOK
<1>1. FpgaInv => FpgaTypeOK
  <2>1. PoC \in PoCType => PoC \in [DOMAIN ZeroPoC -> Nat]
    BY DEF PoCType, ZeroPoC
  <2> QED BY <2>1 DEF FpgaInv, RegistersOK, FpgaTypeOK
<1> QED BY <1>1, FpgaInvariant, PTL

(* For every modeline and burst, the pixels in the video FIFO are those drawn  *)
(* of the frame in progress, whichever read of the header began it and         *)
(* whatever frame, complete or not, the FIFO held before.                      *)
THEOREM VramStaysAligned == BlitSpec => []VramAligned
<1>1. FpgaInv => VramAligned
  <2> SUFFICES ASSUME FpgaInv, used.starved = 0, state # "S_Idle", PoC.px_vram > 0,
                      PoC.px_ddr <= vga.pixels
               PROVE  vram.pixels = PoC.px_vram
    BY DEF VramAligned
  <2>1. /\ PoC.px_vram > 0 /\ PoC.px_vram <= vga.pixels => vram.pixels = PoC.px_vram
        /\ state \notin {"S_Blit_Copy_Raw", "S_Blit_End_Raw"} => PoC.px_vram < vga.pixels
    BY DEF FpgaInv, AlignedOK
  <2>2. /\ PoC.px_vram \in Nat /\ PoC.px_ddr \in Nat /\ vga.pixels \in Nat
        /\ state \in Fetching => PoC.px_vram <= PoC.px_ddr
    BY DEF FpgaInv, RegistersOK, PoCType, VgaType
  <2>3. CASE state \in Fetching
    BY <2>1, <2>2, <2>3
  <2>4. CASE state \notin Fetching
    BY <2>1, <2>2, <2>4 DEF Fetching
  <2> QED BY <2>3, <2>4
<1> QED BY <1>1, FpgaInvariant, PTL

(* Whichever writes of the header's bytes its reads fall between, and whether  *)
(* the core polls from the first byte or only at the end, no pixel of the      *)
(* server's frame is drawn before its bytes have come.                         *)
THEOREM DrawsOnlyWhatCame == BlitSpec => DrawsWhatCame
<1>1. FpgaInv /\ [BlitNext]_fpgaVars /\ Draws /\ Current
        => PoC'.px_vram * PixelBytes <= hps.bytes
  <2> SUFFICES ASSUME FpgaInv, [BlitNext]_fpgaVars, Draws, Current
               PROVE  PoC'.px_vram * PixelBytes <= hps.bytes
    OBVIOUS
  <2>1. CopyRaw
    BY OnlyCopyDraws
  <2>2. /\ RegistersOK /\ DrawnOK /\ HpsOK /\ state = "S_Blit_Copy_Raw"
    BY <2>1 DEF FpgaInv, CopyRaw
  <2>3. PoC'.px_vram \in Nat /\ PoC'.px_vram <= PoC.px_ddr /\ PoC.px_ddr \in Nat
    <3>1. PoC \in PoCType
      BY <2>2 DEF RegistersOK
    <3> QED BY <2>1, <2>2, <3>1, CopyRawFacts DEF PoCType
  <2>4. Receiving /\ PoC.frame_ddr = hps.told
    BY DEF Current, Receiving
  <2>5. PoC.px_ddr <= PixelsCome
    BY <2>2, <2>4 DEF DrawnOK, Drawing, Fetching
  <2>6. hps.bytes \in Nat /\ PixelBytes \in Nat
    BY <2>2, HpsNumbers, Constants DEF HpsOK
  <2>7. PixelsCome \in Nat /\ PixelsCome * PixelBytes <= hps.bytes
    BY <2>6, WholePixels DEF PixelsCome
  <2>8. PixelBytes * PoC'.px_vram <= PixelBytes * PixelsCome
    <3>1. PoC'.px_vram <= PixelsCome
      BY <2>3, <2>5, <2>7
    <3> QED BY <2>3, <2>6, <2>7, <3>1, MulMono
  <2> QED BY <2>3, <2>6, <2>7, <2>8
<1> QED BY <1>1, FpgaInvariant, PTL DEF BlitSpec, DrawsWhatCame

(* As long as the raster finds pixels, the modeline in the video module is     *)
(* that of the frame drawn, however long the SWITCHRES before it waits for the *)
(* raster.                                                                     *)
THEOREM DrawnInOwnModeline == BlitSpec => OwnModeline
<1>1. FpgaInv /\ [BlitNext]_fpgaVars /\ Draws /\ Current /\ used.starved = 0
        => vga.pixels * PixelBytes = hps.len
  <2> SUFFICES ASSUME FpgaInv, [BlitNext]_fpgaVars, Draws, Current, used.starved = 0
               PROVE  vga.pixels * PixelBytes = hps.len
    OBVIOUS
  <2>1. CopyRaw
    BY OnlyCopyDraws
  <2>2. /\ RegistersOK /\ DrawnOK /\ HpsOK /\ ModelineOK /\ state = "S_Blit_Copy_Raw"
    BY <2>1 DEF FpgaInv, CopyRaw
  <2>3. Receiving /\ PoC.frame_ddr = hps.told
    BY DEF Current, Receiving
  <2>4. /\ hps.bytes \in Nat /\ hps.len \in Nat /\ hps.told \in Nat /\ hps.mode \in Nat
        /\ ~hps.waits
    BY <2>2, <2>3, HpsNumbers, ReceivingSession DEF HpsOK
  <2>5. hps.len > 0
    <3>1. PoC'.px_vram \in Nat /\ PoC'.px_vram <= PoC.px_ddr /\ PoC.px_ddr \in Nat
          /\ PoC'.px_vram > 0
      <4>1. PoC \in PoCType
        BY <2>2 DEF RegistersOK
      <4> QED BY <2>1, <2>2, <4>1, CopyRawFacts DEF PoCType, Draws
    <3>2. PoC.px_ddr <= PixelsCome
      BY <2>2, <2>3 DEF DrawnOK, Drawing, Fetching
    <3>3. /\ PixelsCome \in Nat /\ PixelsCome * PixelBytes <= hps.bytes
          /\ PixelBytes \in Nat /\ PixelBytes > 0
      BY <2>4, WholePixels, Constants DEF PixelsCome
    <3>4. PixelsCome > 0
      BY <3>1, <3>2, <3>3
    <3>5. PixelBytes * 1 <= PixelBytes * PixelsCome
      BY <3>3, <3>4, MulMono
    <3>6. hps.bytes > 0
      BY <2>4, <3>3, <3>5
    <3>7. hps.bytes <= hps.len
      BY <2>2, <2>3, <2>4 DEF HpsOK, Receiving
    <3> QED BY <2>4, <3>6, <3>7
  <2>6. ~Pending(SpiSwitchres)
    BY <2>2, <2>3, <2>4 DEF ModelineOK, Receiving
  <2>7. ~latch.switchres
    <3> SUFFICES ASSUME latch.switchres PROVE FALSE
      OBVIOUS
    <3>1. latch.frame = hps.mode
      BY <2>2, <2>4, <2>6 DEF ModelineOK
    <3>2. PoC.frame_ddr <= latch.frame
      BY <2>2, <2>4 DEF DrawnOK, Drawing, Fetching
    <3> QED BY <2>3, <2>4, <3>1, <3>2 DEF Receiving
  <2> QED BY <2>2, <2>4, <2>5, <2>6, <2>7 DEF ModelineOK
<1> QED BY <1>1, FpgaInvariant, PTL DEF BlitSpec, OwnModeline

=============================================================================
