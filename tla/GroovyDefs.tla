------------------------------ MODULE GroovyDefs ------------------------------
(***************************************************************************)
(* Sizes, memory layout and datagrams shared by the modules of the HPS     *)
(* server (hps_linux/src/support/groovy/groovy.cpp).  Every number is the  *)
(* number of the source: only counts of things are bounded by the models.  *)
(***************************************************************************)
EXTENDS Integers

(* uint8_t and uint16_t *)
Uint8  == {n \in Nat : n <= 255}
Uint16 == {n \in Nat : n <= 65535}

(* DDR layout, in bytes, as seen by the HPS. *)
HeaderOffset    == 248                     \* HEADER_LEN - CHUNK
FrameRegionSize == 720 * 576 * 4
AudioSize       == 8192 * 2 * 2
LZ4Size         == FrameRegionSize
FieldOffset     == 1658880                 \* 0x195000
AudioOffset     == 3317760                 \* 0x32a000
BufferSize      == 2 * FrameRegionSize + AudioSize + 4 * LZ4Size + 255

(* The four LZ4 zones A, B, C, D, indexed by PoC_field_lz4. *)
LZ4Offset(zone) == 3350528 + zone * 1658880

(* The lengths the loss detection compares with. *)
ChunkLen      == 1472                      \* UDP payload of a 1500 byte MTU
MaxCommandLen == 26                        \* CMD_SWITCHRES, the longest command
AbortBlit     == 65535                     \* numBlit that tells "give up"

(* Bytes of a pixel for an rgbMode: RGBA888, RGB565 or RGB888. *)
Bpp(rgb) == CASE rgb = 1 -> 4 [] rgb = 2 -> 2 [] OTHER -> 3

-----------------------------------------------------------------------------
(* A datagram.  What it means depends on the state of the server: outside a  *)
(* reception it is a command (cmd is what its first byte selects and the     *)
(* other fields are its arguments), inside a reception it is len bytes of    *)
(* payload and nothing else is looked at.                                    *)

Commands == {"CLOSE", "INIT", "SWITCHRES", "AUDIO", "GET_STATUS",
             "BLIT_VSYNC", "BLIT_FIELD_VSYNC", "GET_VERSION"}

PacketType ==
  [cmd         : Commands \union {"unknown"},
   len         : Nat \ {0},
   frame       : Nat,          \* BLIT*: frame number
   field       : Uint8,     \* BLIT_FIELD_VSYNC
   size        : Nat,          \* BLIT*: compressed bytes; AUDIO: sample bytes
   delta       : Uint8,     \* BLIT_FIELD_VSYNC: duplicate (raw) or delta (LZ4)
   compression : Uint8,     \* INIT
   channels    : Uint8,     \* INIT
   rgb         : Uint8,     \* INIT
   px          : Nat,          \* SWITCHRES: hactive * vactive
   timing      : BOOLEAN,      \* SWITCHRES: clock, porches and 720x576 limits hold
   interlace   : Uint8]     \* SWITCHRES

(* groovy_command_length_valid *)
LengthsOf(cmd) ==
  CASE cmd \in {"GET_VERSION", "CLOSE", "GET_STATUS"} -> {1}
    [] cmd = "INIT"             -> {4, 5}
    [] cmd = "SWITCHRES"        -> {26}
    [] cmd = "AUDIO"            -> {3}
    [] cmd = "BLIT_VSYNC"       -> {7, 11}
    [] cmd = "BLIT_FIELD_VSYNC" -> {8, 9, 12, 13}
    [] OTHER                    -> {}
=============================================================================
