------------------------------ MODULE Lz4Decoder ------------------------------
(***************************************************************************)
(* The LZ4 decoder of the core (rtl/lz4.v, 64-bit mode) and the bursts     *)
(* that fill its input buffer (Groovy.sv, S_Blit_Prepare_Lz4 and           *)
(* S_Blit_Copy_Lz4).                                                       *)
(*                                                                         *)
(* A state of the decoder is an action: the clocks it runs in.  Fed here   *)
(* by bursts alone it always runs, and a word written in the same clock is *)
(* written before the step or after it.                                    *)
(*                                                                         *)
(* A register kept twice is kept once: the word and the byte of the next   *)
(* read are those of block_read_total, window_addr3 and window_addr13      *)
(* those of window_addr, MP3 and MP13 those of MP.                         *)
(***************************************************************************)
EXTENDS Integers, Sequences, SequencesExt

CONSTANTS
  WordBytes,   \* bytes of a word (8)
  Nibble,      \* values of half a byte (16)
  MinMatch,    \* length of the shortest match (4)
  BlocksSize,  \* words of the input buffer (128)
  WindowSize,  \* words of the window (8192)
  ChunkBytes,  \* payload of a datagram, whole words (1472)
  Frames       \* what is sent, each a sequence of [literals, offset, match]

ASSUME Lz4Assumption ==
  /\ {WordBytes, Nibble, MinMatch, BlocksSize, WindowSize, ChunkBytes} \subseteq Nat \ {0}
  /\ Nibble > 1 /\ ChunkBytes % WordBytes = 0

VARIABLES
  frame,    \* the frame in DDR: the bytes sent, the bytes they stand for
  told,     \* compressed bytes the core knows of (PoC_subframe_lz4_ddr_bytes)
  burst,    \* words the DDR port still returns: the next one and how many
  pins,     \* the inputs: run, stop, reset, compressed_bytes, and the word written
  blocks, block_write_total,
  reg,      \* the registers of the reading half
  window,
  out       \* history: the bytes of the longs that were valid

source   == <<frame, told, burst>>
input    == <<pins, blocks, block_write_total>>
decoder  == <<reg, window, out>>
lz4Vars  == <<source, input, decoder>>

Byte  == Nibble * Nibble
Ones  == Byte - 1
Empty == [i \in 1..WordBytes |-> 0]
NoLong == <<>>

-----------------------------------------------------------------------------
(* The frames: what LZ4_compress_generic makes of them, and what they mean.   *)

Length(n) ==
  IF n < Nibble - 1 THEN <<>>
  ELSE LET rest == n - (Nibble - 1)
       IN  [i \in 1..(rest \div Ones) |-> Ones] \o <<rest % Ones>>

Half(n) == IF n < Nibble - 1 THEN n ELSE Nibble - 1

(* A literal is a value of its own, told from every other and from a length;  *)
(* the shade tells those of two frames apart.                                 *)
Literals(f, n) == [i \in 1..n |-> Byte + f.shade + Len(f.plain) + i]

Copied(plain, offset, n) ==
  [i \in 1..n |-> plain[Len(plain) - offset + 1 + ((i - 1) % offset)]]

MatchLength(s) == IF s.match = 0 THEN 0 ELSE s.match - MinMatch

Encode(f, s) ==
  LET lits == Literals(f, s.literals)
      last == s.match = 0
      ml   == MatchLength(s)
      new  == f.plain \o lits
  IN  [shade |-> f.shade,
       coded |-> f.coded \o <<Nibble * Half(s.literals) + Half(ml)>>
                   \o Length(s.literals) \o lits
                   \o IF last THEN <<>>
                      ELSE <<s.offset % Byte, s.offset \div Byte>> \o Length(ml),
       plain |-> IF last THEN new ELSE new \o Copied(new, s.offset, s.match)]

Compress(sequences, shade) ==
  FoldLeft(Encode, [shade |-> shade, coded |-> <<>>, plain |-> <<>>], sequences)

(* What the encoder makes of any frame sent is a sequence of bytes: Length and *)
(* Compress are total on frames of natural lengths.                            *)
EncodesFrames == \A s \in Frames : Compress(s, 0).coded \in Seq(Int)

(* Where the literals, the offset and the next token are in the bytes of a     *)
(* frame, and where the match is in what they stand for.                      *)
Lits(s, at)     == at + 1 + Len(Length(s.literals))
Offs(s, at)     == Lits(s, at) + s.literals
After(s, at)    == Offs(s, at) + 2 + Len(Length(MatchLength(s)))
Copies(s, from) == from + s.literals

Holds(bytes, n, t) == \A i \in 1..Len(t) : bytes[n + i] = t[i]

(* The token and the literals of s.  The eight bytes from a last length byte   *)
(* on are no word whose value is one: see LengthWord.                         *)
IsBlock(f, s, at, from) ==
  /\ {at, from, s.literals, s.match} \subseteq Nat
  /\ at < Len(f.coded) /\ Offs(s, at) <= Len(f.coded)
  /\ Copies(s, from) + s.match <= Len(f.plain)
  /\ f.coded[at + 1] = Nibble * Half(s.literals) + Half(MatchLength(s))
  /\ Holds(f.coded, at + 1, Length(s.literals))
  /\ \A i \in 1..s.literals : f.coded[Lits(s, at) + i] = f.plain[from + i]
  /\ s.literals >= Nibble - 1 /\ f.coded[Lits(s, at)] = 1 =>
       \E i \in 1..WordBytes - 1 :
         Lits(s, at) + i <= Len(f.coded) => f.coded[Lits(s, at) + i] # 0

(* Its match, and what that repeats, which is in the window. *)
IsMatch(f, s, at, from) ==
  /\ s.match >= MinMatch /\ After(s, at) < Len(f.coded)
  /\ s.offset \in 1..Copies(s, from) /\ s.offset <= WordBytes * WindowSize
  /\ f.coded[Offs(s, at) + 1] = s.offset % Byte /\ f.coded[Offs(s, at) + 2] = s.offset \div Byte
  /\ Holds(f.coded, Offs(s, at) + 2, Length(MatchLength(s)))
  /\ \A i \in 1..s.match :
       f.plain[Copies(s, from) + i] = f.plain[Copies(s, from) - s.offset + 1 + ((i - 1) % s.offset)]

IsLast(f, s, at, from) ==
  s.match = 0 /\ Offs(s, at) = Len(f.coded) /\ Copies(s, from) = Len(f.plain)

CodedTo(seq, shade, k) == Len(Compress(SubSeq(seq, 1, k - 1), shade).coded)
PlainTo(seq, shade, k) == Len(Compress(SubSeq(seq, 1, k - 1), shade).plain)

(* A frame of LZ4: its sequences one after the other, the last without match. *)
InBlocks(f, seq, shade) ==
  /\ f.plain \in Seq(Int) /\ Len(seq) \in Nat \ {0}
  /\ CodedTo(seq, shade, 1) = 0 /\ PlainTo(seq, shade, 1) = 0
  /\ \A k \in 1..Len(seq) :
       LET s    == seq[k]
           at   == CodedTo(seq, shade, k)
           from == PlainTo(seq, shade, k)
       IN  /\ IsBlock(f, s, at, from)
           /\ IF k = Len(seq) THEN IsLast(f, s, at, from)
              ELSE /\ IsMatch(f, s, at, from) /\ CodedTo(seq, shade, k + 1) = After(s, at)
                   /\ PlainTo(seq, shade, k + 1) = Copies(s, from) + s.match

(* Compress makes frames of LZ4. *)
EncodesBlocks == \A seq \in Frames : InBlocks(Compress(seq, 0), seq, 0)

Size == Len(frame.coded)

(* Past the end of a frame DDR holds what an earlier one left. *)
Word(n) == [i \in 1..WordBytes |-> IF WordBytes * n + i <= Size
                                   THEN frame.coded[WordBytes * n + i] ELSE Ones]

PowerOn ==
  [state |-> "S_Idle", ML |-> 0, LL |-> 0, MP |-> 0, offset |-> 0, addr |-> 0,
   bytes |-> 0, total |-> 0, valid |-> FALSE, done |-> FALSE, error |-> FALSE,
   LL_W |-> 0, data |-> 0, data_64 |-> Empty, window_data |-> Empty, long |-> Empty,
   paused |-> FALSE]

(* A reset clears all but these. *)
Cleared(r) ==
  [PowerOn EXCEPT !.LL_W = r.LL_W, !.data = r.data, !.data_64 = r.data_64,
                  !.window_data = r.window_data, !.long = r.long]

DecoderInit ==
  /\ blocks = [a \in 0..BlocksSize - 1 |-> Empty] /\ block_write_total = 0
  /\ reg = PowerOn
  /\ window = [a \in 0..WindowSize - 1 |-> Empty]
  /\ out = <<>>

-----------------------------------------------------------------------------
(* The input buffer *)

Ready     == block_write_total > reg.total
Ready64   == block_write_total > reg.total + (WordBytes - 1)
Readed    == reg.total >= pins.compressed_bytes
Index     == reg.total % WordBytes
ReadAddr  == (reg.total \div WordBytes) % BlocksSize
WriteAddr == (block_write_total \div WordBytes) % BlocksSize

(* lz4_write_ready; past the end more is read than was written. *)
WriteReady == block_write_total >= reg.total
              /\ block_write_total - reg.total < BlocksSize * WordBytes

(* The writing half.  The word a reset writes is counted from before it. *)
WriteLong(word) ==
  IF word # NoLong /\ WriteReady
  THEN /\ blocks' = [blocks EXCEPT ![WriteAddr] = word]
       /\ block_write_total' = block_write_total + WordBytes
  ELSE /\ UNCHANGED blocks
       /\ block_write_total' = IF pins.reset THEN 0 ELSE block_write_total

-----------------------------------------------------------------------------
(* The registers: Held, with what a state assigns after what lz4_reset did in *)
(* the same block.                                                            *)

Before == IF pins.reset THEN Cleared(reg) ELSE reg

Held == [Before EXCEPT !.paused = FALSE, !.valid = FALSE]

NextWord(r) ==
  [r EXCEPT !.total   = reg.total + 1,
            !.data    = blocks[ReadAddr][Index + 1],
            !.data_64 = IF Ready64 /\ Index = 0 THEN blocks[ReadAddr] ELSE Empty]

NextLong(r) ==
  [r EXCEPT !.total = reg.total + WordBytes, !.data_64 = blocks[ReadAddr]]

FetchLong(r) == [r EXCEPT !.total = reg.total + (WordBytes - 1)]

(* data_64 == {64'b1} is the number one, not a word of ones. *)
LengthWord == reg.data_64 = [Empty EXCEPT ![1] = 1]

Addr3  == reg.addr % WordBytes
Addr13 == (reg.addr \div WordBytes) % WindowSize

Kept == IF pins.reset THEN <<>> ELSE out

NoOutput == window' = window /\ out' = Kept

Output(word) ==
  /\ window' = [window EXCEPT ![Addr13] = word]
  /\ out' = Kept \o word

Valid(r, word) ==
  [r EXCEPT !.valid = TRUE, !.long = word, !.bytes = reg.bytes + WordBytes]

(* write_word, with what else the state assigns *)
PutByte(b, r) ==
  LET word == [reg.window_data EXCEPT ![Addr3 + 1] = b]
      put  == [r EXCEPT !.window_data = word, !.addr = reg.addr + 1]
  IN  IF Addr3 = WordBytes - 1 THEN reg' = Valid(put, word) /\ Output(word)
                               ELSE reg' = put /\ NoOutput

(* write_long: a word goes out, its last Addr3 bytes are kept for the next. *)
PutLong(word, r) ==
  LET long == [i \in 1..WordBytes |-> IF i <= Addr3 THEN reg.window_data[i]
                                                    ELSE word[i - Addr3]]
      kept == [i \in 1..WordBytes |-> IF i <= Addr3 THEN word[WordBytes - Addr3 + i]
                                                    ELSE reg.window_data[i]]
      put  == [r EXCEPT !.window_data = IF Addr3 = 0 THEN word ELSE kept,
                        !.addr = reg.addr + WordBytes]
  IN  reg' = Valid(put, long) /\ Output(long)

-----------------------------------------------------------------------------
(* The states of the decoder *)

In(s) == reg.state = s

Idle ==
  /\ In("S_Idle") /\ Ready
  /\ reg' = NextWord([Held EXCEPT !.state = "S_Read_Token"]) /\ NoOutput

ReadToken ==
  /\ In("S_Read_Token") /\ Ready
  /\ LET ll == reg.data \div Nibble
     IN  reg' = NextWord([Held EXCEPT
                  !.ML = reg.data % Nibble, !.LL = ll, !.LL_W = 0,
                  !.state = IF ll = Nibble - 1 THEN "S_Read_Literals_Length"
                                               ELSE "S_Read_Literals"])
  /\ NoOutput

(* A byte that is not Ones is the last, whatever the shortcut decided: a word *)
(* that is one starts with no Ones, so S_Read_Literals_Length_64 is dead code. *)
ReadLiteralsLength ==
  /\ In("S_Read_Literals_Length") /\ Ready
  /\ LET length(n) == [Held EXCEPT
                         !.LL = reg.LL + n,
                         !.state = IF reg.data # Ones THEN "S_Read_Literals" ELSE @]
     IN  reg' = IF LengthWord THEN FetchLong(length(WordBytes * Ones))
                              ELSE NextWord(length(reg.data))
  /\ NoOutput

(* No more literals: the byte read ahead is the first of the offset. *)
LiteralsDone ==
  /\ In("S_Read_Literals") /\ (Ready \/ Readed) /\ reg.LL = 0
  /\ reg' = NextWord([Held EXCEPT
               !.state  = "S_Read_Offset",
               !.offset = (IF Readed THEN 0 ELSE reg.data) + Byte * (@ \div Byte)])
  /\ NoOutput

LiteralsByWord ==
  Ready64 /\ reg.LL > WordBytes /\ Index = 0 /\ reg.LL_W >= Addr3

ReadLiterals ==
  /\ In("S_Read_Literals") /\ (Ready \/ Readed) /\ reg.LL # 0
  /\ LET put == [Held EXCEPT !.LL = reg.LL - 1, !.LL_W = reg.LL_W + 1]
     IN  PutByte(reg.data,
           IF LiteralsByWord THEN NextLong([put EXCEPT !.state = "S_Read_Literals_64"])
                             ELSE NextWord(put))

ReadLiterals64 ==
  /\ In("S_Read_Literals_64") /\ (Ready \/ Readed)
  /\ LET put == [Held EXCEPT !.LL = reg.LL - WordBytes, !.LL_W = reg.LL_W + WordBytes]
     IN  PutLong(reg.data_64,
           IF Ready64 /\ reg.LL >= 2 * WordBytes
           THEN NextLong(put) ELSE NextWord([put EXCEPT !.state = "S_Read_Literals"]))

ReadOffset ==
  /\ In("S_Read_Offset")
  /\ reg' = [Held EXCEPT
               !.state  = "S_Read_Match_Offset",
               !.offset = (@ % Byte) + IF Readed THEN 0 ELSE Byte * reg.data]
  /\ NoOutput

LastBlock == (reg.offset = 0 /\ reg.ML = 0) \/ Readed

CopyFrom(length) ==
  reg' = [Held EXCEPT !.ML = length + MinMatch, !.MP = reg.addr - reg.offset,
                      !.state = "S_Copy_Matches"]

ReadMatchOffset ==
  /\ In("S_Read_Match_Offset")
  /\ \/ LastBlock /\ reg' = [Held EXCEPT !.state = "S_Done"]
     \/ ~LastBlock /\ reg.ML < Nibble - 1 /\ CopyFrom(reg.ML)
     \/ /\ ~LastBlock /\ reg.ML >= Nibble - 1 /\ Ready
        /\ reg' = NextWord([Held EXCEPT !.state = "S_Read_Match_Length"])
  /\ NoOutput

(* A byte of Ones: more match length; its shortcut is dead code as well. *)
ReadMatchLength ==
  /\ In("S_Read_Match_Length")
  /\ \/ reg.data < Ones /\ CopyFrom(reg.ML + reg.data)
     \/ /\ reg.data >= Ones /\ Ready
        /\ reg' = NextWord([Held EXCEPT !.ML = reg.ML + reg.data])
  /\ NoOutput

MP3  == reg.MP % WordBytes
MP13 == (reg.MP \div WordBytes) % WindowSize

(* Wrong: the word may be the one being written. *)
MatchByWord_Near == reg.ML > WordBytes /\ MP3 = WordBytes - 1 /\ Addr13 >= MP13 + 1

(* The next WordBytes of the match are one whole word of the window. *)
MatchByWord == reg.ML > WordBytes /\ MP3 = WordBytes - 1 /\ Addr13 > MP13 + 1

(* The match repeats the word just completed, or the end of it. *)
MatchByLastWord ==
  reg.ML > WordBytes /\ Addr3 = WordBytes - 1 /\ reg.offset <= WordBytes

CopyMatches ==
  /\ In("S_Copy_Matches")
  /\ PutByte(IF Addr3 >= reg.offset THEN reg.window_data[MP3 + 1]
                                    ELSE window[MP13][MP3 + 1],
             [Held EXCEPT
               !.ML = reg.ML - 1, !.MP = reg.MP + 1,
               !.state = IF MatchByWord THEN "S_Copy_Matches_64"
                         ELSE IF MatchByLastWord THEN "S_Copy_Matches_64_8"
                         ELSE IF reg.ML = 1 THEN "S_Idle" ELSE @])

CopiedLong ==
  [Held EXCEPT
    !.ML = reg.ML - WordBytes, !.MP = reg.MP + WordBytes,
    !.state = IF reg.ML = WordBytes THEN "S_Idle"
              ELSE IF reg.ML < 2 * WordBytes THEN "S_Copy_Matches" ELSE @]

CopyMatches64 == In("S_Copy_Matches_64") /\ PutLong(window[MP13], CopiedLong)

(* The cases of offset: its last bytes over and over.  There is none for 0,    *)
(* which no frame of the encoder has.                                          *)
CopyMatches64_8 ==
  /\ In("S_Copy_Matches_64_8")
  /\ \/ /\ reg.offset # 0
        /\ PutLong([i \in 1..WordBytes |->
                      reg.window_data[WordBytes - reg.offset + 1 + ((i - 1) % reg.offset)]],
                   CopiedLong)
     \/ /\ reg.offset = 0
        /\ reg' = Valid([CopiedLong EXCEPT !.addr = reg.addr + WordBytes], reg.long)
        /\ window' = window /\ out' = Kept \o reg.long

Finished ==
  [Held EXCEPT !.done  = TRUE,
               !.error = ~(reg.offset = 0 /\ reg.ML = 0 /\ reg.LL = 0 /\ Readed)]

(* Wrong: the word begun is not flushed. *)
Done_NoFlush == In("S_Done") /\ reg' = Finished /\ NoOutput

(* The word begun goes out as it is, and counts for the bytes it has. *)
Done ==
  /\ In("S_Done")
  /\ \/ /\ Addr3 # 0
        /\ reg' = [Held EXCEPT !.state = "S_Done_64", !.valid = TRUE,
                                !.long = reg.window_data, !.bytes = reg.bytes + Addr3]
        /\ window' = window /\ out' = Kept \o reg.window_data
     \/ Addr3 = 0 /\ reg' = Finished /\ NoOutput

Done64 == In("S_Done_64") /\ reg' = Finished /\ NoOutput

Decode ==
  \/ Idle \/ ReadToken \/ ReadLiteralsLength
  \/ LiteralsDone \/ ReadLiterals \/ ReadLiterals64
  \/ ReadOffset \/ ReadMatchOffset \/ ReadMatchLength
  \/ CopyMatches \/ CopyMatches64 \/ CopyMatches64_8 \/ Done \/ Done64

(* lz4_paused: the state wants a byte that is not there. *)
Pause ==
  /\ ~Ready
  /\ \/ reg.state \in {"S_Idle", "S_Read_Token", "S_Read_Literals_Length"}
     \/ reg.state \in {"S_Read_Literals", "S_Read_Literals_64"} /\ ~Readed
     \/ In("S_Read_Match_Offset") /\ ~LastBlock /\ reg.ML >= Nibble - 1
     \/ In("S_Read_Match_Length") /\ reg.data >= Ones
  /\ reg' = [Held EXCEPT !.paused = TRUE] /\ NoOutput

-----------------------------------------------------------------------------
(* The decoder alone, fed as S_Blit_Prepare_Lz4 and S_Blit_Copy_Lz4 feed it.  *)

Init ==
  /\ \E sequences \in Frames : frame = Compress(sequences, 0)
  /\ told = 0 /\ burst = [next |-> 0, left |-> 0]
  /\ pins = [run |-> TRUE, stop |-> FALSE, reset |-> FALSE,
             compressed_bytes |-> Size, word |-> NoLong]
  /\ DecoderInit

(* The server has received another datagram of the frame. *)
Receive ==
  /\ told < Size
  /\ told' = IF told + ChunkBytes < Size THEN told + ChunkBytes ELSE Size
  /\ UNCHANGED <<frame, burst, input, decoder>>

(* Wrong: the rest of the last word is not asked for. *)
BurstWords_NoTail ==
  LET left == told - block_write_total
  IN  IF left > BlocksSize * WordBytes - 1 THEN BlocksSize ELSE left \div WordBytes

(* The length of a burst; the last one of a frame takes the rest of its word. *)
BurstWords ==
  LET left == told - block_write_total
  IN  IF left > BlocksSize * WordBytes - 1 THEN BlocksSize
      ELSE IF told = Size THEN left \div WordBytes + 1 ELSE left \div WordBytes

(* S_Blit_Prepare_Lz4 has words to ask for. *)
MoreInput ==
  /\ block_write_total < told
  /\ told = Size \/ (told - block_write_total) \div WordBytes > 0

(* Wrong: a burst as soon as lz4_write_ready. *)
PrepareBurst_Early ==
  /\ burst.left = 0 /\ WriteReady /\ MoreInput
  /\ burst' = [next |-> block_write_total \div WordBytes, left |-> BurstWords]
  /\ UNCHANGED <<frame, told, input, decoder>>

(* It is reached when the decoder paused for want of input, or before it read *)
(* any.                                                                       *)
PrepareBurst ==
  /\ burst.left = 0 /\ ~Ready /\ WriteReady /\ MoreInput
  /\ burst' = [next |-> block_write_total \div WordBytes, left |-> BurstWords]
  /\ UNCHANGED <<frame, told, input, decoder>>

(* S_Blit_Copy_Lz4, of a word that came from DDR. *)
Copy ==
  /\ burst.left > 0
  /\ WriteLong(Word(burst.next))
  /\ burst' = [next |-> burst.next + 1, left |-> burst.left - 1]
  /\ UNCHANGED <<frame, told, pins, decoder>>

Feed == PrepareBurst \/ Copy

Run == Decode /\ UNCHANGED <<source, input>>

Next == Receive \/ Feed \/ Run

Lz4Spec == Init /\ [][Next]_lz4Vars

(* The clock of the core never stops, and the DDR port answers; that all of a *)
(* frame arrives is the network's doing.                                      *)
FairLz4Spec == Lz4Spec /\ WF_lz4Vars(Receive) /\ WF_lz4Vars(Feed) /\ WF_lz4Vars(Run)

(* A writer that asks lz4_write_ready and nothing else. *)
WriteWhenReady ==
  /\ WriteReady /\ block_write_total < told
  /\ WriteLong(Word(block_write_total \div WordBytes))
  /\ UNCHANGED <<source, pins, decoder>>

ReadySpec == Init /\ [][Receive \/ WriteWhenReady \/ Run]_lz4Vars

-----------------------------------------------------------------------------
(* What the decoder promises *)

Emitted == SubSeq(out, 1, reg.bytes)

(* At every clock what came out is the beginning of the frame the encoder was *)
(* given, whatever the two fast paths, the wraps of the window and of the     *)
(* input buffer and the pauses between bursts did (lz4.v:181-536).            *)
DecodesPrefix == IsPrefix(Emitted, frame.plain)

(* The decoder says it is done only when the whole frame came out, and finds  *)
(* no error in a frame the encoder made (lz4.v:344-361).                      *)
DoneIsWhole == reg.done => Emitted = frame.plain /\ ~reg.error

(* No word of the input buffer is written over before its last byte was read: *)
(* what lz4_write_ready stands for, "fifo is free" (lz4.v:33, 115, 548).      *)
UnreadIntact ==
  \A n \in reg.total .. block_write_total - 1 :
    blocks[(n \div WordBytes) % BlocksSize] = Word(n \div WordBytes)

(* A frame that arrives is decoded to its end: the decoder never waits for    *)
(* input that no burst brings, and no burst for room (lz4.v:187-316,          *)
(* Groovy.sv:1354-1361).                                                      *)
EveryFrameDecoded == <>reg.done
=============================================================================
