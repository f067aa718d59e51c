-------------------------- MODULE Lz4Decoder_proofs ---------------------------
(***************************************************************************)
(* Proofs about the decoder, for every size of word, ring, window and      *)
(* datagram and any frames of LZ4.                                         *)
(*                                                                         *)
(* That the ring of words between the bursts and the decoder is never      *)
(* written where it has not been read (Unread) is from the invariant       *)
(* Lz4Inv.  That what comes out is the frame (DecodedPrefix, DecodedWhole) *)
(* is from Decoded, which says by the decoder's state where it is in a     *)
(* sequence of the frame (Where) and that all the bytes before that place  *)
(* are out, in the window and in the word begun (OutAt).  There is a lemma *)
(* for a clock of each state: IdleSteps, TokenSteps and so on, over lemmas *)
(* about the bytes read (Fed) and put (BytePuts, LongPuts).  They ask of   *)
(* what feeds the decoder only that the words not read yet are the         *)
(* frame's, so that Lz4Blit_proofs uses them as well.                      *)
(*                                                                         *)
(* EXCEPT gives a record no field it did not have, so that the invariants  *)
(* say of each record which fields of it the argument reads.               *)
(***************************************************************************)
EXTENDS Lz4Decoder, TLAPS, SequenceTheorems

-----------------------------------------------------------------------------
(* The inductive invariant of the input.                                      *)

(* The decoder's count of the bytes it has read. *)
RegOK == "total" \in DOMAIN reg /\ reg.total \in Nat

(* Every word a burst still brings has a place in the input buffer, and goes   *)
(* where the last one ended; once the decoder has read past what was written,  *)
(* nothing is written any more.                                                *)
BurstFits ==
  burst.left > 0 =>
    /\ burst.next \in Nat /\ block_write_total = WordBytes * burst.next
    /\ block_write_total + WordBytes * burst.left <= reg.total + WordBytes * BlocksSize

(* The inductive invariant of the decoder fed by bursts. *)
Lz4Inv ==
  /\ ~pins.reset /\ RegOK
  /\ Size \in Nat /\ told \in Nat /\ burst.left \in Nat
  /\ DOMAIN blocks = 0..BlocksSize - 1
  /\ \E n \in Nat : block_write_total = WordBytes * n
  /\ block_write_total < reg.total \/ (BurstFits /\ UnreadIntact)

-----------------------------------------------------------------------------
(* Arithmetic of words and of places in the ring.                             *)

LEMMA DivDef ==
  ASSUME NEW n \in Nat, NEW w \in Nat, w > 0
  PROVE  /\ n \div w \in Nat /\ n % w \in 0..w-1
         /\ n = w * (n \div w) + (n % w)
OBVIOUS

LEMMA MulMono ==
  ASSUME NEW w \in Nat, w > 0, NEW a \in Int, NEW b \in Int, a < b
  PROVE  w * a + w <= w * b
<1>1. w * (b - a) >= w
  <2>1. b - a - 1 \in Nat
    OBVIOUS
  <2>2. w * (b - a) = w * (b - a - 1) + w
    OBVIOUS
  <2>3. \A x \in Nat : w * x >= 0
    OBVIOUS
  <2> QED BY <2>1, <2>2, <2>3
<1> QED BY <1>1

LEMMA DivAbove ==
  ASSUME NEW n \in Nat, NEW w \in Nat, w > 0, NEW q \in Int, w * q <= n
  PROVE  q <= n \div w
<1>1. CASE n \div w < q
  BY <1>1, DivDef, MulMono, w * (n \div w) + w <= w * q
<1> QED BY <1>1, DivDef

LEMMA DivBelow ==
  ASSUME NEW n \in Nat, NEW w \in Nat, w > 0, NEW q \in Int, n < w * q
  PROVE  n \div w < q
<1>1. CASE q <= n \div w
  <2>1. w * q <= w * (n \div w)
     <3>1. CASE q = n \div w
       BY <3>1, DivDef
     <3>2. CASE q < n \div w
       <4>1. w * q + w <= w * (n \div w)
         BY <3>2, DivDef, MulMono
       <4> QED BY <4>1, DivDef
     <3> QED BY <1>1, <3>1, <3>2, DivDef
  <2> QED BY <2>1, DivDef
<1> QED BY <1>1, DivDef

LEMMA ModDiffers ==
  ASSUME NEW a \in Nat, NEW b \in Nat, NEW B \in Nat, B > 0, a < b, b < a + B
  PROVE  a % B # b % B
<1>1. CASE a % B = b % B
  <2>1. b - a = B * (b \div B) - B * (a \div B)
    BY <1>1, DivDef
  <2>2. CASE a \div B < b \div B
    <3>1. B * (a \div B) + B <= B * (b \div B)
      BY <2>2, DivDef, MulMono
    <3> QED BY <3>1, <2>1, DivDef
  <2>3. CASE b \div B < a \div B
    <3>1. B * (b \div B) + B <= B * (a \div B)
      BY <2>3, DivDef, MulMono
    <3> QED BY <3>1, <2>1, DivDef
  <2>4. CASE b \div B = a \div B
    BY <2>1, <2>4
  <2> QED BY <2>2, <2>3, <2>4, DivDef
<1> QED BY <1>1

LEMMA Constants ==
  /\ WordBytes \in Nat /\ WordBytes > 0 /\ BlocksSize \in Nat /\ BlocksSize > 0
  /\ ChunkBytes \in Nat /\ ChunkBytes > 0 /\ ChunkBytes % WordBytes = 0
BY Lz4Assumption

-----------------------------------------------------------------------------
(* The decoder reads on and the bursts write: Lz4Inv.                         *)

(* The three reads, and a read of none: what they make of the count. *)
Counts(r, n) == "total" \in DOMAIN r /\ r.total = n

LEMMA CountsReads ==
  ASSUME NEW r, NEW n, Counts(r, n)
  PROVE  /\ Counts(NextWord(r), reg.total + 1)
         /\ Counts(NextLong(r), reg.total + WordBytes)
         /\ Counts(FetchLong(r), reg.total + (WordBytes - 1))
         /\ \A word : Counts(Valid(r, word), n)
BY DEF Counts, NextWord, NextLong, FetchLong, Valid

LEMMA CountsPut ==
  ASSUME NEW r, NEW n, Counts(r, n), NEW b, PutByte(b, r) \/ PutLong(b, r)
  PROVE  Counts(reg', n)
BY CountsReads DEF Counts, PutByte, PutLong, Valid

LEMMA HeldCounts ==
  ASSUME RegOK
  PROVE  /\ Counts(Held, IF pins.reset THEN 0 ELSE reg.total)
         /\ Counts(Before, IF pins.reset THEN 0 ELSE reg.total)
BY DEF Held, Before, Cleared, PowerOn, RegOK, Counts

(* No state of the decoder gives back what it has read. *)
LEMMA Reads ==
  ASSUME RegOK, Decode
  PROVE  /\ RegOK'
         /\ ~pins.reset => reg'.total >= reg.total /\ reg'.total <= reg.total + WordBytes
<1> DEFINE Counted == \/ Counts(reg', Held.total)
                      \/ Counts(reg', reg.total + 1)
                      \/ Counts(reg', reg.total + WordBytes)
                      \/ Counts(reg', reg.total + (WordBytes - 1))
<1> SUFFICES Counted
  BY HeldCounts, Constants DEF RegOK, Counts
<1> USE DEF RegOK
<1>1. Counts(Held, Held.total)
  BY HeldCounts DEF Counts
<1>2. CASE Idle
  <2>1. Counts([Held EXCEPT !.state = "S_Read_Token"], Held.total)
    BY <1>1 DEF Counts
  <2> QED
    BY <2>1, <1>2, CountsReads DEF Idle
<1>3. CASE ReadToken
  BY <1>1, <1>3 DEF ReadToken, NextWord, Counts
<1>4. CASE ReadLiteralsLength
  BY <1>1, <1>4 DEF ReadLiteralsLength, NextWord, FetchLong, Counts
<1>5. CASE LiteralsDone
  BY <1>1, <1>5 DEF LiteralsDone, NextWord, Counts
<1>6. CASE ReadLiterals
  <2> DEFINE put  == [Held EXCEPT !.LL = reg.LL - 1, !.LL_W = reg.LL_W + 1]
             read == IF LiteralsByWord
                     THEN NextLong([put EXCEPT !.state = "S_Read_Literals_64"])
                     ELSE NextWord(put)
  <2>1. Counts(put, Held.total) /\ Counts([put EXCEPT !.state = "S_Read_Literals_64"], Held.total)
    BY <1>1 DEF Counts
  <2>2. PutByte(reg.data, read)
    BY <1>6 DEF ReadLiterals
  <2> HIDE DEF put
  <2>3. Counts(read, reg.total + 1) \/ Counts(read, reg.total + WordBytes)
    BY <2>1, CountsReads
  <2> HIDE DEF read
  <2> QED
    BY <2>2, <2>3, CountsPut
<1>7. CASE ReadLiterals64
  <2> DEFINE put  == [Held EXCEPT !.LL = reg.LL - WordBytes, !.LL_W = reg.LL_W + WordBytes]
             read == IF Ready64 /\ reg.LL >= 2 * WordBytes
                     THEN NextLong(put) ELSE NextWord([put EXCEPT !.state = "S_Read_Literals"])
  <2>1. Counts(put, Held.total) /\ Counts([put EXCEPT !.state = "S_Read_Literals"], Held.total)
    BY <1>1 DEF Counts
  <2>2. PutLong(reg.data_64, read)
    BY <1>7 DEF ReadLiterals64
  <2> HIDE DEF put
  <2>3. Counts(read, reg.total + 1) \/ Counts(read, reg.total + WordBytes)
    BY <2>1, CountsReads
  <2> HIDE DEF read
  <2> QED
    BY <2>2, <2>3, CountsPut
<1>8. CASE ReadOffset
  BY <1>1, <1>8 DEF ReadOffset, Counts
<1>s. \A s : Counts([Held EXCEPT !.state = s], Held.total)
  BY <1>1 DEF Counts
<1>c. ASSUME NEW l, CopyFrom(l)
      PROVE  Counts(reg', Held.total)
  BY <1>1, <1>c DEF CopyFrom, Counts
<1>9. CASE ReadMatchOffset
  BY <1>s, <1>c, <1>9, CountsReads DEF ReadMatchOffset
<1>10. CASE ReadMatchLength
  <2>1. Counts([Held EXCEPT !.ML = reg.ML + reg.data], Held.total)
    BY <1>1 DEF Counts
  <2> QED
    BY <2>1, <1>c, <1>10, CountsReads DEF ReadMatchLength
<1>11. CASE CopyMatches
  <2>1. PICK s, m, p, b : PutByte(b, [Held EXCEPT !.ML = m, !.MP = p, !.state = s])
    BY <1>11 DEF CopyMatches
  <2>2. Counts([Held EXCEPT !.ML = m, !.MP = p, !.state = s], Held.total)
    BY <1>1 DEF Counts
  <2> QED
    BY <2>1, <2>2, CountsPut
<1>l. Counts(CopiedLong, Held.total)
  BY <1>1 DEF CopiedLong, Counts
<1>12. CASE CopyMatches64
  BY <1>l, <1>12, CountsPut DEF CopyMatches64
<1>13. CASE CopyMatches64_8
  <2>1. Counts([CopiedLong EXCEPT !.addr = reg.addr + WordBytes], Held.total)
    BY <1>l DEF Counts
  <2> QED
    BY <1>l, <1>13, <2>1, CountsPut, CountsReads DEF CopyMatches64_8
<1>14. CASE Done
  BY <1>1, <1>14 DEF Done, Finished, Counts
<1>15. CASE Done64
  BY <1>1, <1>15 DEF Done64, Finished, Counts
<1> QED
  BY <1>2, <1>3, <1>4, <1>5, <1>6, <1>7, <1>8, <1>9, <1>10, <1>11, <1>12, <1>13,
     <1>14, <1>15 DEF Decode

(* A burst is not longer than the input buffer. *)
LEMMA BurstBound ==
  ASSUME told \in Nat, block_write_total \in Nat, block_write_total < told
  PROVE  BurstWords \in Nat /\ BurstWords <= BlocksSize
<1> DEFINE left == told - block_write_total
<1>1. left \in Nat /\ left > 0
  OBVIOUS
<1>2. left \div WordBytes \in Nat
  BY <1>1, Constants, DivDef
<1>3. CASE left <= BlocksSize * WordBytes - 1
  <2>1. left < WordBytes * BlocksSize
    BY <1>3, <1>1, Constants
  <2>2. left \div WordBytes < BlocksSize
    BY <2>1, <1>1, Constants, DivBelow
  <2> QED
    BY <2>2, <1>2, <1>3, Constants DEF BurstWords
<1>4. CASE left > BlocksSize * WordBytes - 1
  BY <1>4, Constants DEF BurstWords
<1>5. BlocksSize * WordBytes \in Nat
  BY Constants
<1> QED
  BY <1>1, <1>3, <1>4, <1>5

(* A word goes into a place from which everything has been read.              *)
LEMMA WordKeeps ==
  ASSUME RegOK, DOMAIN blocks = 0..BlocksSize - 1, UnreadIntact, NEW k \in Nat,
         block_write_total = WordBytes * k, reg.total <= block_write_total,
         block_write_total + WordBytes <= reg.total + WordBytes * BlocksSize, WriteLong(Word(k))
  PROVE  /\ block_write_total' = block_write_total + WordBytes
         /\ DOMAIN blocks' = 0..BlocksSize - 1
         /\ \A n \in reg.total .. block_write_total' - 1 :
              blocks'[(n \div WordBytes) % BlocksSize] = Word(n \div WordBytes)
<1>0. /\ WordBytes \in Nat /\ WordBytes > 0 /\ BlocksSize \in Nat /\ BlocksSize > 0
      /\ k \in Nat /\ reg.total \in Nat
      /\ block_write_total = WordBytes * k /\ block_write_total \in Nat
      /\ block_write_total + WordBytes <= reg.total + WordBytes * BlocksSize
      /\ reg.total <= block_write_total
  BY Constants DEF RegOK
<1>2. WriteReady
  BY <1>0 DEF WriteReady
<1>3. Word(k) # NoLong
  <2>1. DOMAIN Word(k) = 1..WordBytes
    BY DEF Word
  <2>2. 1 \in 1..WordBytes
    BY <1>0
  <2>3. DOMAIN NoLong = {}
    BY DEF NoLong
  <2> QED
    BY <2>1, <2>2, <2>3
<1>4. /\ blocks' = [blocks EXCEPT ![WriteAddr] = Word(k)]
      /\ block_write_total' = block_write_total + WordBytes
  BY <1>2, <1>3 DEF WriteLong
<1>5. WriteAddr = k % BlocksSize
  <2>1. k <= block_write_total \div WordBytes
    BY <1>0, DivAbove
  <2>2. block_write_total < WordBytes * (k + 1)
    BY <1>0
  <2>3. block_write_total \div WordBytes < k + 1
    BY <2>2, <1>0, DivBelow
  <2>4. block_write_total \div WordBytes = k
    BY <2>1, <2>3, <1>0, DivDef
  <2> QED
    BY <2>4 DEF WriteAddr
<1>6. k % BlocksSize \in 0..BlocksSize - 1
  BY <1>0, DivDef
<1>7. ASSUME NEW n \in reg.total .. block_write_total' - 1
      PROVE  blocks'[(n \div WordBytes) % BlocksSize] = Word(n \div WordBytes)
  <2> DEFINE m == n \div WordBytes
  <2>1. n \in Nat /\ m \in Nat /\ n < WordBytes * (k + 1) /\ reg.total <= n
    BY <1>0, <1>4, <1>7, DivDef
  <2>2. m < k + 1
    BY <2>1, <1>0, DivBelow
  <2>3. CASE m = k
    BY <2>3, <1>4, <1>5, <1>6
  <2>4. CASE m < k
    <3>1. n < block_write_total
      <4>1. CASE WordBytes * k <= n
        BY <4>1, <2>1, <2>4, <1>0, DivAbove
      <4> QED
        BY <4>1, <2>1, <1>0
    <3>2. blocks[m % BlocksSize] = Word(m)
      BY <3>1, <2>1, <1>0 DEF UnreadIntact
    <3>3. WordBytes * (k + 1 - BlocksSize) <= n
      BY <1>0, <2>1
    <3>4. k + 1 - BlocksSize <= m
      BY <3>3, <2>1, <1>0, DivAbove
    <3>5. m % BlocksSize # k % BlocksSize
      <4>1. k < m + BlocksSize
        BY <3>4, <2>1, <1>0
      <4> HIDE DEF m
      <4> QED
        BY <4>1, <2>1, <2>4, <1>0, ModDiffers
    <3> QED
      BY <3>2, <3>5, <1>4, <1>5
  <2> QED
    BY <2>1, <2>2, <2>3, <2>4, <1>0
<1> QED
  BY <1>4, <1>7

(* A word of a burst does.                                                    *)
LEMMA CopyKeeps ==
  ASSUME Lz4Inv, burst.left > 0, WriteLong(Word(burst.next)), ~(block_write_total < reg.total)
  PROVE  /\ block_write_total' = block_write_total + WordBytes
         /\ DOMAIN blocks' = 0..BlocksSize - 1
         /\ \A n \in reg.total .. block_write_total' - 1 :
              blocks'[(n \div WordBytes) % BlocksSize] = Word(n \div WordBytes)
<1>0. /\ WordBytes \in Nat /\ WordBytes > 0 /\ BlocksSize \in Nat
      /\ burst.next \in Nat /\ reg.total \in Nat /\ burst.left \in Nat
      /\ block_write_total = WordBytes * burst.next
      /\ block_write_total + WordBytes * burst.left <= reg.total + WordBytes * BlocksSize
      /\ reg.total <= block_write_total
  BY Constants DEF Lz4Inv, BurstFits, RegOK
<1>1. WordBytes * 0 + WordBytes <= WordBytes * burst.left
  BY <1>0, MulMono
<1>2. block_write_total + WordBytes <= reg.total + WordBytes * BlocksSize
  BY <1>0, <1>1
<1> QED
  BY <1>0, <1>2, WordKeeps DEF Lz4Inv

LEMMA Lz4Initial ==
  ASSUME Init, EncodesFrames
  PROVE  Lz4Inv
<1>1. Size \in Nat
  <2>1. PICK sequences \in Frames : frame = Compress(sequences, 0)
    BY DEF Init
  <2>2. frame.coded \in Seq(Int)
    BY <2>1 DEF EncodesFrames
  <2> QED
    BY <2>2 DEF Size
<1>2. RegOK /\ reg.total = 0
  BY DEF Init, DecoderInit, PowerOn, RegOK
<1>3. /\ ~pins.reset /\ told = 0 /\ burst.left = 0 /\ block_write_total = 0
      /\ DOMAIN blocks = 0..BlocksSize - 1
  BY DEF Init, DecoderInit
<1>4. UnreadIntact
  BY <1>2, <1>3 DEF UnreadIntact
<1>5. \E n \in Nat : block_write_total = WordBytes * n
  BY <1>3, Constants, WordBytes * 0 = 0
<1> QED
  BY <1>1, <1>2, <1>3, <1>4, <1>5 DEF Lz4Inv, BurstFits

LEMMA Lz4Steps ==
  ASSUME Lz4Inv, [Next]_lz4Vars
  PROVE  Lz4Inv'
<1>0. /\ WordBytes \in Nat /\ WordBytes > 0 /\ BlocksSize \in Nat /\ BlocksSize > 0
      /\ reg.total \in Nat /\ block_write_total \in Nat
  BY Constants DEF Lz4Inv, RegOK
<1>1. CASE Receive
  <2>1. told' \in Nat
    BY <1>1, Constants DEF Receive, Lz4Inv
  <2>2. UNCHANGED <<frame, burst, pins, blocks, block_write_total, reg>>
    BY <1>1 DEF Receive, input, decoder
  <2>3. Size' = Size /\ UnreadIntact' = UnreadIntact /\ BurstFits' = BurstFits /\ RegOK' = RegOK
    BY <2>2 DEF Size, UnreadIntact, Word, BurstFits, RegOK
  <2> QED
    BY <2>1, <2>2, <2>3 DEF Lz4Inv
<1>2. CASE PrepareBurst
  <2>1. /\ UNCHANGED <<frame, told, pins, blocks, block_write_total, reg>>
        /\ burst' = [next |-> block_write_total \div WordBytes, left |-> BurstWords]
        /\ block_write_total = reg.total /\ block_write_total < told
    BY <1>2, <1>0 DEF PrepareBurst, input, decoder, Ready, WriteReady, MoreInput
  <2>2. Size' = Size /\ UnreadIntact' = UnreadIntact /\ RegOK' = RegOK
    BY <2>1 DEF Size, UnreadIntact, Word, RegOK
  <2>3. BurstWords \in Nat /\ BurstWords <= BlocksSize
    BY <2>1, <1>0, BurstBound DEF Lz4Inv
  <2>4. BurstFits'
    <3>1. PICK n \in Nat : block_write_total = WordBytes * n
      BY DEF Lz4Inv
    <3>2. n <= block_write_total \div WordBytes
      BY <3>1, <1>0, DivAbove
    <3>3. block_write_total < WordBytes * (n + 1)
      BY <3>1, <1>0
    <3>4. block_write_total \div WordBytes < n + 1
      BY <3>3, <1>0, DivBelow
    <3>5. block_write_total \div WordBytes = n
      BY <3>2, <3>4, <1>0, DivDef
    <3>6. WordBytes * BurstWords <= WordBytes * BlocksSize
      <4>1. CASE BurstWords < BlocksSize
        <5>1. WordBytes * BurstWords + WordBytes <= WordBytes * BlocksSize
          BY <4>1, <2>3, <1>0, MulMono
        <5> QED
          BY <5>1, <2>3, <1>0
      <4> QED
        BY <4>1, <2>3, <1>0
    <3>7. burst'.next = n /\ burst'.left = BurstWords
      BY <2>1, <3>5
    <3> QED
      BY <2>1, <2>3, <3>1, <3>6, <3>7, <1>0 DEF BurstFits
  <2>5. UnreadIntact
    BY <2>1, <1>0 DEF Lz4Inv
  <2> QED
    BY <2>1, <2>2, <2>3, <2>4, <2>5 DEF Lz4Inv
<1>3. CASE Copy
  <2>1. /\ UNCHANGED <<frame, told, pins, reg>> /\ burst.left > 0
        /\ burst' = [next |-> burst.next + 1, left |-> burst.left - 1]
        /\ WriteLong(Word(burst.next))
    BY <1>3 DEF Copy, decoder
  <2>2. Size' = Size /\ RegOK' = RegOK /\ burst'.left \in Nat
    BY <2>1 DEF Size, RegOK, Lz4Inv
  <2>3. CASE block_write_total < reg.total
    <3>1. UNCHANGED <<blocks, block_write_total>>
      BY <2>1, <2>3, <1>0 DEF WriteLong, WriteReady, Lz4Inv
    <3> QED
      BY <2>1, <2>2, <2>3, <3>1 DEF Lz4Inv
  <2>4. CASE ~(block_write_total < reg.total)
    <3>1. /\ block_write_total' = block_write_total + WordBytes
          /\ DOMAIN blocks' = 0..BlocksSize - 1
          /\ \A n \in reg.total .. block_write_total' - 1 :
               blocks'[(n \div WordBytes) % BlocksSize] = Word(n \div WordBytes)
      BY <2>1, <2>4, CopyKeeps
    <3>2. UnreadIntact'
      BY <3>1, <2>1 DEF UnreadIntact, Word, Size
    <3>3. /\ burst.next \in Nat /\ block_write_total = WordBytes * burst.next
          /\ block_write_total + WordBytes * burst.left <= reg.total + WordBytes * BlocksSize
          /\ burst.left \in Nat
      BY <2>1, <2>4 DEF Lz4Inv, BurstFits
    <3>4. block_write_total' = WordBytes * (burst.next + 1)
      BY <3>1, <3>3, <1>0
    <3>5. WordBytes * (burst.left - 1) = WordBytes * burst.left - WordBytes
      BY <3>3, <1>0
    <3>6. BurstFits'
      <4>1. burst'.next = burst.next + 1 /\ burst'.left = burst.left - 1
        BY <2>1
      <4>2. burst'.next \in Nat
        BY <4>1, <3>3
      <4>3. block_write_total' + WordBytes * burst'.left <= reg'.total + WordBytes * BlocksSize
        <5>2. WordBytes * burst.left \in Nat /\ WordBytes * BlocksSize \in Nat
          BY <3>3, <1>0
        <5>3. reg'.total = reg.total
          BY <2>1
        <5>4. block_write_total' + WordBytes * (burst.left - 1)
                = block_write_total + WordBytes * burst.left
          <6>1. block_write_total' = block_write_total + WordBytes
            BY <3>1
          <6>2. \A x \in Nat, y \in Nat, z \in Nat : (x + y) + (z - y) = x + z
            OBVIOUS
          <6> QED
            BY <3>5, <5>2, <6>1, <6>2, <1>0
        <5> QED
          BY <4>1, <5>3, <5>4, <3>3
      <4> QED
        BY <4>1, <4>2, <4>3, <3>4 DEF BurstFits
    <3>7. \E n \in Nat : block_write_total' = WordBytes * n
      BY <3>3, <3>4
    <3> QED
      BY <2>1, <2>2, <3>1, <3>2, <3>6, <3>7 DEF Lz4Inv
  <2> QED
    BY <2>3, <2>4
<1>4. CASE Run
  <2>1. /\ UNCHANGED <<frame, told, burst, pins, blocks, block_write_total>>
        /\ Decode
    BY <1>4 DEF Run, source, input
  <2>2. RegOK' /\ reg'.total \in Nat /\ reg'.total >= reg.total
    BY <2>1, Reads DEF Lz4Inv, RegOK
  <2>3. Size' = Size
    BY <2>1 DEF Size
  <2>4. CASE block_write_total < reg'.total
    BY <2>1, <2>2, <2>3, <2>4 DEF Lz4Inv
  <2>5. CASE ~(block_write_total < reg'.total)
    <3>1. BurstFits /\ UnreadIntact
      BY <2>2, <2>5, <1>0 DEF Lz4Inv
    <3>2. UnreadIntact'
      <4>1. \A n \in reg'.total .. block_write_total' - 1 : n \in reg.total .. block_write_total - 1
        BY <2>1, <2>2, <1>0
      <4>2. \A n : Word(n)' = Word(n)
        BY <2>1 DEF Word, Size
      <4> QED
        BY <3>1, <4>1, <4>2, <2>1 DEF UnreadIntact
    <3>3. BurstFits'
      BY <3>1, <2>1, <2>2, <1>0 DEF BurstFits, Lz4Inv
    <3> QED
      BY <3>2, <3>3, <2>1, <2>2, <2>3 DEF Lz4Inv
  <2> QED
    BY <2>4, <2>5
<1>5. CASE UNCHANGED lz4Vars
  BY <1>5 DEF lz4Vars, source, input, decoder, Lz4Inv, RegOK, Size, UnreadIntact, Word, BurstFits
<1> QED
  BY <1>1, <1>2, <1>3, <1>4, <1>5 DEF Next, Feed

LEMMA Lz4InvUnread ==
  ASSUME Lz4Inv
  PROVE  UnreadIntact
<1>1. CASE block_write_total < reg.total
  <2>1. reg.total .. block_write_total - 1 = {}
    BY <1>1, Constants DEF Lz4Inv, RegOK
  <2> QED
    BY <2>1 DEF UnreadIntact
<1> QED
  BY <1>1 DEF Lz4Inv

(* In every reachable state the words of the input buffer the decoder has not *)
(* read are those of the frame: no burst, of any length it asks for, at any   *)
(* datagram, overwrites one (lz4.v:33, 115, 548, Groovy.sv:1349-1386).        *)
(* For every size of word, ring and datagram and any set of encoded frames.   *)
THEOREM Unread ==
  ASSUME EncodesFrames
  PROVE  Lz4Spec => []UnreadIntact
<1>1. Init => Lz4Inv
  BY Lz4Initial
<1>2. Lz4Inv /\ [Next]_lz4Vars => Lz4Inv'
  BY Lz4Steps
<1>3. Lz4Inv => UnreadIntact
  BY Lz4InvUnread
<1> QED
  BY <1>1, <1>2, <1>3, PTL DEF Lz4Spec

-----------------------------------------------------------------------------
(* The decoder's output: OutAt.                                               *)

Fields == {"state", "ML", "LL", "MP", "offset", "addr", "bytes", "total", "valid", "done",
           "error", "LL_W", "data", "data_64", "window_data", "long", "paused"}

Full(r) == Fields \subseteq DOMAIN r

(* A record that differs from another in these fields at most. *)
Rest(r, q, F) == Full(r) /\ \A f \in Fields \ F : r[f] = q[f]

(* The word of the frame after its first n bytes. *)
Plain(n) == [i \in 1..WordBytes |-> frame.plain[n + i]]

IsWord(w) == w = [i \in 1..WordBytes |-> w[i]]

(* The first words of the frame are out, the last WindowSize of them in the    *)
(* window, and the first bytes of the next in window_data, which else still    *)
(* holds the last of them.                                                     *)
OutAt(a, x) ==
  /\ reg.addr = WordBytes * a + x /\ reg.addr <= Len(frame.plain)
  /\ reg.bytes = WordBytes * a
  /\ out = [i \in 1..WordBytes * a |-> frame.plain[i]]
  /\ DOMAIN reg.window_data = 1..WordBytes
  /\ IsWord(reg.window_data)
  /\ \A i \in 1..x : reg.window_data[i] = frame.plain[WordBytes * a + i]
  /\ x = 0 /\ a > 0 => reg.window_data = Plain(WordBytes * (a - 1))
  /\ DOMAIN window = 0..WindowSize - 1
  /\ \A n \in Nat : n < a /\ a <= n + WindowSize => window[n % WindowSize] = Plain(WordBytes * n)

LEMMA Numbers ==
  /\ WordBytes \in Nat /\ WordBytes > 0 /\ WindowSize \in Nat /\ WindowSize > 0
  /\ Nibble \in Nat /\ Nibble > 1 /\ MinMatch \in Nat /\ MinMatch > 0
  /\ Byte \in Nat /\ Byte = Nibble * Nibble /\ Ones = Byte - 1 /\ Ones \in Nat /\ Ones >= Nibble /\ Ones > 1
<1>1. /\ WordBytes \in Nat /\ WordBytes > 0 /\ WindowSize \in Nat /\ WindowSize > 0
      /\ Nibble \in Nat /\ Nibble > 1 /\ MinMatch \in Nat /\ MinMatch > 0
  BY Lz4Assumption
<1>2. Nibble * 1 + Nibble <= Nibble * Nibble
  BY <1>1, MulMono
<1> QED BY <1>1, <1>2 DEF Byte, Ones

LEMMA DivUnique ==
  ASSUME NEW w \in Nat, w > 0, NEW q \in Nat, NEW r \in 0..w-1
  PROVE  (w * q + r) \div w = q /\ (w * q + r) % w = r
<1> DEFINE n == w * q + r
<1>1. n \in Nat /\ w * q <= n /\ n < w * (q + 1)
  OBVIOUS
<1>2. q <= n \div w
  BY <1>1, DivAbove
<1>3. n \div w < q + 1
  BY <1>1, DivBelow
<1>4. n \div w = q
  BY <1>1, <1>2, <1>3, DivDef
<1> QED BY <1>1, <1>4, DivDef

LEMMA NextMultiple ==
  ASSUME NEW w \in Nat, w > 0, NEW n \in Nat
  PROVE  (n + w) % w = n % w /\ (n + w) \div w = n \div w + 1
<1>1. n \div w \in Nat /\ n % w \in 0..w-1 /\ n = w * (n \div w) + (n % w)
  BY DivDef
<1> DEFINE q == n \div w
           r == n % w
<1>2. q \in Nat /\ r \in 0..w-1 /\ n = w * q + r
  BY <1>1
<1> HIDE DEF q, r
<1>3. n + w = w * (q + 1) + r /\ q + 1 \in Nat
  BY <1>2
<1>4. (n + w) \div w = q + 1 /\ (n + w) % w = r
  BY <1>2, <1>3, DivUnique
<1> QED BY <1>4 DEF q, r

(* What a word adds to the output. *)
LEMMA Appends ==
  ASSUME NEW f, NEW n \in Nat, NEW w \in Nat
  PROVE  [i \in 1..n |-> f[i]] \o [i \in 1..w |-> f[n + i]] = [i \in 1..n + w |-> f[i]]
<1> DEFINE S == {f[i] : i \in Nat}
           s == [i \in 1..n |-> f[i]]
           t == [i \in 1..w |-> f[n + i]]
           u == [i \in 1..n + w |-> f[i]]
<1>1. s \in Seq(S) /\ Len(s) = n
  OBVIOUS
<1>2. t \in Seq(S) /\ Len(t) = w
  OBVIOUS
<1>3. u \in Seq(S) /\ Len(u) = n + w
  OBVIOUS
<1>4. /\ s \o t \in Seq(S) /\ Len(s \o t) = n + w
      /\ \A i \in 1..n + w : (s \o t)[i] = IF i <= n THEN s[i] ELSE t[i - n]
  BY <1>1, <1>2, ConcatProperties
<1>5. ASSUME NEW i \in 1..n + w
      PROVE  (s \o t)[i] = u[i]
  <2>1. CASE i <= n
    BY <1>4, <2>1
  <2>2. CASE ~(i <= n)
    <3>1. i - n \in 1..w /\ n + (i - n) = i
      BY <2>2
    <3> QED BY <1>4, <2>2, <3>1
  <2> QED BY <2>1, <2>2
<1> HIDE DEF s, t, u, S
<1> QED BY <1>3, <1>4, <1>5, SeqEqual

LEMMA WordBounds ==
  ASSUME NEW a \in Nat, NEW x \in Nat, x < WordBytes, reg.addr = WordBytes * a + x
  PROVE  reg.addr \in Nat /\ Addr3 = x /\ Addr13 = a % WindowSize /\ Addr13 \in 0..WindowSize - 1
<1>1. x \in 0..WordBytes - 1 /\ WordBytes * a \in Nat
  BY Numbers
<1>2. reg.addr \div WordBytes = a /\ reg.addr % WordBytes = x
  BY <1>1, Numbers, DivUnique
<1>3. a % WindowSize \in 0..WindowSize - 1
  BY Numbers, DivDef
<1> QED BY <1>1, <1>2, <1>3, Numbers DEF Addr3, Addr13

(* A whole word goes out: the window and the output with it. *)
LEMMA WordOut ==
  ASSUME NEW a \in Nat, NEW x \in Nat, x < WordBytes, OutAt(a, x), ~pins.reset,
         Output(Plain(WordBytes * a))
  PROVE  /\ out' = [i \in 1..WordBytes * (a + 1) |-> frame.plain[i]]
         /\ DOMAIN window' = 0..WindowSize - 1
         /\ \A n \in Nat : n < a + 1 /\ a + 1 <= n + WindowSize
              => window'[n % WindowSize] = Plain(WordBytes * n)
<1>1. /\ Addr13 = a % WindowSize /\ Addr13 \in 0..WindowSize - 1
      /\ window' = [window EXCEPT ![Addr13] = Plain(WordBytes * a)]
      /\ out' = out \o Plain(WordBytes * a)
  BY WordBounds DEF OutAt, Output, Kept
<1>2. out' = [i \in 1..WordBytes * (a + 1) |-> frame.plain[i]]
  <2>1. WordBytes * a \in Nat /\ WordBytes * (a + 1) = WordBytes * a + WordBytes
    BY Numbers
  <2>2. [i \in 1..WordBytes * a |-> frame.plain[i]] \o Plain(WordBytes * a)
          = [i \in 1..WordBytes * a + WordBytes |-> frame.plain[i]]
    <3> DEFINE n == WordBytes * a
    <3>1. n \in Nat
      BY <2>1
    <3>2. Plain(n) = [i \in 1..WordBytes |-> frame.plain[n + i]]
      BY DEF Plain
    <3> HIDE DEF n
    <3>3. [i \in 1..n |-> frame.plain[i]] \o Plain(n) = [i \in 1..n + WordBytes |-> frame.plain[i]]
      BY <3>1, <3>2, Numbers, Appends
    <3> QED BY <3>3 DEF n
  <2> QED BY <1>1, <2>1, <2>2 DEF OutAt
<1>3. DOMAIN window = 0..WindowSize - 1
  BY DEF OutAt
<1>4. ASSUME NEW n \in Nat, n < a + 1, a + 1 <= n + WindowSize
      PROVE  window'[n % WindowSize] = Plain(WordBytes * n)
  <2>1. CASE n = a
    BY <1>1, <1>3, <2>1
  <2>2. CASE n < a
    <3>1. n % WindowSize # a % WindowSize
      BY <1>4, <2>2, Numbers, ModDiffers
    <3>2. window[n % WindowSize] = Plain(WordBytes * n)
      BY <1>4, <2>2, Numbers DEF OutAt
    <3> QED BY <1>1, <1>3, <3>1, <3>2
  <2> QED BY <1>4, <2>1, <2>2
<1> QED BY <1>1, <1>2, <1>3, <1>4

Written == {"window_data", "addr", "valid", "long", "bytes"}

(* The next byte of the frame, put by write_word. *)
LEMMA PutByteOut ==
  ASSUME NEW a \in Nat, NEW x \in Nat, x < WordBytes, OutAt(a, x), ~pins.reset, frame' = frame,
         NEW r, Full(r), r.bytes = reg.bytes, reg.addr < Len(frame.plain), Len(frame.plain) \in Nat,
         PutByte(frame.plain[reg.addr + 1], r)
  PROVE  /\ Rest(reg', r, Written) /\ reg'.addr = reg.addr + 1
         /\ IF x = WordBytes - 1 THEN OutAt(a + 1, 0)' ELSE OutAt(a, x + 1)'
<1> DEFINE word == [reg.window_data EXCEPT ![x + 1] = frame.plain[reg.addr + 1]]
           put  == [r EXCEPT !.window_data = word, !.addr = reg.addr + 1]
<1>0. /\ Addr3 = x /\ reg.addr \in Nat /\ WordBytes * a \in Nat
      /\ WordBytes \in Nat /\ WordBytes > 0
      /\ reg.addr = WordBytes * a + x
  <2>1. reg.addr = WordBytes * a + x
    BY DEF OutAt
  <2>3. Addr3 = x /\ reg.addr \in Nat
    BY <2>1, WordBounds
  <2>4. WordBytes * a \in Nat
    BY Numbers
  <2> QED BY <2>1, <2>3, <2>4, Numbers
<1>1. /\ DOMAIN word = 1..WordBytes
      /\ \A i \in 1..x + 1 : word[i] = frame.plain[WordBytes * a + i]
  BY <1>0 DEF OutAt
<1>w. IsWord(word)
  <2>1. word = [i \in 1..WordBytes |-> word[i]]
    BY <1>1
  <2> HIDE DEF word
  <2> QED BY <2>1 DEF IsWord
<1>2. CASE x = WordBytes - 1
  <2>1. word = Plain(WordBytes * a)
    <3>1. word = [i \in 1..WordBytes |-> word[i]]
      BY <1>1
    <3>2. \A i \in 1..WordBytes : word[i] = frame.plain[WordBytes * a + i]
      BY <1>0, <1>1, <1>2
    <3> HIDE DEF word
    <3> QED BY <3>1, <3>2 DEF Plain
  <2>2. reg' = Valid(put, word) /\ Output(word)
    BY <1>0, <1>2 DEF PutByte
  <2>3. /\ Rest(reg', r, Written) /\ reg'.addr = reg.addr + 1
        /\ reg'.window_data = word /\ reg'.bytes = reg.bytes + WordBytes
    <3> HIDE DEF word
    <3> QED BY <2>2 DEF Valid, Rest, Full, Fields, Written
  <2>4. /\ out' = [i \in 1..WordBytes * (a + 1) |-> frame.plain[i]]
        /\ DOMAIN window' = 0..WindowSize - 1
        /\ \A n \in Nat : n < a + 1 /\ a + 1 <= n + WindowSize
             => window'[n % WindowSize] = Plain(WordBytes * n)
    BY <2>1, <2>2, WordOut
  <2>5. /\ reg'.addr = WordBytes * (a + 1) + 0 /\ reg'.addr <= Len(frame.plain)
        /\ reg'.bytes = WordBytes * (a + 1) /\ a + 1 - 1 = a /\ 1..0 = {}
    BY <1>0, <1>2, <2>3 DEF OutAt
  <2>6. Plain(WordBytes * a) = Plain(WordBytes * (a + 1 - 1))
    BY <2>5
  <2>7. OutAt(a + 1, 0)'
    <3> HIDE DEF word
    <3> QED BY <1>1, <1>w, <2>1, <2>3, <2>4, <2>5, <2>6 DEF OutAt, Plain
  <2> QED BY <1>2, <2>3, <2>7
<1>3. CASE x # WordBytes - 1
  <2>1. reg' = put /\ NoOutput
    BY <1>0, <1>3 DEF PutByte
  <2>2. /\ Rest(reg', r, Written) /\ reg'.addr = reg.addr + 1
        /\ reg'.window_data = word /\ reg'.bytes = reg.bytes
    <3> HIDE DEF word
    <3> QED BY <2>1 DEF Rest, Full, Fields, Written
  <2>3. /\ reg'.addr = WordBytes * a + (x + 1) /\ reg'.addr <= Len(frame.plain) /\ x + 1 # 0
    BY <1>0, <2>2
  <2>4. window' = window /\ out' = out
    BY <2>1 DEF NoOutput, Kept
  <2>5. OutAt(a, x + 1)'
    <3> HIDE DEF word
    <3> QED BY <1>1, <1>w, <2>2, <2>3, <2>4 DEF OutAt, Plain
  <2> QED BY <1>3, <2>2, <2>5
<1> QED BY <1>2, <1>3

(* The next word of the frame, put by write_long. *)
LEMMA PutLongOut ==
  ASSUME NEW a \in Nat, NEW x \in Nat, x < WordBytes, OutAt(a, x), ~pins.reset, frame' = frame,
         NEW r, Full(r), reg.addr + WordBytes <= Len(frame.plain), Len(frame.plain) \in Nat,
         PutLong(Plain(reg.addr), r)
  PROVE  /\ Rest(reg', r, Written) /\ reg'.addr = reg.addr + WordBytes
         /\ OutAt(a + 1, x)'
<1> DEFINE word == Plain(reg.addr)
           long == [i \in 1..WordBytes |-> IF i <= x THEN reg.window_data[i] ELSE word[i - x]]
           kept == [i \in 1..WordBytes |-> IF i <= x THEN word[WordBytes - x + i]
                                                     ELSE reg.window_data[i]]
           next == IF x = 0 THEN word ELSE kept
           put  == [r EXCEPT !.window_data = next, !.addr = reg.addr + WordBytes]
<1>0. /\ Addr3 = x /\ reg.addr \in Nat /\ WordBytes * a \in Nat
      /\ WordBytes \in Nat /\ WordBytes > 0
      /\ reg.addr = WordBytes * a + x
      /\ WordBytes * (a + 1) = WordBytes * a + WordBytes
  <2>1. reg.addr = WordBytes * a + x
    BY DEF OutAt
  <2>2. WordBytes * (a + 1) = WordBytes * a + WordBytes
    BY Numbers
  <2>3. Addr3 = x /\ reg.addr \in Nat
    BY <2>1, WordBounds
  <2>4. WordBytes * a \in Nat
    BY Numbers
  <2> QED BY <2>1, <2>2, <2>3, <2>4, Numbers
<1>1. long = Plain(WordBytes * a)
  <2>1. ASSUME NEW i \in 1..WordBytes
        PROVE  long[i] = frame.plain[WordBytes * a + i]
    <3>1. CASE i <= x
      <4>1. i \in 1..x
        BY <3>1, <1>0
      <4>2. reg.window_data[i] = frame.plain[WordBytes * a + i]
        BY <4>1 DEF OutAt
      <4> QED BY <3>1, <4>2
    <3>2. CASE ~(i <= x)
      <4>1. i - x \in 1..WordBytes /\ reg.addr + (i - x) = WordBytes * a + i
        BY <3>2, <1>0
      <4> QED BY <3>2, <4>1 DEF Plain
    <3> QED BY <3>1, <3>2
  <2> QED BY <2>1 DEF Plain
<1>2. /\ DOMAIN next = 1..WordBytes
      /\ \A i \in 1..x : next[i] = frame.plain[WordBytes * (a + 1) + i]
      /\ x = 0 => next = Plain(WordBytes * a)
  <2>1. CASE x = 0
    BY <2>1, <1>0 DEF Plain
  <2>2. CASE x # 0
    <3>1. ASSUME NEW i \in 1..x
          PROVE  kept[i] = frame.plain[WordBytes * (a + 1) + i]
      <4>1. /\ WordBytes - x + i \in 1..WordBytes /\ i \in 1..WordBytes
            /\ reg.addr + (WordBytes - x + i) = WordBytes * (a + 1) + i
        BY <1>0
      <4> QED BY <4>1 DEF Plain
    <3> QED BY <2>2, <3>1
  <2> QED BY <2>1, <2>2
<1>w. IsWord(next)
  <2>1. next = [i \in 1..WordBytes |-> next[i]]
    <3>1. CASE x = 0
      BY <3>1 DEF Plain
    <3>2. CASE x # 0
      <4>1. next = kept
        BY <3>2
      <4>2. kept = [i \in 1..WordBytes |-> kept[i]]
        OBVIOUS
      <4> QED BY <4>1, <4>2
    <3> QED BY <3>1, <3>2
  <2> HIDE DEF next
  <2> QED BY <2>1 DEF IsWord
<1>3. reg' = Valid(put, long) /\ Output(long)
  BY <1>0 DEF PutLong
<1>4. /\ Rest(reg', r, Written) /\ reg'.addr = reg.addr + WordBytes
      /\ reg'.window_data = next /\ reg'.bytes = reg.bytes + WordBytes
  <2> HIDE DEF next, long
  <2> QED BY <1>3 DEF Valid, Rest, Full, Fields, Written
<1>5. /\ out' = [i \in 1..WordBytes * (a + 1) |-> frame.plain[i]]
      /\ DOMAIN window' = 0..WindowSize - 1
      /\ \A n \in Nat : n < a + 1 /\ a + 1 <= n + WindowSize
           => window'[n % WindowSize] = Plain(WordBytes * n)
  BY <1>1, <1>3, WordOut
<1>6. /\ reg'.addr = WordBytes * (a + 1) + x /\ reg'.addr <= Len(frame.plain)
      /\ reg'.bytes = WordBytes * (a + 1) /\ a + 1 - 1 = a
  BY <1>0, <1>4 DEF OutAt
<1>7. OutAt(a + 1, x)'
  <2>1. Plain(WordBytes * a) = Plain(WordBytes * (a + 1 - 1))
    BY <1>6
  <2> HIDE DEF next
  <2> QED BY <2>1, <1>2, <1>w, <1>4, <1>5, <1>6 DEF OutAt, Plain
<1> QED BY <1>4, <1>7
-----------------------------------------------------------------------------
(* What the decoder reads.                                                    *)

ByteAt(n) == IF n <= Size THEN frame.coded[n] ELSE Ones

Located(s, at, from) ==
  /\ frame.plain \in Seq(Int) /\ IsBlock(frame, s, at, from)
  /\ IF s.match = 0 THEN IsLast(frame, s, at, from) ELSE IsMatch(frame, s, at, from)

(* What a clock of the decoder needs: what it has not read yet of the words    *)
(* written is the frame's.                                                    *)
Fed ==
  /\ ~pins.reset /\ RegOK /\ Size \in Nat /\ block_write_total \in Nat /\ UnreadIntact
  /\ Full(reg) /\ reg.offset \in Nat /\ pins.compressed_bytes = Size

LEMMA ByteRead ==
  ASSUME Fed, Ready
  PROVE  blocks[ReadAddr][Index + 1] = ByteAt(reg.total + 1)
<1>1. /\ reg.total \in Nat /\ reg.total < block_write_total /\ block_write_total \in Nat
      /\ WordBytes \in Nat /\ WordBytes > 0
  BY Constants DEF Fed, RegOK, Ready
<1>2. blocks[ReadAddr] = Word(reg.total \div WordBytes)
  BY <1>1 DEF UnreadIntact, ReadAddr, Fed
<1>3. /\ Index \in 0..WordBytes - 1
      /\ WordBytes * (reg.total \div WordBytes) + (Index + 1) = reg.total + 1
  BY <1>1, DivDef DEF Index
<1> QED BY <1>1, <1>2, <1>3 DEF Word, ByteAt

LEMMA WordRead ==
  ASSUME Fed, Ready, Index = 0
  PROVE  blocks[ReadAddr] = [i \in 1..WordBytes |-> ByteAt(reg.total + i)]
<1>1. /\ reg.total \in Nat /\ reg.total < block_write_total /\ block_write_total \in Nat
      /\ WordBytes \in Nat /\ WordBytes > 0
  BY Constants DEF Fed, RegOK, Ready
<1>2. blocks[ReadAddr] = Word(reg.total \div WordBytes)
  BY <1>1 DEF UnreadIntact, ReadAddr, Fed
<1>3. WordBytes * (reg.total \div WordBytes) = reg.total
  BY <1>1, DivDef DEF Index
<1> QED BY <1>1, <1>2, <1>3 DEF Word, ByteAt

(* The bytes of a length, and the half of the token before them. *)
LEMMA LengthBytes ==
  ASSUME NEW n \in Nat
  PROVE  /\ Len(Length(n)) \in Nat /\ Half(n) \in 0..Nibble - 1
         /\ n < Nibble - 1 => Len(Length(n)) = 0 /\ Half(n) = n
         /\ n >= Nibble - 1 =>
              /\ Len(Length(n)) > 0 /\ Half(n) = Nibble - 1
              /\ \A j \in 1..Len(Length(n)) :
                   \/ j < Len(Length(n)) /\ Length(n)[j] = Ones
                   \/ /\ j = Len(Length(n)) /\ Length(n)[j] \in Nat /\ Length(n)[j] < Ones
                      /\ (Nibble - 1) + Ones * (j - 1) + Length(n)[j] = n
<1>1. CASE n < Nibble - 1
  BY <1>1, Numbers DEF Length, Half
<1>2. CASE n >= Nibble - 1
  <2> DEFINE rest == n - (Nibble - 1)
             q == rest \div Ones
             r == rest % Ones
  <2>1. rest \in Nat
    BY <1>2, Numbers
  <2>3. Length(n) = [i \in 1..q |-> Ones] \o <<r>>
    BY <1>2, Numbers DEF Length
  <2> HIDE DEF rest
  <2>2. /\ q \in Nat /\ r \in 0..Ones - 1 /\ rest = Ones * q + r
    <3>1. Ones \in Nat /\ Ones > 0
      BY Numbers
    <3> QED BY <2>1, <3>1, DivDef
  <2> HIDE DEF q, r
  <2>4. [i \in 1..q |-> Ones] \in Seq(Int) /\ Len([i \in 1..q |-> Ones]) = q
    BY <2>2, Numbers
  <2>5. <<r>> \in Seq(Int) /\ Len(<<r>>) = 1 /\ <<r>>[1] = r
    BY <2>2, Numbers
  <2>6. /\ Len(Length(n)) = q + 1
        /\ \A j \in 1..q + 1 : Length(n)[j] = IF j <= q THEN Ones ELSE r
    BY <2>2, <2>3, <2>4, <2>5, ConcatProperties
  <2>7. Half(n) = Nibble - 1
    BY <1>2, Numbers DEF Half
  <2>8. (Nibble - 1) + Ones * (q + 1 - 1) + r = n
    BY <2>1, <2>2, Numbers DEF rest
  <2>9. ASSUME NEW j \in 1..q + 1
        PROVE  \/ j < q + 1 /\ Length(n)[j] = Ones
               \/ /\ j = q + 1 /\ Length(n)[j] \in Nat /\ Length(n)[j] < Ones
                  /\ (Nibble - 1) + Ones * (j - 1) + Length(n)[j] = n
    <3>1. CASE j <= q
      BY <2>2, <2>6, <3>1
    <3>2. CASE ~(j <= q)
      <4>1. j = q + 1
        BY <2>2, <3>2
      <4>2. Length(n)[j] = r
        BY <2>6, <4>1, <3>2
      <4> QED BY <4>1, <4>2, <2>2, <2>8, Numbers
    <3> QED BY <3>1, <3>2
  <2> QED BY <1>2, <2>2, <2>6, <2>7, <2>9, Numbers
<1> QED BY <1>1, <1>2, Numbers
-----------------------------------------------------------------------------
(* Where the decoder is in a block, by its state.                             *)

AtIdle(at, from)  == In("S_Idle") /\ reg.total = at /\ reg.addr = from

AtToken(at, from) ==
  In("S_Read_Token") /\ reg.total = at + 1 /\ reg.addr = from /\ reg.data = frame.coded[at + 1]

AtLiteralsLength(s, at, from) ==
  /\ In("S_Read_Literals_Length") /\ s.literals >= Nibble - 1
  /\ reg.ML = Half(MatchLength(s)) /\ reg.addr = from
  /\ \E j \in 1..Len(Length(s.literals)) :
       /\ reg.total = at + 1 + j /\ reg.data = frame.coded[at + 1 + j]
       /\ reg.LL = (Nibble - 1) + Ones * (j - 1)
       /\ reg.data_64 \in {Empty, [i \in 1..WordBytes |-> ByteAt(at + j + i)]}

AtLiterals(s, at, from) ==
  /\ In("S_Read_Literals") /\ reg.ML = Half(MatchLength(s))
  /\ \E i \in 0..s.literals :
       /\ reg.LL = s.literals - i /\ reg.addr = from + i
       /\ reg.total = Lits(s, at) + i + 1 /\ (reg.total <= Size => reg.data = frame.coded[reg.total])

AtLiterals64(s, at, from) ==
  /\ In("S_Read_Literals_64") /\ reg.ML = Half(MatchLength(s))
  /\ \E i \in 0..s.literals - WordBytes :
       /\ reg.LL = s.literals - i /\ reg.addr = from + i
       /\ reg.total = Lits(s, at) + i + WordBytes /\ Index = 0 /\ reg.data_64 = Plain(from + i)

AtOffset(s, at, from) ==
  /\ In("S_Read_Offset") /\ reg.ML = Half(MatchLength(s)) /\ reg.LL = 0
  /\ reg.addr = Copies(s, from)
  /\ IF s.match = 0 THEN reg.total >= Size /\ reg.offset % Byte = 0
     ELSE /\ reg.total = Offs(s, at) + 2 /\ reg.data = frame.coded[Offs(s, at) + 2]
          /\ reg.offset % Byte = s.offset % Byte

AtMatchOffset(s, at, from) ==
  /\ In("S_Read_Match_Offset") /\ reg.ML = Half(MatchLength(s)) /\ reg.LL = 0
  /\ reg.addr = Copies(s, from)
  /\ IF s.match = 0 THEN reg.total >= Size /\ reg.offset = 0
     ELSE reg.total = Offs(s, at) + 2 /\ reg.offset = s.offset

AtMatchLength(s, at, from) ==
  /\ In("S_Read_Match_Length") /\ s.match # 0 /\ MatchLength(s) >= Nibble - 1
  /\ reg.addr = Copies(s, from) /\ reg.offset = s.offset
  /\ \E j \in 1..Len(Length(MatchLength(s))) :
       /\ reg.total = Offs(s, at) + 2 + j /\ reg.data = frame.coded[Offs(s, at) + 2 + j]
       /\ reg.ML = (Nibble - 1) + Ones * (j - 1)

AtCopy(s, at, from) ==
  /\ s.match # 0 /\ reg.total = After(s, at) /\ reg.offset = s.offset
  /\ \E i \in 0..s.match - 1 : /\ reg.ML = s.match - i /\ reg.addr = Copies(s, from) + i
                               /\ reg.MP = reg.addr - s.offset
  /\ \/ In("S_Copy_Matches")
     \/ /\ In("S_Copy_Matches_64") /\ reg.ML >= WordBytes
        /\ MP3 = 0 /\ reg.MP \div WordBytes < reg.addr \div WordBytes
     \/ In("S_Copy_Matches_64_8") /\ reg.ML >= WordBytes /\ Addr3 = 0 /\ s.offset <= WordBytes

Ended(s) == s.match = 0 /\ reg.ML = 0 /\ reg.LL = 0 /\ reg.offset = 0 /\ reg.total >= Size

LastCopied(s, from) == In("S_Done") /\ Ended(s) /\ reg.addr = Copies(s, from)

(* What no clock changes of the word begun and of the window. *)
Shaped == DOMAIN reg.window_data = 1..WordBytes /\ IsWord(reg.window_data)
          /\ DOMAIN window = 0..WindowSize - 1

FrameDone(s) ==
  /\ In("S_Done_64") /\ Ended(s) /\ Shaped
  /\ Emitted = frame.plain /\ reg.bytes = Len(frame.plain)

Where(s, at, from) ==
  \/ AtIdle(at, from) \/ AtToken(at, from)
  \/ AtLiteralsLength(s, at, from) \/ AtLiterals(s, at, from) \/ AtLiterals64(s, at, from)
  \/ AtOffset(s, at, from) \/ AtMatchOffset(s, at, from) \/ AtMatchLength(s, at, from)
  \/ AtCopy(s, at, from)
  \/ LastCopied(s, from) \/ FrameDone(s)

Inner == {"state", "ML", "LL", "MP", "offset", "total", "LL_W", "data", "data_64", "paused", "valid"}

OutOK == \E a \in Nat, x \in 0..WordBytes - 1 : OutAt(a, x)

(* A clock that leaves the output a beginning of the frame. *)
PutsNext == Full(reg') /\ reg'.offset \in Nat /\ reg'.done = reg.done /\ OutOK'

(* A clock that puts nothing out. *)
Silent == Rest(reg', reg, Inner) /\ reg'.offset \in Nat /\ window' = window /\ out' = out

-----------------------------------------------------------------------------
(* A step of each state.                                                      *)

LEMMA IdleSteps ==
  ASSUME Fed, frame' = frame, NEW at, NEW from, at \in Nat, at < Size, Size \in Nat,
         AtIdle(at, from), Idle
  PROVE  AtToken(at, from)' /\ Silent
<1>1. Full(reg) /\ ~pins.reset /\ reg.offset \in Nat
  BY DEF Fed
<1>2. /\ Rest(reg', reg, Inner) /\ reg'.state = "S_Read_Token" /\ reg'.total = reg.total + 1
      /\ reg'.data = blocks[ReadAddr][Index + 1] /\ reg'.offset = reg.offset
  BY <1>1 DEF Idle, NextWord, Held, Before, Full, Rest, Fields, Inner
<1>3. window' = window /\ out' = out
  BY <1>1 DEF Idle, NoOutput, Kept
<1>4. reg'.data = ByteAt(reg.total + 1)
  BY <1>2, ByteRead DEF Idle
<1>5. reg'.addr = reg.addr
  BY <1>2 DEF Rest, Fields, Inner
<1> QED BY <1>1, <1>2, <1>3, <1>4, <1>5 DEF AtIdle, AtToken, In, ByteAt, Silent

LEMMA BlockNumbers ==
  ASSUME Fed, NEW s, NEW at, NEW from, Located(s, at, from)
  PROVE  /\ at \in Nat /\ from \in Nat /\ s.literals \in Nat /\ s.match \in Nat
         /\ MatchLength(s) \in Nat /\ Size \in Nat /\ reg.total \in Nat
         /\ Len(Length(s.literals)) \in Nat /\ Len(Length(MatchLength(s))) \in Nat
         /\ Lits(s, at) = at + 1 + Len(Length(s.literals))
         /\ Offs(s, at) = Lits(s, at) + s.literals
         /\ After(s, at) = Offs(s, at) + 2 + Len(Length(MatchLength(s)))
         /\ Copies(s, from) = from + s.literals
         /\ Len(frame.plain) \in Nat /\ Copies(s, from) + s.match <= Len(frame.plain)
         /\ at < Size /\ Offs(s, at) <= Size /\ (s.match # 0 => After(s, at) < Size)
<1>1. /\ at \in Nat /\ from \in Nat /\ s.literals \in Nat /\ s.match \in Nat
      /\ at < Size /\ Offs(s, at) <= Size
      /\ Len(frame.plain) \in Nat /\ Copies(s, from) + s.match <= Len(frame.plain)
  BY DEF Located, IsBlock, Size
<1>2. s.match # 0 => s.match >= MinMatch /\ After(s, at) < Size
  BY DEF Located, IsMatch, Size
<1>3. MatchLength(s) \in Nat
  BY <1>1, <1>2, Numbers DEF MatchLength
<1>4. Size \in Nat /\ reg.total \in Nat
  BY DEF Fed, RegOK
<1>5. Len(Length(s.literals)) \in Nat /\ Len(Length(MatchLength(s))) \in Nat
  BY <1>1, <1>3, LengthBytes
<1> QED BY <1>1, <1>2, <1>3, <1>4, <1>5 DEF Lits, Offs, After, Copies

LEMMA TokenSteps ==
  ASSUME Fed, frame' = frame, NEW s, NEW at, NEW from, Located(s, at, from),
         AtToken(at, from), ReadToken
  PROVE  (AtLiteralsLength(s, at, from)' \/ AtLiterals(s, at, from)') /\ Silent
<1> DEFINE h == Half(s.literals)
           m == Half(MatchLength(s))
<1>1. Full(reg) /\ ~pins.reset /\ reg.offset \in Nat
  BY DEF Fed
<1>2. /\ Rest(reg', reg, Inner) /\ reg'.total = reg.total + 1
      /\ reg'.ML = reg.data % Nibble /\ reg'.LL = reg.data \div Nibble
      /\ reg'.state = IF reg.data \div Nibble = Nibble - 1 THEN "S_Read_Literals_Length"
                                                           ELSE "S_Read_Literals"
      /\ reg'.data = blocks[ReadAddr][Index + 1] /\ reg'.offset = reg.offset
      /\ reg'.data_64 = IF Ready64 /\ Index = 0 THEN blocks[ReadAddr] ELSE Empty
  BY <1>1 DEF ReadToken, NextWord, Held, Before, Full, Rest, Fields, Inner
<1>3. window' = window /\ out' = out
  BY <1>1 DEF ReadToken, NoOutput, Kept
<1>4. reg'.data = ByteAt(reg.total + 1)
  BY <1>2, ByteRead DEF ReadToken
<1>5. reg'.data_64 \in {Empty, [i \in 1..WordBytes |-> ByteAt(reg.total + i)]}
  BY <1>2, WordRead DEF ReadToken
<1>6. reg'.addr = reg.addr
  BY <1>2 DEF Rest, Fields, Inner
<1>n. /\ at \in Nat /\ from \in Nat /\ s.literals \in Nat /\ s.match \in Nat
      /\ MatchLength(s) \in Nat /\ Size \in Nat
  BY BlockNumbers
<1>7. h \in 0..Nibble - 1 /\ m \in 0..Nibble - 1
  BY <1>n, LengthBytes
<1>8. reg.data = Nibble * h + m
  BY DEF Located, IsBlock, AtToken
<1>9. reg.data \div Nibble = h /\ reg.data % Nibble = m
  <2> HIDE DEF h, m
  <2> QED BY <1>7, <1>8, Numbers, DivUnique
<1>10. CASE s.literals < Nibble - 1
  <2>1. Len(Length(s.literals)) = 0 /\ h = s.literals
    BY <1>10, <1>n, LengthBytes
  <2>2. reg'.state = "S_Read_Literals"
    BY <1>2, <1>9, <1>10, <2>1, <1>n, Numbers
  <2>3. reg'.total = Lits(s, at) + 0 + 1 /\ reg.total + 1 = reg'.total
    BY <1>2, <2>1, BlockNumbers DEF AtToken
  <2>4. reg'.LL = s.literals - 0 /\ reg'.addr = from + 0 /\ 0 \in 0..s.literals
    BY <1>2, <1>6, <1>9, <2>1, <1>n DEF AtToken
  <2>5. reg'.total <= Size => reg'.data = frame.coded[reg'.total]
    BY <1>4, <2>3 DEF ByteAt
  <2>6. AtLiterals(s, at, from)'
    BY <1>2, <1>9, <2>2, <2>3, <2>4, <2>5 DEF AtLiterals, In, Lits, Size
  <2> QED BY <2>6, <1>1, <1>2, <1>3 DEF Silent
<1>11. CASE s.literals >= Nibble - 1
  <2>1. Len(Length(s.literals)) > 0 /\ h = Nibble - 1 /\ Len(Length(s.literals)) \in Nat
    BY <1>11, <1>n, LengthBytes
  <2>2. reg'.state = "S_Read_Literals_Length"
    BY <1>2, <1>9, <2>1
  <2>3. /\ reg'.total = at + 1 + 1 /\ reg.total + 1 = at + 1 + 1 /\ 1 \in 1..Len(Length(s.literals))
        /\ reg.total = at + 1
    BY <1>2, <2>1, <1>n DEF AtToken
  <2>4. reg'.LL = (Nibble - 1) + Ones * (1 - 1) /\ reg'.addr = from
    BY <1>2, <1>6, <1>9, <2>1, Numbers DEF AtToken
  <2>5. reg'.data = frame.coded[at + 1 + 1]
    <3>1. at + 1 + 1 <= Size
      BY <2>1, BlockNumbers
    <3> QED BY <3>1, <1>4, <2>3 DEF ByteAt
  <2>6. AtLiteralsLength(s, at, from)'
    BY <1>2, <1>5, <1>9, <1>11, <2>2, <2>3, <2>4, <2>5 DEF AtLiteralsLength, In, ByteAt, Size
  <2> QED BY <2>6, <1>1, <1>2, <1>3 DEF Silent
<1> QED BY <1>10, <1>11, <1>n, Numbers

(* The byte the decoder reads next, where it wants one of the frame. *)
LEMMA NoLengthWord ==
  ASSUME Fed, NEW s, NEW at, NEW from, Located(s, at, from), AtLiteralsLength(s, at, from)
  PROVE  ~LengthWord
<1>1. PICK j \in 1..Len(Length(s.literals)) :
        /\ reg.total = at + 1 + j
        /\ reg.data_64 \in {Empty, [i \in 1..WordBytes |-> ByteAt(at + j + i)]}
  BY DEF AtLiteralsLength
<1>n. /\ at \in Nat /\ s.literals \in Nat /\ Size \in Nat /\ Len(Length(s.literals)) \in Nat
      /\ Lits(s, at) = at + 1 + Len(Length(s.literals)) /\ Lits(s, at) <= Size
  BY BlockNumbers
<1>2. DOMAIN Empty = 1..WordBytes /\ Empty[1] = 0 /\ 1 \in 1..WordBytes
  BY Numbers DEF Empty
<1>3. /\ [Empty EXCEPT ![1] = 1][1] = 1
      /\ \A i \in 2..WordBytes : [Empty EXCEPT ![1] = 1][i] = 0
  BY <1>2 DEF Empty
<1>4. SUFFICES ASSUME reg.data_64 = [Empty EXCEPT ![1] = 1]
               PROVE  FALSE
  BY DEF LengthWord
<1>5. \A i \in 1..WordBytes : reg.data_64[i] = ByteAt(at + j + i)
  BY <1>1, <1>2, <1>3, <1>4
<1>6. at + j + 1 <= Size
  BY <1>n
<1>7. frame.coded[at + 1 + j] = 1
  <2>1. at + j + 1 = at + 1 + j
    BY <1>n
  <2> QED BY <2>1, <1>2, <1>3, <1>4, <1>5, <1>6 DEF ByteAt
<1>8. frame.coded[at + 1 + j] = Length(s.literals)[j]
  BY DEF Located, IsBlock, Holds
<1>9. s.literals >= Nibble - 1
  BY DEF AtLiteralsLength
<1>10. j = Len(Length(s.literals))
  <2>1. Length(s.literals)[j] # Ones
    BY <1>7, <1>8, Numbers
  <2>2. \/ Length(s.literals)[j] = Ones
        \/ j = Len(Length(s.literals))
    BY <1>9, <1>n, LengthBytes
  <2> QED BY <2>1, <2>2
<1>11. Lits(s, at) = at + j + 1 /\ at + j + 1 = at + 1 + j
  BY <1>10, <1>n
<1>12. PICK i \in 1..WordBytes - 1 :
         Lits(s, at) + i <= Size => frame.coded[Lits(s, at) + i] # 0
  BY <1>7, <1>9, <1>11 DEF Located, IsBlock, Size
<1>13. /\ i + 1 \in 2..WordBytes /\ i + 1 \in 1..WordBytes
       /\ at + j + (i + 1) = Lits(s, at) + i
  BY <1>11, <1>n, Numbers
<1>14. ByteAt(Lits(s, at) + i) = 0
  BY <1>3, <1>4, <1>5, <1>13
<1> QED BY <1>12, <1>14, Numbers DEF ByteAt

LEMMA LiteralsLengthSteps ==
  ASSUME Fed, frame' = frame, NEW s, NEW at, NEW from, Located(s, at, from),
         AtLiteralsLength(s, at, from), ReadLiteralsLength
  PROVE  (AtLiteralsLength(s, at, from)' \/ AtLiterals(s, at, from)') /\ Silent
<1>1. Full(reg) /\ ~pins.reset /\ reg.offset \in Nat /\ ~LengthWord
  BY NoLengthWord DEF Fed
<1>2. /\ Rest(reg', reg, Inner) /\ reg'.total = reg.total + 1
      /\ reg'.LL = reg.LL + reg.data /\ reg'.ML = reg.ML
      /\ reg'.state = IF reg.data # Ones THEN "S_Read_Literals" ELSE reg.state
      /\ reg'.data = blocks[ReadAddr][Index + 1] /\ reg'.offset = reg.offset
      /\ reg'.data_64 = IF Ready64 /\ Index = 0 THEN blocks[ReadAddr] ELSE Empty
  BY <1>1 DEF ReadLiteralsLength, NextWord, Held, Before, Full, Rest, Fields, Inner
<1>3. window' = window /\ out' = out
  BY <1>1 DEF ReadLiteralsLength, NoOutput, Kept
<1>4. reg'.data = ByteAt(reg.total + 1)
  BY <1>2, ByteRead DEF ReadLiteralsLength
<1>5. reg'.data_64 \in {Empty, [i \in 1..WordBytes |-> ByteAt(reg.total + i)]}
  BY <1>2, WordRead DEF ReadLiteralsLength
<1>6. reg'.addr = reg.addr
  BY <1>2 DEF Rest, Fields, Inner
<1>n. /\ at \in Nat /\ from \in Nat /\ s.literals \in Nat /\ s.match \in Nat
      /\ MatchLength(s) \in Nat /\ Size \in Nat /\ Len(Length(s.literals)) \in Nat
      /\ Lits(s, at) = at + 1 + Len(Length(s.literals)) /\ Lits(s, at) <= Size
  BY BlockNumbers
<1> DEFINE len == Len(Length(s.literals))
<1>7. PICK j \in 1..len :
       /\ reg.total = at + 1 + j /\ reg.data = frame.coded[at + 1 + j]
       /\ reg.LL = (Nibble - 1) + Ones * (j - 1)
  BY DEF AtLiteralsLength
<1>8. /\ In("S_Read_Literals_Length") /\ s.literals >= Nibble - 1
      /\ reg.ML = Half(MatchLength(s)) /\ reg.addr = from
  BY DEF AtLiteralsLength
<1>9. reg.data = Length(s.literals)[j]
  BY <1>7 DEF Located, IsBlock, Holds
<1>10. \/ j < len /\ reg.data = Ones
       \/ /\ j = len /\ reg.data \in Nat /\ reg.data < Ones
          /\ (Nibble - 1) + Ones * (j - 1) + reg.data = s.literals
  BY <1>8, <1>9, <1>n, LengthBytes, ZenonT(60)
<1>11. CASE j < len /\ reg.data = Ones
  <2>1. reg'.state = "S_Read_Literals_Length"
    BY <1>2, <1>8, <1>11 DEF In
  <2>2. /\ reg'.total = at + 1 + (j + 1) /\ j + 1 \in 1..len /\ reg.total = at + (j + 1)
        /\ reg.total + 1 = at + 1 + (j + 1) /\ at + 1 + (j + 1) <= Size
    BY <1>2, <1>7, <1>11, <1>n, SMTT(60)
  <2>3. reg'.LL = (Nibble - 1) + Ones * (j + 1 - 1)
    BY <1>2, <1>7, <1>11, Numbers
  <2>4. reg'.data = frame.coded[at + 1 + (j + 1)]
    BY <1>4, <2>2 DEF ByteAt
  <2>5. reg'.ML = Half(MatchLength(s)) /\ reg'.addr = from
    BY <1>2, <1>6, <1>8
  <2>6. AtLiteralsLength(s, at, from)'
    BY <1>5, <1>8, <2>1, <2>2, <2>3, <2>4, <2>5, SMTT(40) DEF AtLiteralsLength, In, ByteAt, Size
  <2> QED BY <2>6, <1>1, <1>2, <1>3 DEF Silent
<1>12. CASE /\ j = len /\ reg.data \in Nat /\ reg.data < Ones
            /\ (Nibble - 1) + Ones * (j - 1) + reg.data = s.literals
  <2>1. reg'.state = "S_Read_Literals"
    BY <1>2, <1>12, Numbers
  <2>2. reg'.total = Lits(s, at) + 0 + 1 /\ reg.total + 1 = reg'.total /\ 0 \in 0..s.literals
    BY <1>2, <1>7, <1>12, <1>n
  <2>3. reg'.LL = s.literals - 0 /\ reg'.addr = from + 0
    BY <1>2, <1>6, <1>7, <1>8, <1>12, <1>n, Numbers
  <2>4. reg'.total <= Size => reg'.data = frame.coded[reg'.total]
    BY <1>4, <2>2 DEF ByteAt
  <2>5. reg'.ML = Half(MatchLength(s))
    BY <1>2, <1>8
  <2>6. AtLiterals(s, at, from)'
    BY <2>1, <2>2, <2>3, <2>4, <2>5 DEF AtLiterals, In, Lits, Size
  <2> QED BY <2>6, <1>1, <1>2, <1>3 DEF Silent
<1> QED BY <1>10, <1>11, <1>12

(* What a match has behind its literals: the offset and the bytes of a length. *)
LEMMA BlockBytes ==
  ASSUME Fed, NEW s, NEW at, NEW from, Located(s, at, from), s.match # 0
  PROVE  /\ s.offset \in Nat /\ s.offset > 0 /\ s.offset % Byte \in 0..Byte - 1
         /\ s.offset \div Byte \in Nat
         /\ s.offset = Byte * (s.offset \div Byte) + (s.offset % Byte)
         /\ frame.coded[Offs(s, at) + 1] = s.offset % Byte
         /\ frame.coded[Offs(s, at) + 2] = s.offset \div Byte
         /\ \A j \in 1..Len(Length(MatchLength(s))) :
              frame.coded[Offs(s, at) + 2 + j] = Length(MatchLength(s))[j]
<1>1. IsMatch(frame, s, at, from)
  BY DEF Located
<1>2. s.offset \in Nat /\ s.offset > 0 /\ Byte \in Nat /\ Byte > 0
  BY <1>1, BlockNumbers, Numbers, SMTT(40) DEF IsMatch
<1>3. /\ s.offset % Byte \in 0..Byte - 1 /\ s.offset \div Byte \in Nat
      /\ s.offset = Byte * (s.offset \div Byte) + (s.offset % Byte)
  BY <1>2, DivDef
<1> QED BY <1>1, <1>2, <1>3 DEF IsMatch, Holds

(* The byte of the input that comes next, read or past the end. *)
LEMMA ReadsOn ==
  ASSUME Fed, Ready \/ Readed
  PROVE  reg.total + 1 <= Size => blocks[ReadAddr][Index + 1] = frame.coded[reg.total + 1]
<1>1. CASE Ready
  BY <1>1, ByteRead DEF ByteAt
<1>2. CASE Readed
  BY <1>2 DEF Readed, Fed, RegOK
<1> QED BY <1>1, <1>2

LEMMA LiteralsDoneSteps ==
  ASSUME Fed, frame' = frame, NEW s, NEW at, NEW from, Located(s, at, from),
         AtLiterals(s, at, from), LiteralsDone
  PROVE  AtOffset(s, at, from)' /\ Silent
<1>1. Full(reg) /\ ~pins.reset /\ (Ready \/ Readed) /\ reg.LL = 0
  BY DEF Fed, LiteralsDone
<1>2. /\ Rest(reg', reg, Inner) /\ reg'.total = reg.total + 1
      /\ reg'.LL = reg.LL /\ reg'.ML = reg.ML
      /\ reg'.state = "S_Read_Offset"
      /\ reg'.data = blocks[ReadAddr][Index + 1]
      /\ reg'.offset = (IF Readed THEN 0 ELSE reg.data) + Byte * (reg.offset \div Byte)
  BY <1>1 DEF LiteralsDone, NextWord, Held, Before, Full, Rest, Fields, Inner
<1>3. window' = window /\ out' = out
  BY <1>1 DEF LiteralsDone, NoOutput, Kept
<1>4. reg.total + 1 <= Size => reg'.data = frame.coded[reg.total + 1]
  BY <1>1, <1>2, ReadsOn
<1>5. /\ reg.offset \div Byte \in Nat /\ Byte * (reg.offset \div Byte) \in Nat
      /\ Byte \in Nat /\ Byte > 0 /\ 0 \in 0..Byte - 1
  <2>1. reg.offset \in Nat /\ Byte \in Nat /\ Byte > 0
    BY Numbers DEF Fed
  <2>2. reg.offset \div Byte \in Nat
    BY <2>1, DivDef
  <2> QED BY <2>1, <2>2
<1>6. reg'.addr = reg.addr
  BY <1>2 DEF Rest, Fields, Inner
<1>n. /\ at \in Nat /\ from \in Nat /\ s.literals \in Nat /\ s.match \in Nat
      /\ Size \in Nat /\ Len(Length(s.literals)) \in Nat
      /\ Lits(s, at) \in Nat /\ Offs(s, at) = Lits(s, at) + s.literals
      /\ Copies(s, from) = from + s.literals
      /\ Offs(s, at) <= Size /\ (s.match # 0 => Offs(s, at) + 2 < Size)
  BY BlockNumbers, SMTT(40)
<1>7. /\ reg.addr = Copies(s, from) /\ reg.total = Offs(s, at) + 1
      /\ reg.total <= Size => reg.data = frame.coded[reg.total]
      /\ reg.ML = Half(MatchLength(s))
  BY <1>1, <1>n DEF AtLiterals
<1>8. CASE s.match = 0
  <2>1. Readed /\ reg'.total >= Size
    BY <1>2, <1>7, <1>8, <1>n DEF Readed, Fed, Located, IsLast, Size
  <2>2. reg'.offset = Byte * (reg.offset \div Byte) + 0
    BY <1>2, <1>5, <2>1, Numbers
  <2>3. reg'.offset % Byte = 0
    BY <1>5, <2>2, DivUnique
  <2>4. AtOffset(s, at, from)'
    BY <1>1, <1>2, <1>6, <1>7, <1>8, <2>1, <2>3 DEF AtOffset, In, Size
  <2> QED BY <1>2, <1>3, <1>5, <2>2, <2>4, Numbers DEF Silent
<1>9. CASE s.match # 0
  <2>1. ~Readed /\ Offs(s, at) + 1 <= Size
    BY <1>7, <1>9, <1>n DEF Readed, Fed
  <2>2. reg.data = s.offset % Byte /\ s.offset % Byte \in 0..Byte - 1
    BY <1>7, <1>9, <2>1, BlockBytes
  <2>3. reg'.offset = Byte * (reg.offset \div Byte) + (s.offset % Byte)
    BY <1>2, <1>5, <2>1, <2>2, Numbers
  <2>4. reg'.offset % Byte = s.offset % Byte
    <3> DEFINE r == s.offset % Byte
               k == reg.offset \div Byte
    <3>1. r \in 0..Byte - 1 /\ reg'.offset = Byte * k + r /\ k \in Nat
      BY <1>5, <2>2, <2>3
    <3> HIDE DEF r, k
    <3>2. reg'.offset % Byte = r
      BY <1>5, <3>1, DivUnique
    <3> QED BY <3>2 DEF r
  <2>5. reg'.total = Offs(s, at) + 2 /\ reg.total + 1 = Offs(s, at) + 2 /\ Offs(s, at) + 2 <= Size
    BY <1>2, <1>7, <1>9, <1>n
  <2>6. reg'.data = frame.coded[Offs(s, at) + 2]
    BY <1>4, <2>5
  <2>7. AtOffset(s, at, from)'
    BY <1>1, <1>2, <1>6, <1>7, <1>9, <2>4, <2>5, <2>6 DEF AtOffset, In, Offs, Lits
  <2> QED BY <1>2, <1>3, <1>5, <2>2, <2>3, <2>7, Numbers DEF Silent
<1> QED BY <1>8, <1>9

LEMMA SilentPuts ==
  ASSUME Silent, OutOK, frame' = frame
  PROVE  PutsNext
<1>1. PICK a \in Nat, x \in 0..WordBytes - 1 : OutAt(a, x)
  BY DEF OutOK
<1>2. /\ reg'.addr = reg.addr /\ reg'.bytes = reg.bytes /\ reg'.window_data = reg.window_data
      /\ reg'.done = reg.done /\ Full(reg')
  BY DEF Silent, Rest, Fields, Inner
<1>3. window' = window /\ out' = out
  BY DEF Silent
<1>4. OutAt(a, x)'
  BY <1>1, <1>2, <1>3 DEF OutAt, Plain
<1> QED BY <1>1, <1>2, <1>4 DEF PutsNext, OutOK, Silent

(* The two ways to put the next bytes of the frame. *)
LEMMA BytePuts ==
  ASSUME OutOK, ~pins.reset, frame' = frame, NEW r, Full(r), r.bytes = reg.bytes,
         r.done = reg.done, r.offset \in Nat, reg.addr < Len(frame.plain), Len(frame.plain) \in Nat,
         PutByte(frame.plain[reg.addr + 1], r)
  PROVE  PutsNext /\ Rest(reg', r, Written) /\ reg'.addr = reg.addr + 1
<1>1. PICK a \in Nat, x \in 0..WordBytes - 1 : OutAt(a, x)
  BY DEF OutOK
<1>2. x \in Nat /\ x < WordBytes /\ WordBytes \in Nat /\ WordBytes > 0
  BY Numbers
<1>3. /\ Rest(reg', r, Written) /\ reg'.addr = reg.addr + 1
      /\ IF x = WordBytes - 1 THEN OutAt(a + 1, 0)' ELSE OutAt(a, x + 1)'
  BY <1>1, <1>2, PutByteOut
<1>4. OutOK'
  <2>1. CASE x = WordBytes - 1
    BY <1>2, <1>3, <2>1 DEF OutOK
  <2>2. CASE x # WordBytes - 1
    BY <1>2, <1>3, <2>2 DEF OutOK
  <2> QED BY <2>1, <2>2
<1>5. Full(reg') /\ reg'.offset = r.offset /\ reg'.done = r.done
  BY <1>3 DEF Rest, Fields, Written
<1> QED BY <1>3, <1>4, <1>5 DEF PutsNext

LEMMA LongPuts ==
  ASSUME OutOK, ~pins.reset, frame' = frame, NEW r, Full(r),
         r.done = reg.done, r.offset \in Nat, reg.addr + WordBytes <= Len(frame.plain),
         Len(frame.plain) \in Nat, PutLong(Plain(reg.addr), r)
  PROVE  PutsNext /\ Rest(reg', r, Written) /\ reg'.addr = reg.addr + WordBytes
<1>1. PICK a \in Nat, x \in 0..WordBytes - 1 : OutAt(a, x)
  BY DEF OutOK
<1>2. x \in Nat /\ x < WordBytes /\ WordBytes \in Nat /\ WordBytes > 0
  BY Numbers
<1>3. /\ Rest(reg', r, Written) /\ reg'.addr = reg.addr + WordBytes /\ OutAt(a + 1, x)'
  BY <1>1, <1>2, PutLongOut
<1>4. OutOK'
  <2>1. a + 1 \in Nat /\ x \in 0..WordBytes - 1
    OBVIOUS
  <2> QED BY <1>3, <2>1 DEF OutOK
<1>5. Full(reg') /\ reg'.offset = r.offset /\ reg'.done = r.done
  BY <1>3 DEF Rest, Fields, Written
<1> QED BY <1>3, <1>4, <1>5 DEF PutsNext

LEMMA AddrNat ==
  ASSUME OutOK
  PROVE  reg.addr \in Nat
<1>1. PICK a \in Nat, x \in 0..WordBytes - 1 : OutAt(a, x)
  BY DEF OutOK
<1>2. x \in Nat /\ x < WordBytes
  BY Numbers
<1> QED BY <1>1, <1>2, WordBounds DEF OutAt

LEMMA LiteralsSteps ==
  ASSUME Fed, OutOK, frame' = frame, NEW s, NEW at, NEW from, Located(s, at, from),
         AtLiterals(s, at, from), ReadLiterals
  PROVE  (AtLiterals(s, at, from)' \/ AtLiterals64(s, at, from)') /\ PutsNext
<1> DEFINE put  == [Held EXCEPT !.LL = reg.LL - 1, !.LL_W = reg.LL_W + 1]
           read == IF LiteralsByWord THEN NextLong([put EXCEPT !.state = "S_Read_Literals_64"])
                                     ELSE NextWord(put)
<1>1. /\ Full(reg) /\ ~pins.reset /\ (Ready \/ Readed) /\ reg.LL # 0 /\ reg.offset \in Nat
      /\ PutByte(reg.data, read)
  BY DEF Fed, ReadLiterals
<1>2. /\ Full(put) /\ put.LL = reg.LL - 1 /\ put.ML = reg.ML /\ put.bytes = reg.bytes
      /\ put.done = reg.done /\ put.offset = reg.offset /\ put.state = reg.state
  BY <1>1 DEF Held, Before, Full, Fields
<1> HIDE DEF put
<1>3. /\ Full(read) /\ read.LL = reg.LL - 1 /\ read.ML = reg.ML /\ read.bytes = reg.bytes
      /\ read.done = reg.done /\ read.offset = reg.offset
      /\ LiteralsByWord => /\ read.state = "S_Read_Literals_64" /\ read.total = reg.total + WordBytes
                           /\ read.data_64 = blocks[ReadAddr]
      /\ ~LiteralsByWord => /\ read.state = reg.state /\ read.total = reg.total + 1
                            /\ read.data = blocks[ReadAddr][Index + 1]
  BY <1>2 DEF NextLong, NextWord, Full, Fields
<1> HIDE DEF read
<1>n. /\ at \in Nat /\ from \in Nat /\ s.literals \in Nat /\ s.match \in Nat
      /\ Size \in Nat /\ Lits(s, at) \in Nat
      /\ Lits(s, at) + s.literals <= Size
      /\ Len(frame.plain) \in Nat /\ from + s.literals + s.match <= Len(frame.plain)
      /\ WordBytes \in Nat /\ WordBytes > 0 /\ reg.total \in Nat
  BY BlockNumbers, Numbers, SMTT(40)
<1>4. PICK i \in 0..s.literals :
       /\ reg.LL = s.literals - i /\ reg.addr = from + i /\ reg.total = Lits(s, at) + i + 1
       /\ reg.total <= Size => reg.data = frame.coded[reg.total]
  BY DEF AtLiterals
<1>5. In("S_Read_Literals") /\ reg.ML = Half(MatchLength(s))
  BY DEF AtLiterals
<1>6. i < s.literals /\ reg.total <= Size /\ i + 1 \in 1..s.literals /\ i + 1 \in 0..s.literals
      /\ reg.total = Lits(s, at) + (i + 1)
      /\ reg.addr + 1 = from + (i + 1) /\ reg.addr < Len(frame.plain)
      /\ reg.LL - 1 = s.literals - (i + 1)
  <2>1. i \in Nat /\ i <= s.literals
    BY <1>n
  <2>2. i # s.literals
    BY <1>1, <1>4, <1>n
  <2>3. i < s.literals /\ i + 1 \in 1..s.literals /\ i + 1 \in 0..s.literals
    BY <2>1, <2>2, <1>n
  <2>4. reg.total = Lits(s, at) + (i + 1) /\ reg.total <= Size
    BY <1>4, <2>1, <2>3, <1>n, SMTT(40)
  <2>5. reg.addr + 1 = from + (i + 1) /\ reg.addr < Len(frame.plain)
    BY <1>4, <2>1, <2>3, <1>n, SMTT(40)
  <2>6. reg.LL - 1 = s.literals - (i + 1)
    BY <1>4, <2>1, <1>n, SMTT(40)
  <2> QED BY <2>3, <2>4, <2>5, <2>6
<1>7. \A k \in 1..s.literals : frame.coded[Lits(s, at) + k] = frame.plain[from + k]
  BY DEF Located, IsBlock
<1>8. reg.data = frame.plain[reg.addr + 1]
  BY <1>4, <1>6, <1>7
<1>9. PutsNext /\ Rest(reg', read, Written) /\ reg'.addr = reg.addr + 1
  BY <1>1, <1>3, <1>6, <1>8, <1>n, BytePuts
<1>10. /\ reg'.LL = read.LL /\ reg'.ML = read.ML /\ reg'.state = read.state
       /\ reg'.total = read.total /\ reg'.data = read.data /\ reg'.data_64 = read.data_64
  BY <1>9 DEF Rest, Fields, Written
<1>11. CASE ~LiteralsByWord
  <2>1. reg.total + 1 <= Size => blocks[ReadAddr][Index + 1] = frame.coded[reg.total + 1]
    BY <1>1, ReadsOn
  <2>2. /\ reg'.total = Lits(s, at) + (i + 1) + 1 /\ reg'.total = reg.total + 1
        /\ reg'.data = blocks[ReadAddr][Index + 1]
        /\ reg'.state = "S_Read_Literals" /\ reg'.LL = s.literals - (i + 1)
        /\ reg'.addr = from + (i + 1) /\ reg'.ML = Half(MatchLength(s))
    BY <1>3, <1>5, <1>6, <1>9, <1>10, <1>11 DEF In
  <2>3. reg'.total <= Size => reg'.data = frame.coded[reg'.total]
    BY <2>1, <2>2
  <2>4. AtLiterals(s, at, from)'
    BY <1>6, <2>2, <2>3 DEF AtLiterals, In, Lits, Size
  <2> QED BY <1>9, <2>4
<1>12. CASE LiteralsByWord
  <2>1. Ready64 /\ reg.LL > WordBytes /\ Index = 0
    BY <1>12 DEF LiteralsByWord
  <2>2. Ready
    <3>1. block_write_total \in Nat
      BY <1>n DEF Fed
    <3> QED BY <2>1, <3>1, <1>n DEF Ready, Ready64
  <2>3. i + 1 \in 0..s.literals - WordBytes
    <3>1. i \in Nat /\ s.literals - i > WordBytes
      BY <2>1, <1>4, <1>n
    <3> QED BY <3>1, <1>n
  <2>4. /\ reg'.total = Lits(s, at) + (i + 1) + WordBytes
        /\ reg'.data_64 = blocks[ReadAddr]
        /\ reg'.state = "S_Read_Literals_64" /\ reg'.LL = s.literals - (i + 1)
        /\ reg'.addr = from + (i + 1) /\ reg'.ML = Half(MatchLength(s))
    BY <1>3, <1>5, <1>6, <1>9, <1>10, <1>12
  <2>5. reg'.data_64 = Plain(from + (i + 1))
    <3>1. blocks[ReadAddr] = [k \in 1..WordBytes |-> ByteAt(reg.total + k)]
      BY <2>1, <2>2, WordRead
    <3>2. ASSUME NEW k \in 1..WordBytes
          PROVE  ByteAt(reg.total + k) = frame.plain[from + (i + 1) + k]
      <4>1. /\ (i + 1) + k \in 1..s.literals /\ reg.total + k = Lits(s, at) + ((i + 1) + k)
            /\ reg.total + k <= Size /\ from + (i + 1) + k = from + ((i + 1) + k)
        <5>1. /\ i \in Nat /\ i + 1 <= s.literals - WordBytes /\ k \in Nat /\ 1 <= k /\ k <= WordBytes
          BY <2>3, <1>n
        <5>2. (i + 1) + k \in 1..s.literals
          BY <5>1, <1>n
        <5>3. reg.total + k = Lits(s, at) + ((i + 1) + k) /\ reg.total + k <= Size
          <6>1. reg.total = Lits(s, at) + (i + 1) /\ Lits(s, at) \in Nat /\ Lits(s, at) + s.literals <= Size
            BY <1>6, <1>n
          <6>2. reg.total + k = Lits(s, at) + ((i + 1) + k)
            BY <5>1, <6>1
          <6>3. (i + 1) + k <= s.literals /\ s.literals \in Nat /\ Size \in Nat
            BY <5>2, <1>n
          <6> QED BY <5>1, <6>1, <6>2, <6>3
        <5>4. from + (i + 1) + k = from + ((i + 1) + k)
          BY <5>1, <1>n
        <5> QED BY <5>2, <5>3, <5>4
      <4> QED BY <4>1, <1>7 DEF ByteAt
    <3> QED BY <2>4, <3>1, <3>2 DEF Plain
  <2>6. reg'.total % WordBytes = 0
    <3>1. reg.total % WordBytes = 0 /\ reg'.total = reg.total + WordBytes
      BY <2>1, <1>3, <1>10, <1>12 DEF Index
    <3> QED BY <3>1, <1>n, NextMultiple
  <2>7. AtLiterals64(s, at, from)'
    BY <2>3, <2>4, <2>5, <2>6 DEF AtLiterals64, In, Lits, Index, Plain
  <2> QED BY <1>9, <2>7
<1> QED BY <1>11, <1>12

LEMMA Literals64Steps ==
  ASSUME Fed, OutOK, frame' = frame, NEW s, NEW at, NEW from, Located(s, at, from),
         AtLiterals64(s, at, from), ReadLiterals64
  PROVE  (AtLiterals(s, at, from)' \/ AtLiterals64(s, at, from)') /\ PutsNext
<1> DEFINE put  == [Held EXCEPT !.LL = reg.LL - WordBytes, !.LL_W = reg.LL_W + WordBytes]
           more == Ready64 /\ reg.LL >= 2 * WordBytes
           read == IF more THEN NextLong(put) ELSE NextWord([put EXCEPT !.state = "S_Read_Literals"])
<1>1. /\ Full(reg) /\ ~pins.reset /\ (Ready \/ Readed) /\ reg.offset \in Nat
      /\ PutLong(reg.data_64, read)
  BY DEF Fed, ReadLiterals64
<1>2. /\ Full(put) /\ put.LL = reg.LL - WordBytes /\ put.ML = reg.ML
      /\ put.done = reg.done /\ put.offset = reg.offset /\ put.state = reg.state
  BY <1>1 DEF Held, Before, Full, Fields
<1> HIDE DEF put, more
<1>3. /\ Full(read) /\ read.LL = reg.LL - WordBytes /\ read.ML = reg.ML
      /\ read.done = reg.done /\ read.offset = reg.offset
      /\ more => /\ read.state = reg.state /\ read.total = reg.total + WordBytes
                 /\ read.data_64 = blocks[ReadAddr]
      /\ ~more => /\ read.state = "S_Read_Literals" /\ read.total = reg.total + 1
                  /\ read.data = blocks[ReadAddr][Index + 1]
  BY <1>2 DEF NextLong, NextWord, Full, Fields
<1> HIDE DEF read
<1>n. /\ at \in Nat /\ from \in Nat /\ s.literals \in Nat /\ s.match \in Nat
      /\ Size \in Nat /\ Lits(s, at) \in Nat
      /\ Lits(s, at) + s.literals <= Size
      /\ Len(frame.plain) \in Nat /\ from + s.literals + s.match <= Len(frame.plain)
      /\ WordBytes \in Nat /\ WordBytes > 0 /\ reg.total \in Nat
  BY BlockNumbers, Numbers, SMTT(40)
<1>4. PICK i \in 0..s.literals - WordBytes :
       /\ reg.LL = s.literals - i /\ reg.addr = from + i
       /\ reg.total = Lits(s, at) + i + WordBytes /\ Index = 0 /\ reg.data_64 = Plain(from + i)
  BY DEF AtLiterals64
<1>5. In("S_Read_Literals_64") /\ reg.ML = Half(MatchLength(s))
  BY DEF AtLiterals64
<1> DEFINE m == i + WordBytes
<1>6. i \in Nat /\ i + WordBytes <= s.literals /\ m = i + WordBytes /\ m \in 0..s.literals
  BY <1>n
<1> HIDE DEF m
<1>7. /\ reg.total = Lits(s, at) + m /\ reg.addr + WordBytes = from + m
      /\ reg.LL - WordBytes = s.literals - m
  BY <1>4, <1>6, <1>n, SMTT(40)
<1>8. reg.addr + WordBytes <= Len(frame.plain)
  <2>1. m \in Nat /\ m <= s.literals
    BY <1>6, <1>n
  <2>2. from + m <= from + s.literals + s.match
    BY <2>1, <1>n, SMTT(40)
  <2>3. reg.addr + WordBytes = from + m
    BY <1>7
  <2>4. from + m \in Nat /\ from + s.literals + s.match \in Nat
    BY <2>1, <1>n, SMTT(40)
  <2> QED BY <2>2, <2>3, <2>4, <1>n
<1>9. PutsNext /\ Rest(reg', read, Written) /\ reg'.addr = reg.addr + WordBytes
  BY <1>1, <1>3, <1>4, <1>8, <1>n, LongPuts
<1>10. /\ reg'.LL = read.LL /\ reg'.ML = read.ML /\ reg'.state = read.state
       /\ reg'.total = read.total /\ reg'.data = read.data /\ reg'.data_64 = read.data_64
  BY <1>9 DEF Rest, Fields, Written
<1>l. \A k \in 1..s.literals : frame.coded[Lits(s, at) + k] = frame.plain[from + k]
  BY DEF Located, IsBlock
<1>11. CASE ~more
  <2>1. reg.total + 1 <= Size => blocks[ReadAddr][Index + 1] = frame.coded[reg.total + 1]
    BY <1>1, ReadsOn
  <2>2. /\ reg'.total = Lits(s, at) + m + 1 /\ reg'.total = reg.total + 1
        /\ reg'.data = blocks[ReadAddr][Index + 1]
        /\ reg'.state = "S_Read_Literals" /\ reg'.LL = s.literals - m
        /\ reg'.addr = from + m /\ reg'.ML = Half(MatchLength(s))
    BY <1>3, <1>5, <1>7, <1>9, <1>10, <1>11 DEF In
  <2>3. reg'.total <= Size => reg'.data = frame.coded[reg'.total]
    BY <2>1, <2>2
  <2>4. AtLiterals(s, at, from)'
    BY <1>6, <2>2, <2>3 DEF AtLiterals, In, Lits, Size
  <2> QED BY <1>9, <2>4
<1>12. CASE more
  <2>1. Ready64 /\ reg.LL >= 2 * WordBytes /\ Index = 0
    BY <1>4, <1>12 DEF more
  <2>2. Ready
    <3>1. block_write_total \in Nat
      BY <1>n DEF Fed
    <3> QED BY <2>1, <3>1, <1>n DEF Ready, Ready64
  <2>3. m \in 0..s.literals - WordBytes /\ m \in Nat /\ m + WordBytes <= s.literals
    <3>1. s.literals - i >= 2 * WordBytes
      BY <2>1, <1>4
    <3> QED BY <3>1, <1>6, <1>n, SMTT(60)
  <2>4. /\ reg'.total = Lits(s, at) + m + WordBytes
        /\ reg'.data_64 = blocks[ReadAddr]
        /\ reg'.state = "S_Read_Literals_64" /\ reg'.LL = s.literals - m
        /\ reg'.addr = from + m /\ reg'.ML = Half(MatchLength(s))
    BY <1>3, <1>5, <1>7, <1>9, <1>10, <1>12 DEF In
  <2>5. reg'.data_64 = Plain(from + m)
    <3>1. blocks[ReadAddr] = [k \in 1..WordBytes |-> ByteAt(reg.total + k)]
      BY <2>1, <2>2, WordRead
    <3>2. ASSUME NEW k \in 1..WordBytes
          PROVE  ByteAt(reg.total + k) = frame.plain[from + m + k]
      <4>1. m + k \in 1..s.literals
        BY <2>3, <1>n
      <4>2. reg.total + k = Lits(s, at) + (m + k) /\ from + m + k = from + (m + k)
        BY <2>3, <1>7, <1>n
      <4>3. reg.total + k <= Size
        BY <4>1, <4>2, <1>n, SMTT(40)
      <4> QED BY <4>1, <4>2, <4>3, <1>l DEF ByteAt
    <3> QED BY <2>4, <3>1, <3>2 DEF Plain
  <2>6. reg'.total % WordBytes = 0
    <3>1. reg.total % WordBytes = 0 /\ reg'.total = reg.total + WordBytes
      BY <2>1, <1>3, <1>10, <1>12 DEF Index
    <3> QED BY <3>1, <1>n, NextMultiple
  <2>7. AtLiterals64(s, at, from)'
    BY <2>3, <2>4, <2>5, <2>6 DEF AtLiterals64, In, Lits, Index, Plain
  <2> QED BY <1>9, <2>7
<1> QED BY <1>11, <1>12

LEMMA OffsetSteps ==
  ASSUME Fed, frame' = frame, NEW s, NEW at, NEW from, Located(s, at, from),
         AtOffset(s, at, from), ReadOffset
  PROVE  AtMatchOffset(s, at, from)' /\ Silent
<1>1. Full(reg) /\ ~pins.reset /\ reg.offset \in Nat
  BY DEF Fed
<1>2. /\ Rest(reg', reg, Inner) /\ reg'.total = reg.total /\ reg'.addr = reg.addr
      /\ reg'.LL = reg.LL /\ reg'.ML = reg.ML /\ reg'.state = "S_Read_Match_Offset"
      /\ reg'.offset = (reg.offset % Byte) + IF Readed THEN 0 ELSE Byte * reg.data
  BY <1>1 DEF ReadOffset, Held, Before, Full, Rest, Fields, Inner
<1>3. window' = window /\ out' = out
  BY <1>1 DEF ReadOffset, NoOutput, Kept
<1>n. /\ Size \in Nat /\ Offs(s, at) \in Nat /\ (s.match # 0 => Offs(s, at) + 2 < Size)
  <2>1. /\ Size \in Nat /\ Offs(s, at) \in Nat /\ Len(Length(MatchLength(s))) \in Nat
        /\ s.match # 0 => Offs(s, at) + 2 + Len(Length(MatchLength(s))) < Size
    BY BlockNumbers
  <2> QED BY <2>1
<1>4. reg.ML = Half(MatchLength(s)) /\ reg.LL = 0 /\ reg.addr = Copies(s, from)
  BY DEF AtOffset
<1>5. CASE s.match = 0
  <2>1. reg.total >= Size /\ reg.offset % Byte = 0 /\ Readed
    BY <1>5 DEF AtOffset, Readed, Fed
  <2>2. reg'.offset = 0
    BY <1>2, <2>1
  <2>3. AtMatchOffset(s, at, from)'
    BY <1>2, <1>4, <1>5, <2>1, <2>2 DEF AtMatchOffset, In, Size
  <2> QED BY <1>2, <1>3, <2>2, <2>3 DEF Silent
<1>6. CASE s.match # 0
  <2>1. /\ reg.total = Offs(s, at) + 2 /\ reg.data = frame.coded[Offs(s, at) + 2]
        /\ reg.offset % Byte = s.offset % Byte
    BY <1>6 DEF AtOffset
  <2>2. ~Readed
    BY <2>1, <1>6, <1>n DEF Readed, Fed
  <2>3. reg.data = s.offset \div Byte /\ s.offset = Byte * (s.offset \div Byte) + (s.offset % Byte)
        /\ s.offset \in Nat
    BY <2>1, <1>6, BlockBytes
  <2>4. reg'.offset = (s.offset % Byte) + Byte * (s.offset \div Byte)
    BY <1>2, <2>1, <2>2, <2>3
  <2>5. reg'.offset = s.offset
    <3>1. s.offset % Byte \in 0..Byte - 1 /\ s.offset \div Byte \in Nat /\ Byte \in Nat
      BY <1>6, BlockBytes, Numbers
    <3> QED BY <2>3, <2>4, <3>1
  <2>6. AtMatchOffset(s, at, from)'
    BY <1>2, <1>4, <1>6, <2>1, <2>5 DEF AtMatchOffset, In, Offs, Lits
  <2> QED BY <1>2, <1>3, <2>3, <2>5, <2>6 DEF Silent
<1> QED BY <1>5, <1>6

LEMMA CopyFromSets ==
  ASSUME Full(reg), ~pins.reset, NEW l, CopyFrom(l)
  PROVE  /\ Rest(reg', reg, Inner) /\ reg'.state = "S_Copy_Matches" /\ reg'.ML = l + MinMatch
         /\ reg'.MP = reg.addr - reg.offset /\ reg'.total = reg.total
         /\ reg'.addr = reg.addr /\ reg'.offset = reg.offset
BY DEF CopyFrom, Held, Before, Full, Rest, Fields, Inner

(* The copy of a match begins. *)
LEMMA CopyBegins ==
  ASSUME Fed, frame' = frame, NEW s, NEW at, NEW from, Located(s, at, from), s.match # 0,
         NEW l, CopyFrom(l), l = MatchLength(s), reg.total = After(s, at),
         reg.offset = s.offset, reg.addr = Copies(s, from), NoOutput
  PROVE  AtCopy(s, at, from)' /\ Silent
<1>1. Full(reg) /\ ~pins.reset /\ reg.offset \in Nat
  BY DEF Fed
<1>2. /\ Rest(reg', reg, Inner) /\ reg'.state = "S_Copy_Matches" /\ reg'.ML = l + MinMatch
      /\ reg'.MP = reg.addr - reg.offset /\ reg'.total = reg.total
      /\ reg'.addr = reg.addr /\ reg'.offset = reg.offset
  BY <1>1, CopyFromSets
<1>3. s.match >= MinMatch /\ s.match \in Nat /\ MatchLength(s) = s.match - MinMatch
  BY BlockNumbers DEF Located, IsMatch, MatchLength
<1>4. /\ reg'.ML = s.match - 0 /\ 0 \in 0..s.match - 1
  BY <1>2, <1>3, Numbers
<1>5. Copies(s, from) = Copies(s, from) + 0
  BY BlockNumbers
<1>6. AtCopy(s, at, from)'
  BY <1>2, <1>4, <1>5 DEF AtCopy, In, After, Offs, Lits
<1>7. window' = window /\ out' = out
  BY <1>1 DEF NoOutput, Kept
<1> QED BY <1>1, <1>2, <1>6, <1>7 DEF Silent

LEMMA MatchOffsetSteps ==
  ASSUME Fed, frame' = frame, NEW s, NEW at, NEW from, Located(s, at, from),
         AtMatchOffset(s, at, from), ReadMatchOffset
  PROVE  /\ Silent
         /\ \/ LastCopied(s, from)'
            \/ AtMatchLength(s, at, from)' \/ AtCopy(s, at, from)'
<1>1. Full(reg) /\ ~pins.reset /\ reg.offset \in Nat
  BY DEF Fed
<1>3. window' = window /\ out' = out
  BY <1>1 DEF ReadMatchOffset, NoOutput, Kept
<1>n. /\ Size \in Nat /\ Offs(s, at) \in Nat /\ MatchLength(s) \in Nat /\ reg.total \in Nat
      /\ Len(Length(MatchLength(s))) \in Nat
      /\ After(s, at) = Offs(s, at) + 2 + Len(Length(MatchLength(s)))
      /\ s.match # 0 => After(s, at) < Size
  BY BlockNumbers, SMTT(40)
<1>4. reg.ML = Half(MatchLength(s)) /\ reg.LL = 0 /\ reg.addr = Copies(s, from)
  BY DEF AtMatchOffset
<1>5. CASE s.match = 0
  <2>1. reg.total >= Size /\ reg.offset = 0 /\ LastBlock
    BY <1>5 DEF AtMatchOffset, LastBlock, Readed, Fed
  <2>2. reg.ML = 0
    BY <1>4, <1>5, Numbers DEF MatchLength, Half
  <2>3. reg' = [Held EXCEPT !.state = "S_Done"]
    BY <2>1 DEF ReadMatchOffset
  <2>4. /\ Rest(reg', reg, Inner) /\ reg'.state = "S_Done" /\ reg'.ML = reg.ML /\ reg'.LL = reg.LL
        /\ reg'.offset = reg.offset /\ reg'.total = reg.total /\ reg'.addr = reg.addr
    BY <1>1, <2>3 DEF Held, Before, Full, Rest, Fields, Inner
  <2>5. LastCopied(s, from)'
    BY <1>4, <1>5, <2>1, <2>2, <2>4 DEF LastCopied, Copies, In, Ended, Size
  <2> QED BY <1>1, <1>3, <2>4, <2>5 DEF Silent
<1>6. CASE s.match # 0
  <2>1. reg.total = Offs(s, at) + 2 /\ reg.offset = s.offset
    BY <1>6 DEF AtMatchOffset
  <2>2. ~Readed
    BY <2>1, <1>6, <1>n DEF Readed, Fed
  <2>3. ~LastBlock
    BY <2>1, <2>2, <1>6, BlockBytes DEF LastBlock
  <2>4. CASE MatchLength(s) < Nibble - 1
    <3>1. Len(Length(MatchLength(s))) = 0 /\ Half(MatchLength(s)) = MatchLength(s)
      BY <2>4, <1>n, LengthBytes
    <3>2. CopyFrom(reg.ML)
      BY <2>3, <2>4, <3>1, <1>4, <1>n, Numbers DEF ReadMatchOffset
    <3>3. reg.total = After(s, at)
      BY <2>1, <3>1, <1>n
    <3>4. NoOutput
      BY DEF ReadMatchOffset
    <3> QED BY <1>4, <1>6, <2>1, <3>1, <3>2, <3>3, <3>4, CopyBegins
  <2>5. CASE MatchLength(s) >= Nibble - 1
    <3>1. Len(Length(MatchLength(s))) > 0 /\ Half(MatchLength(s)) = Nibble - 1
      BY <2>5, <1>n, LengthBytes
    <3>2. Ready /\ reg' = NextWord([Held EXCEPT !.state = "S_Read_Match_Length"])
      BY <2>3, <3>1, <1>4, Numbers DEF ReadMatchOffset
    <3>3. /\ Rest(reg', reg, Inner) /\ reg'.state = "S_Read_Match_Length" /\ reg'.ML = reg.ML
          /\ reg'.offset = reg.offset /\ reg'.total = reg.total + 1 /\ reg'.addr = reg.addr
          /\ reg'.data = blocks[ReadAddr][Index + 1]
      BY <1>1, <3>2 DEF NextWord, Held, Before, Full, Rest, Fields, Inner
    <3>4. /\ reg'.total = Offs(s, at) + 2 + 1 /\ reg.total + 1 = Offs(s, at) + 2 + 1
          /\ Offs(s, at) + 2 + 1 <= Size /\ 1 \in 1..Len(Length(MatchLength(s)))
      BY <2>1, <3>1, <3>3, <1>6, <1>n
    <3>5. reg'.data = frame.coded[Offs(s, at) + 2 + 1]
      BY <3>2, <3>3, <3>4, ByteRead DEF ByteAt
    <3>6. reg'.ML = (Nibble - 1) + Ones * (1 - 1)
      BY <1>4, <3>1, <3>3, Numbers
    <3>7. AtMatchLength(s, at, from)'
      BY <1>4, <1>6, <2>1, <2>5, <3>3, <3>4, <3>5, <3>6 DEF AtMatchLength, In, Offs, Lits
    <3> QED BY <1>1, <1>3, <3>3, <3>7 DEF Silent
  <2> QED BY <2>4, <2>5, <1>n, Numbers
<1> QED BY <1>5, <1>6

LEMMA MatchLengthSteps ==
  ASSUME Fed, frame' = frame, NEW s, NEW at, NEW from, Located(s, at, from),
         AtMatchLength(s, at, from), ReadMatchLength
  PROVE  Silent /\ (AtMatchLength(s, at, from)' \/ AtCopy(s, at, from)')
<1>1. Full(reg) /\ ~pins.reset /\ reg.offset \in Nat
  BY DEF Fed
<1>3. window' = window /\ out' = out
  BY <1>1 DEF ReadMatchLength, NoOutput, Kept
<1> DEFINE len == Len(Length(MatchLength(s)))
<1>n. /\ Size \in Nat /\ Offs(s, at) \in Nat /\ MatchLength(s) \in Nat /\ reg.total \in Nat
      /\ len \in Nat /\ After(s, at) = Offs(s, at) + 2 + len
      /\ s.match # 0 => After(s, at) < Size
  BY BlockNumbers, SMTT(40)
<1>4. /\ In("S_Read_Match_Length") /\ s.match # 0 /\ MatchLength(s) >= Nibble - 1
      /\ reg.addr = Copies(s, from) /\ reg.offset = s.offset
  BY DEF AtMatchLength
<1>5. PICK j \in 1..len :
        /\ reg.total = Offs(s, at) + 2 + j /\ reg.data = frame.coded[Offs(s, at) + 2 + j]
        /\ reg.ML = (Nibble - 1) + Ones * (j - 1)
  BY DEF AtMatchLength
<1>6. reg.data = Length(MatchLength(s))[j]
  BY <1>4, <1>5, BlockBytes
<1>7. \/ j < len /\ reg.data = Ones
      \/ /\ j = len /\ reg.data \in Nat /\ reg.data < Ones
         /\ (Nibble - 1) + Ones * (j - 1) + reg.data = MatchLength(s)
  BY <1>4, <1>6, <1>n, LengthBytes, ZenonT(60)
<1>8. CASE j < len /\ reg.data = Ones
  <2>1. Ready /\ reg' = NextWord([Held EXCEPT !.ML = reg.ML + reg.data])
    BY <1>8, Numbers DEF ReadMatchLength
  <2>2. /\ Rest(reg', reg, Inner) /\ reg'.state = reg.state /\ reg'.ML = reg.ML + reg.data
        /\ reg'.offset = reg.offset /\ reg'.total = reg.total + 1 /\ reg'.addr = reg.addr
        /\ reg'.data = blocks[ReadAddr][Index + 1]
    BY <1>1, <2>1 DEF NextWord, Held, Before, Full, Rest, Fields, Inner
  <2>3. /\ reg'.total = Offs(s, at) + 2 + (j + 1) /\ reg.total + 1 = Offs(s, at) + 2 + (j + 1)
        /\ Offs(s, at) + 2 + (j + 1) <= Size /\ j + 1 \in 1..len
    <3> HIDE DEF len
    <3>1. j \in Nat /\ j + 1 <= len /\ j + 1 \in 1..len
      BY <1>8, <1>n
    <3>2. reg.total + 1 = Offs(s, at) + 2 + (j + 1)
      BY <1>5, <3>1, <1>n
    <3>3. Offs(s, at) + 2 + (j + 1) <= Size
      BY <1>4, <3>1, <1>n
    <3> QED BY <2>2, <3>1, <3>2, <3>3
  <2>4. reg'.data = frame.coded[Offs(s, at) + 2 + (j + 1)]
    BY <2>1, <2>2, <2>3, ByteRead DEF ByteAt
  <2>5. reg'.ML = (Nibble - 1) + Ones * (j + 1 - 1)
    BY <1>5, <1>8, <2>2, Numbers
  <2>6. AtMatchLength(s, at, from)'
    BY <1>4, <2>2, <2>3, <2>4, <2>5 DEF AtMatchLength, In, Offs, Lits
  <2> QED BY <1>1, <1>3, <2>2, <2>6 DEF Silent
<1>9. CASE /\ j = len /\ reg.data \in Nat /\ reg.data < Ones
           /\ (Nibble - 1) + Ones * (j - 1) + reg.data = MatchLength(s)
  <2>1. CopyFrom(reg.ML + reg.data)
    BY <1>9, Numbers, SMTT(40) DEF ReadMatchLength
  <2>2. reg.ML + reg.data = MatchLength(s) /\ reg.total = After(s, at)
    BY <1>5, <1>9, <1>n
  <2>3. NoOutput
    BY DEF ReadMatchLength
  <2> QED BY <1>4, <2>1, <2>2, <2>3, CopyBegins
<1> QED BY <1>7, <1>8, <1>9
-----------------------------------------------------------------------------
(* The copy of a match.                                                       *)

LEMMA ModAdd ==
  ASSUME NEW w \in Nat, w > 0, NEW c \in Nat, NEW n \in Nat
  PROVE  (w * c + n) % w = n % w
<1> DEFINE q == n \div w
           r == n % w
<1>1. q \in Nat /\ r \in 0..w-1 /\ n = w * q + r
  BY DivDef
<1> HIDE DEF q, r
<1>2. w * c + n = w * (c + q) + r /\ c + q \in Nat
  BY <1>1
<1>3. (w * (c + q) + r) % w = r
  BY <1>1, <1>2, DivUnique
<1> QED BY <1>2, <1>3 DEF r

LEMMA ModStep ==
  ASSUME NEW w \in Nat, w > 0, NEW n \in Nat
  PROVE  (n + 1) % w <= (n % w) + 1
<1> DEFINE q == n \div w
           r == n % w
<1>1. q \in Nat /\ r \in 0..w-1 /\ n = w * q + r
  BY DivDef
<1> HIDE DEF q, r
<1>2. CASE r + 1 < w
  <2>1. n + 1 = w * q + (r + 1) /\ r + 1 \in 0..w-1
    BY <1>1, <1>2
  <2>2. (n + 1) % w = r + 1
    BY <1>1, <2>1, DivUnique
  <2> QED BY <1>1, <2>2 DEF r
<1>3. CASE r + 1 = w
  <2>1. n + 1 = w * (q + 1) + 0 /\ 0 \in 0..w-1 /\ q + 1 \in Nat
    BY <1>1, <1>3
  <2>2. (n + 1) % w = 0
    BY <2>1, DivUnique
  <2>3. r \in Nat
    BY <1>1
  <2> QED BY <2>2, <2>3 DEF r
<1> QED BY <1>1, <1>2, <1>3

(* A match repeats the bytes offset before it, however often: byte m of it is  *)
(* byte p, a number of offsets back, p at worst the first of those before it.  *)
LEMMA Period ==
  ASSUME Fed, NEW s, NEW at, NEW from, Located(s, at, from), s.match # 0,
         NEW m \in 1..s.match, NEW c \in Nat, NEW p \in Int,
         m = s.offset * c + p, p > -s.offset
  PROVE  frame.plain[Copies(s, from) + m] = frame.plain[Copies(s, from) + p]
<1> DEFINE q == Copies(s, from)
           off == s.offset
           ml == s.match
<1>1. /\ q \in Nat /\ off \in Nat /\ off > 0 /\ ml \in Nat
      /\ \A k \in 1..ml : frame.plain[q + k] = frame.plain[q - off + 1 + ((k - 1) % off)]
      /\ m \in 1..ml /\ m = off * c + p /\ p > -off
  <2>1. q \in Nat /\ ml \in Nat
    BY BlockNumbers, SMTT(40)
  <2>2. off \in Nat /\ off > 0
    BY BlockBytes
  <2>3. \A k \in 1..ml : frame.plain[q + k] = frame.plain[q - off + 1 + ((k - 1) % off)]
    BY DEF Located, IsMatch
  <2> QED BY <2>1, <2>2, <2>3
<1> SUFFICES frame.plain[q + m] = frame.plain[q + p]
  OBVIOUS
<1> HIDE DEF q, off, ml
<1>2. frame.plain[q + m] = frame.plain[q - off + 1 + ((m - 1) % off)]
  BY <1>1
<1>3. CASE p >= 1
  <2>1. off * c >= 0
    <3>1. \A x, y \in Nat : x * y >= 0
      OBVIOUS
    <3> QED BY <3>1, <1>1
  <2>2. p \in 1..ml /\ p - 1 \in Nat /\ m - 1 = off * c + (p - 1)
    <3>1. off * c \in Nat
      BY <1>1
    <3> HIDE DEF off
    <3> QED BY <3>1, <2>1, <1>1, <1>3
  <2>3. (m - 1) % off = (p - 1) % off
    <3> DEFINE n == p - 1
    <3>1. n \in Nat /\ m - 1 = off * c + n
      BY <2>2
    <3> HIDE DEF n
    <3>2. (off * c + n) % off = n % off
      BY <1>1, <3>1, ModAdd
    <3> QED BY <3>1, <3>2 DEF n
  <2>4. frame.plain[q + p] = frame.plain[q - off + 1 + ((p - 1) % off)]
    BY <1>1, <2>2
  <2> QED BY <1>2, <2>3, <2>4
<1>4. CASE p <= 0
  <2>1. c # 0
    BY <1>1, <1>4
  <2>2. c - 1 \in Nat /\ p + off - 1 \in 0..off - 1
    BY <2>1, <1>1, <1>4
  <2>3. off * c = off * (c - 1) + off
    BY <1>1
  <2>4. off * (c - 1) \in Nat
    BY <2>2, <1>1
  <2>5. m - 1 = off * (c - 1) + (p + off - 1)
    BY <2>2, <2>3, <2>4, <1>1
  <2>6. (m - 1) % off = p + off - 1
    <3> DEFINE k == c - 1
               r == p + off - 1
    <3>1. k \in Nat /\ r \in 0..off - 1 /\ m - 1 = off * k + r
      BY <2>2, <2>5
    <3> HIDE DEF k, r
    <3>2. (m - 1) % off = r
      BY <1>1, <3>1, DivUnique, ZenonT(60)
    <3> QED BY <3>2 DEF r
  <2>7. q - off + 1 + (p + off - 1) = q + p
    BY <1>1
  <2> QED BY <1>2, <2>6, <2>7
<1> QED BY <1>1, <1>3, <1>4

(* A word of the window that is still there. *)
LEMMA InWindow ==
  ASSUME NEW a \in Nat, NEW x \in Nat, x < WordBytes, OutAt(a, x), NEW m \in Nat,
         m < WordBytes * a, reg.addr <= m + WordBytes * WindowSize
  PROVE  /\ m \div WordBytes < a
         /\ window[(m \div WordBytes) % WindowSize] = Plain(WordBytes * (m \div WordBytes))
<1>1. WordBytes \in Nat /\ WordBytes > 0 /\ WindowSize \in Nat
  BY Numbers
<1>2. m \div WordBytes < a /\ m \div WordBytes \in Nat
  BY <1>1, DivBelow, DivDef
<1>3. a - WindowSize <= m \div WordBytes
  <2>1. WordBytes * (a - WindowSize) = WordBytes * a - WordBytes * WindowSize
    BY <1>1
  <2>2. WordBytes * a \in Nat /\ WordBytes * WindowSize \in Nat
    BY <1>1
  <2>3. reg.addr = WordBytes * a + x
    BY DEF OutAt
  <2>4. WordBytes * (a - WindowSize) <= m
    BY <2>1, <2>2, <2>3
  <2> QED BY <1>1, <2>4, DivAbove
<1>4. a <= m \div WordBytes + WindowSize
  BY <1>1, <1>2, <1>3
<1> QED BY <1>2, <1>4 DEF OutAt

(* The byte the match pointer stands for, in the word begun or in the window. *)
LEMMA MatchByte ==
  ASSUME NEW a \in Nat, NEW x \in Nat, x < WordBytes, OutAt(a, x),
         reg.offset \in Nat, reg.offset > 0, reg.offset <= reg.addr,
         reg.offset <= WordBytes * WindowSize, reg.MP = reg.addr - reg.offset
  PROVE  (IF Addr3 >= reg.offset THEN reg.window_data[MP3 + 1] ELSE window[MP13][MP3 + 1])
           = frame.plain[reg.MP + 1]
<1> DEFINE off == reg.offset
<1>1. /\ WordBytes \in Nat /\ WordBytes > 0 /\ WindowSize \in Nat
      /\ WordBytes * a \in Nat /\ WordBytes * WindowSize \in Nat
  BY Numbers
<1>2. reg.addr = WordBytes * a + x
  BY DEF OutAt
<1>3. Addr3 = x
  BY <1>2, WordBounds
<1>4. CASE x >= off
  <2>1. reg.MP = WordBytes * a + (x - off) /\ x - off \in 0..WordBytes - 1
    BY <1>1, <1>2, <1>4
  <2>2. MP3 = x - off
    BY <1>1, <2>1, DivUnique, SMTT(40) DEF MP3
  <2>3. MP3 + 1 \in 1..x /\ WordBytes * a + (MP3 + 1) = reg.MP + 1
    BY <1>1, <1>4, <2>1, <2>2
  <2>4. reg.window_data[MP3 + 1] = frame.plain[WordBytes * a + (MP3 + 1)]
    BY <2>3 DEF OutAt
  <2> QED BY <1>3, <1>4, <2>3, <2>4
<1>5. CASE ~(x >= off)
  <2>1. /\ reg.MP \in Nat /\ reg.MP < WordBytes * a
        /\ reg.addr <= reg.MP + WordBytes * WindowSize
    BY <1>1, <1>2, <1>5
  <2>2. window[MP13] = Plain(WordBytes * (reg.MP \div WordBytes))
    BY <2>1, InWindow DEF MP13
  <2>3. /\ MP3 \in 0..WordBytes - 1 /\ reg.MP = WordBytes * (reg.MP \div WordBytes) + MP3
        /\ reg.MP \div WordBytes \in Nat
    BY <1>1, <2>1, DivDef DEF MP3
  <2>4. MP3 + 1 \in 1..WordBytes
        /\ WordBytes * (reg.MP \div WordBytes) + (MP3 + 1) = reg.MP + 1
    BY <1>1, <2>3
  <2>5. window[MP13][MP3 + 1] = frame.plain[reg.MP + 1]
    BY <2>2, <2>4 DEF Plain
  <2> QED BY <1>3, <1>5, <2>5
<1> QED BY <1>4, <1>5

(* What is known while a match is copied. *)
LEMMA Copying ==
  ASSUME Fed, OutOK, NEW s, NEW at, NEW from, Located(s, at, from), AtCopy(s, at, from)
  PROVE  \E i \in 0..s.match - 1, a \in Nat, x \in 0..WordBytes - 1 :
           /\ OutAt(a, x) /\ reg.addr = WordBytes * a + x
           /\ Addr3 = x /\ Addr13 = a % WindowSize /\ reg.addr \div WordBytes = a
           /\ reg.ML = s.match - i /\ reg.addr = Copies(s, from) + i
           /\ reg.MP = reg.addr - s.offset /\ reg.MP \in Nat /\ reg.addr \in Nat
           /\ reg.offset = s.offset /\ reg.offset \in Nat /\ reg.offset > 0 /\ reg.offset <= reg.addr
           /\ reg.offset <= WordBytes * WindowSize
           /\ Copies(s, from) \in Nat /\ s.match \in Nat /\ s.match # 0
           /\ Len(frame.plain) \in Nat /\ Copies(s, from) + s.match <= Len(frame.plain)
<1>1. PICK i \in 0..s.match - 1 :
        /\ reg.ML = s.match - i /\ reg.addr = Copies(s, from) + i /\ reg.MP = reg.addr - s.offset
  BY DEF AtCopy
<1>2. PICK a \in Nat, x \in 0..WordBytes - 1 : OutAt(a, x)
  BY DEF OutOK
<1>3. s.match # 0 /\ reg.offset = s.offset
  BY DEF AtCopy
<1>4. /\ s.offset \in 1..Copies(s, from) /\ s.offset <= WordBytes * WindowSize
  BY <1>3 DEF Located, IsMatch
<1>5. /\ Copies(s, from) \in Nat /\ s.match \in Nat /\ Len(frame.plain) \in Nat
      /\ Copies(s, from) + s.match <= Len(frame.plain)
  BY BlockNumbers, SMTT(40)
<1>6. x \in Nat /\ x < WordBytes /\ WordBytes \in Nat /\ WordBytes > 0
  BY Numbers
<1>7. reg.addr = WordBytes * a + x
  BY <1>2 DEF OutAt
<1>8. Addr3 = x /\ Addr13 = a % WindowSize /\ reg.addr \in Nat
  BY <1>6, <1>7, WordBounds
<1>9. reg.addr \div WordBytes = a
  BY <1>6, <1>7, DivUnique
<1>10. i \in Nat /\ s.offset \in Nat /\ s.offset > 0 /\ s.offset <= Copies(s, from)
  BY <1>4, <1>5
<1>11. s.offset <= reg.addr /\ reg.MP \in Nat
  BY <1>1, <1>5, <1>8, <1>10
<1> QED BY <1>1, <1>2, <1>3, <1>4, <1>5, <1>7, <1>8, <1>9, <1>10, <1>11

AtNext(s, at, from) == AtIdle(After(s, at), Copies(s, from) + s.match)

LEMMA CopySteps ==
  ASSUME Fed, OutOK, frame' = frame, NEW s, NEW at, NEW from, Located(s, at, from),
         AtCopy(s, at, from), In("S_Copy_Matches"), CopyMatches
  PROVE  (AtCopy(s, at, from)' \/ AtNext(s, at, from)') /\ PutsNext
<1>c. PICK i \in 0..s.match - 1, a \in Nat, x \in 0..WordBytes - 1 :
           /\ OutAt(a, x) /\ reg.addr = WordBytes * a + x
           /\ Addr3 = x /\ Addr13 = a % WindowSize /\ reg.addr \div WordBytes = a
           /\ reg.ML = s.match - i /\ reg.addr = Copies(s, from) + i
           /\ reg.MP = reg.addr - s.offset /\ reg.MP \in Nat /\ reg.addr \in Nat
           /\ reg.offset = s.offset /\ reg.offset \in Nat /\ reg.offset > 0 /\ reg.offset <= reg.addr
           /\ reg.offset <= WordBytes * WindowSize
           /\ Copies(s, from) \in Nat /\ s.match \in Nat /\ s.match # 0
           /\ Len(frame.plain) \in Nat /\ Copies(s, from) + s.match <= Len(frame.plain)
  BY Copying
<1>n. /\ WordBytes \in Nat /\ WordBytes > 0 /\ WindowSize \in Nat /\ WindowSize > 0
      /\ i \in Nat /\ i < s.match /\ x \in Nat /\ x < WordBytes
  BY <1>c, Numbers
<1>l. /\ i \in Nat /\ i < s.match /\ s.match \in Nat /\ Copies(s, from) \in Nat
      /\ s.offset \in Nat /\ s.offset > 0 /\ reg.MP \in Nat /\ reg.addr \in Nat
      /\ reg.ML = s.match - i /\ reg.addr = Copies(s, from) + i /\ reg.MP = reg.addr - s.offset
  BY <1>c
<1> DEFINE next == IF MatchByWord THEN "S_Copy_Matches_64"
                   ELSE IF MatchByLastWord THEN "S_Copy_Matches_64_8"
                   ELSE IF reg.ML = 1 THEN "S_Idle" ELSE reg.state
           r == [Held EXCEPT !.ML = reg.ML - 1, !.MP = reg.MP + 1, !.state = next]
           b == IF Addr3 >= reg.offset THEN reg.window_data[MP3 + 1] ELSE window[MP13][MP3 + 1]
<1>1. Full(reg) /\ ~pins.reset
  BY DEF Fed
<1>2. PutByte(b, [Held EXCEPT !.ML = reg.ML - 1, !.MP = reg.MP + 1,
               !.state = IF MatchByWord THEN "S_Copy_Matches_64"
                         ELSE IF MatchByLastWord THEN "S_Copy_Matches_64_8"
                         ELSE IF reg.ML = 1 THEN "S_Idle" ELSE @])
  BY DEF CopyMatches
<1>3. PutByte(b, r)
  BY <1>1, <1>2 DEF Held, Before
<1>4. /\ Full(r) /\ r.ML = reg.ML - 1 /\ r.MP = reg.MP + 1 /\ r.state = next
      /\ r.bytes = reg.bytes /\ r.done = reg.done /\ r.offset = reg.offset /\ r.total = reg.total
  <2> HIDE DEF next
  <2> QED BY <1>1 DEF Held, Before, Full, Fields
<1> HIDE DEF r, next
<1>5. b = frame.plain[reg.addr + 1]
  <2>1. b = frame.plain[reg.MP + 1]
    BY <1>c, <1>n, MatchByte
  <2> DEFINE p == (i + 1) - s.offset
  <2>2. /\ i + 1 \in 1..s.match /\ p \in Int /\ i + 1 = s.offset * 1 + p /\ p > -s.offset
    BY <1>l
  <2>3. Copies(s, from) + p = reg.MP + 1 /\ Copies(s, from) + (i + 1) = reg.addr + 1
    BY <1>l
  <2> HIDE DEF p
  <2>4. frame.plain[Copies(s, from) + (i + 1)] = frame.plain[Copies(s, from) + p]
    <3> DEFINE m == i + 1
    <3>1. m \in 1..s.match /\ m = s.offset * 1 + p
      BY <2>2
    <3>2. s.match # 0
      BY <1>c
    <3> HIDE DEF m
    <3>3. frame.plain[Copies(s, from) + m] = frame.plain[Copies(s, from) + p]
      BY <2>2, <3>1, <3>2, Period
    <3> QED BY <3>3 DEF m
  <2> QED BY <2>1, <2>3, <2>4
<1> HIDE DEF b
<1>6. reg.addr < Len(frame.plain)
  BY <1>c, <1>n, SMTT(40)
<1>7. PutsNext /\ Rest(reg', r, Written) /\ reg'.addr = reg.addr + 1
  BY <1>1, <1>3, <1>4, <1>5, <1>6, <1>c, BytePuts
<1>8. /\ reg'.ML = reg.ML - 1 /\ reg'.MP = reg.MP + 1 /\ reg'.state = next
      /\ reg'.offset = reg.offset /\ reg'.total = reg.total
  BY <1>4, <1>7 DEF Rest, Fields, Written
<1>9. reg.total = After(s, at)
  BY DEF AtCopy
<1>10. CASE reg.ML = 1
  <2>1. ~MatchByWord /\ ~MatchByLastWord
    BY <1>10, <1>n DEF MatchByWord, MatchByLastWord
  <2>2. reg'.state = "S_Idle"
    BY <1>8, <1>10, <2>1 DEF next
  <2>3. reg'.addr = Copies(s, from) + s.match
    BY <1>7, <1>10, <1>l
  <2>4. AtNext(s, at, from)'
    BY <1>8, <1>9, <2>2, <2>3 DEF AtNext, AtIdle, In, After, Offs, Lits, Copies
  <2> QED BY <1>7, <2>4
<1>11. CASE reg.ML # 1
  <2>1. i + 1 \in 0..s.match - 1 /\ reg'.ML = s.match - (i + 1)
        /\ reg'.addr = Copies(s, from) + (i + 1) /\ reg'.MP = reg'.addr - s.offset
    BY <1>7, <1>8, <1>11, <1>l
  <2>2. \/ reg'.state = "S_Copy_Matches"
        \/ /\ reg'.state = "S_Copy_Matches_64" /\ reg'.ML >= WordBytes
           /\ reg'.MP % WordBytes = 0 /\ reg'.MP \div WordBytes < reg'.addr \div WordBytes
        \/ /\ reg'.state = "S_Copy_Matches_64_8" /\ reg'.ML >= WordBytes
           /\ reg'.addr % WordBytes = 0 /\ s.offset <= WordBytes
    <3>1. CASE MatchByWord
      <4>1. reg'.state = "S_Copy_Matches_64"
        BY <1>8, <3>1 DEF next
      <4>2. reg.ML > WordBytes /\ MP3 = WordBytes - 1 /\ Addr13 > MP13 + 1
        BY <3>1 DEF MatchByWord
      <4>3. reg'.ML >= WordBytes
        BY <1>8, <4>2, <1>l, <1>n
      <4> DEFINE n == reg.MP \div WordBytes
      <4>4. n \in Nat /\ reg.MP = WordBytes * n + (WordBytes - 1) /\ MP13 = n % WindowSize
        <5>1. reg.MP \in Nat /\ WordBytes \in Nat /\ WordBytes > 0
          BY <1>l, <1>n
        <5>2. n \in Nat /\ reg.MP = WordBytes * n + MP3
          BY <5>1, DivDef DEF MP3
        <5> QED BY <4>2, <5>2 DEF MP13
      <4> HIDE DEF n
      <4>5. reg'.MP = WordBytes * (n + 1) + 0 /\ 0 \in 0..WordBytes - 1 /\ n + 1 \in Nat
        BY <1>8, <4>4, <1>n
      <4>6. reg'.MP % WordBytes = 0 /\ reg'.MP \div WordBytes = n + 1
        BY <4>5, <1>n, DivUnique
      <4>7. n < a + 1
        <5>1. reg.MP < WordBytes * (a + 1) /\ WordBytes * n <= reg.MP
          <6>1. WordBytes * (a + 1) = WordBytes * a + WordBytes /\ WordBytes * a \in Nat
                /\ WordBytes * n \in Nat
            BY <4>4, <1>n
          <6> QED BY <6>1, <4>4, <1>c, <1>n
        <5>2. reg.MP \div WordBytes < a + 1
          <6>1. reg.MP \in Nat /\ a + 1 \in Int
            BY <1>l
          <6> QED BY <5>1, <6>1, <1>n, DivBelow
        <5> QED BY <5>2 DEF n
      <4>8. n # a
        <5>1. n % WindowSize \in 0..WindowSize - 1
          BY <4>4, <1>n, DivDef
        <5> QED BY <4>2, <4>4, <5>1, <1>c, <1>n
      <4>9. n + 1 # a
        <5>1. (n + 1) % WindowSize <= (n % WindowSize) + 1
          BY <4>4, <1>n, ModStep
        <5>2. n % WindowSize \in 0..WindowSize - 1 /\ (n + 1) % WindowSize \in 0..WindowSize - 1
          BY <4>4, <4>5, <1>n, DivDef
        <5> QED BY <4>2, <4>4, <5>1, <5>2, <1>c, <1>n
      <4>10. n + 1 < a
        BY <4>4, <4>7, <4>8, <4>9
      <4>11. a <= reg'.addr \div WordBytes
        <5>1. WordBytes * a <= reg'.addr /\ reg'.addr \in Nat
          <6>1. WordBytes * a \in Nat
            BY <1>n
          <6> QED BY <6>1, <1>7, <1>c, <1>n
        <5> QED BY <5>1, <1>n, DivAbove
      <4>12. reg'.addr \div WordBytes \in Nat
        <5>1. reg'.addr \in Nat
          BY <1>7, <1>c, SMTT(60)
        <5> QED BY <5>1, <1>n, DivDef
      <4>13. reg'.MP \div WordBytes < reg'.addr \div WordBytes
        BY <4>4, <4>6, <4>10, <4>11, <4>12
      <4> QED BY <4>1, <4>3, <4>6, <4>13
    <3>2. CASE ~MatchByWord /\ MatchByLastWord
      <4>1. reg'.state = "S_Copy_Matches_64_8"
        BY <1>8, <3>2 DEF next
      <4>2. reg.ML > WordBytes /\ Addr3 = WordBytes - 1 /\ reg.offset <= WordBytes
        BY <3>2 DEF MatchByLastWord
      <4>3. reg'.ML >= WordBytes /\ s.offset <= WordBytes
        BY <1>8, <4>2, <1>c, <1>n, SMTT(60)
      <4>4. reg'.addr = WordBytes * (a + 1) + 0 /\ 0 \in 0..WordBytes - 1 /\ a + 1 \in Nat
        <5>1. WordBytes * (a + 1) = WordBytes * a + WordBytes /\ WordBytes * a \in Nat
          BY <1>n
        <5> QED BY <5>1, <1>7, <4>2, <1>c, <1>n
      <4>5. reg'.addr % WordBytes = 0
        BY <4>4, <1>n, DivUnique
      <4> QED BY <4>1, <4>3, <4>5
    <3>3. CASE ~MatchByWord /\ ~MatchByLastWord
      BY <1>8, <1>11, <3>3 DEF next, In
    <3> QED BY <3>1, <3>2, <3>3
  <2>3. AtCopy(s, at, from)'
    BY <1>8, <1>9, <1>c, <2>1, <2>2 DEF AtCopy, In, After, Offs, Lits, MP3, Addr3
  <2> QED BY <1>7, <2>3
<1> QED BY <1>10, <1>11

LEMMA CopiedLongSets ==
  ASSUME Full(reg), ~pins.reset
  PROVE  /\ Full(CopiedLong) /\ CopiedLong.ML = reg.ML - WordBytes
         /\ CopiedLong.MP = reg.MP + WordBytes
         /\ CopiedLong.state = IF reg.ML = WordBytes THEN "S_Idle"
                               ELSE IF reg.ML < 2 * WordBytes THEN "S_Copy_Matches" ELSE reg.state
         /\ CopiedLong.done = reg.done /\ CopiedLong.offset = reg.offset
         /\ CopiedLong.total = reg.total
BY DEF CopiedLong, Held, Before, Full, Fields

(* The next word of a match is its next bytes: those of the word it repeats. *)
LEMMA MatchWord ==
  ASSUME Fed, OutOK, NEW s, NEW at, NEW from, Located(s, at, from),
         AtCopy(s, at, from), In("S_Copy_Matches_64")
  PROVE  window[MP13] = Plain(reg.addr)
<1>c. PICK i \in 0..s.match - 1, a \in Nat, x \in 0..WordBytes - 1 :
           /\ OutAt(a, x) /\ reg.addr = WordBytes * a + x
           /\ Addr3 = x /\ Addr13 = a % WindowSize /\ reg.addr \div WordBytes = a
           /\ reg.ML = s.match - i /\ reg.addr = Copies(s, from) + i
           /\ reg.MP = reg.addr - s.offset /\ reg.MP \in Nat /\ reg.addr \in Nat
           /\ reg.offset = s.offset /\ reg.offset \in Nat /\ reg.offset > 0 /\ reg.offset <= reg.addr
           /\ reg.offset <= WordBytes * WindowSize
           /\ Copies(s, from) \in Nat /\ s.match \in Nat /\ s.match # 0
           /\ Len(frame.plain) \in Nat /\ Copies(s, from) + s.match <= Len(frame.plain)
  BY Copying
<1>l. /\ i \in Nat /\ i < s.match /\ s.match \in Nat /\ Copies(s, from) \in Nat
      /\ s.offset \in Nat /\ s.offset > 0 /\ reg.MP \in Nat /\ reg.addr \in Nat
      /\ reg.ML = s.match - i /\ reg.addr = Copies(s, from) + i /\ reg.MP = reg.addr - s.offset
  BY <1>c
<1>n. /\ WordBytes \in Nat /\ WordBytes > 0 /\ WindowSize \in Nat /\ WindowSize > 0
      /\ x \in Nat /\ x < WordBytes
  BY Numbers
<1>1. reg.ML >= WordBytes /\ MP3 = 0 /\ reg.MP \div WordBytes < reg.addr \div WordBytes
  BY DEF AtCopy, In
<1> DEFINE n == reg.MP \div WordBytes
<1>2. n \in Nat /\ reg.MP = WordBytes * n /\ n < a
  <2>1. n \in Nat /\ reg.MP = WordBytes * n + MP3
    BY <1>l, <1>n, DivDef DEF MP3
  <2>2. n < a
    BY <1>1, <1>c
  <2>3. WordBytes * n \in Nat
    BY <2>1, <1>n
  <2> HIDE DEF n
  <2> QED BY <2>1, <2>2, <2>3, <1>1
<1>3. reg.MP < WordBytes * a
  <2> HIDE DEF n
  <2>1. WordBytes * n + WordBytes <= WordBytes * a
    BY <1>2, <1>n, MulMono
  <2>2. WordBytes * n \in Nat /\ WordBytes * a \in Nat
    BY <1>2, <1>n
  <2> QED BY <1>2, <1>n, <2>1, <2>2
<1>4. reg.addr <= reg.MP + WordBytes * WindowSize
  <2>1. WordBytes * WindowSize \in Nat /\ s.offset <= WordBytes * WindowSize
    BY <1>c, <1>n
  <2> QED BY <1>l, <2>1
<1>5. window[n % WindowSize] = Plain(WordBytes * n)
  BY <1>3, <1>4, <1>c, <1>n, <1>l, InWindow
<1>6. ASSUME NEW k \in 1..WordBytes
      PROVE  frame.plain[reg.MP + k] = frame.plain[reg.addr + k]
  <2> DEFINE m == i + k
             p == m - s.offset
  <2>1. m \in 1..s.match /\ p \in Int /\ m = s.offset * 1 + p /\ p > -s.offset
    BY <1>1, <1>l, <1>n
  <2>2. Copies(s, from) + p = reg.MP + k /\ Copies(s, from) + m = reg.addr + k
    BY <1>l, <1>n
  <2>3. s.match # 0
    BY <1>c
  <2> HIDE DEF m, p
  <2>4. frame.plain[Copies(s, from) + m] = frame.plain[Copies(s, from) + p]
    BY <2>1, <2>3, Period
  <2> QED BY <2>2, <2>4
<1>7. Plain(reg.MP) = Plain(reg.addr)
  BY <1>6 DEF Plain
<1> QED BY <1>2, <1>5, <1>7 DEF MP13

(* So are those of the last bytes put, over and over. *)
LEMMA LastBytes ==
  ASSUME Fed, OutOK, NEW s, NEW at, NEW from, Located(s, at, from),
         AtCopy(s, at, from), In("S_Copy_Matches_64_8")
  PROVE  [k \in 1..WordBytes |->
            reg.window_data[WordBytes - reg.offset + 1 + ((k - 1) % reg.offset)]] = Plain(reg.addr)
<1>c. PICK i \in 0..s.match - 1, a \in Nat, x \in 0..WordBytes - 1 :
           /\ OutAt(a, x) /\ reg.addr = WordBytes * a + x
           /\ Addr3 = x /\ Addr13 = a % WindowSize /\ reg.addr \div WordBytes = a
           /\ reg.ML = s.match - i /\ reg.addr = Copies(s, from) + i
           /\ reg.MP = reg.addr - s.offset /\ reg.MP \in Nat /\ reg.addr \in Nat
           /\ reg.offset = s.offset /\ reg.offset \in Nat /\ reg.offset > 0 /\ reg.offset <= reg.addr
           /\ reg.offset <= WordBytes * WindowSize
           /\ Copies(s, from) \in Nat /\ s.match \in Nat /\ s.match # 0
           /\ Len(frame.plain) \in Nat /\ Copies(s, from) + s.match <= Len(frame.plain)
  BY Copying
<1>l. /\ i \in Nat /\ i < s.match /\ s.match \in Nat /\ Copies(s, from) \in Nat
      /\ s.offset \in Nat /\ s.offset > 0 /\ reg.MP \in Nat /\ reg.addr \in Nat
      /\ reg.ML = s.match - i /\ reg.addr = Copies(s, from) + i /\ reg.MP = reg.addr - s.offset
      /\ s.match # 0 /\ reg.offset = s.offset /\ s.offset <= reg.addr
  BY <1>c
<1>n. WordBytes \in Nat /\ WordBytes > 0
  BY Numbers
<1>1. reg.ML >= WordBytes /\ Addr3 = 0 /\ s.offset <= WordBytes
  BY DEF AtCopy, In
<1>2. x = 0 /\ reg.addr = WordBytes * a
  <2>1. x = 0 /\ reg.addr = WordBytes * a + x
    BY <1>1, <1>c
  <2>2. WordBytes * a \in Nat
    BY <1>n
  <2> QED BY <2>1, <2>2
<1>3. a > 0
  <2>1. CASE a = 0
    <3>1. WordBytes * 0 = 0
      BY <1>n
    <3>2. WordBytes * a = 0
      BY <2>1, <3>1
    <3>3. reg.addr = 0
      BY <3>2, <1>2
    <3>4. s.offset <= reg.addr /\ s.offset > 0 /\ s.offset \in Nat
      BY <1>l
    <3> QED BY <3>3, <3>4
  <2>2. a \in Nat
    BY <1>c
  <2> QED BY <2>1, <2>2
<1>4. reg.window_data = Plain(WordBytes * (a - 1)) /\ WordBytes * (a - 1) = reg.addr - WordBytes
  <2>1. reg.window_data = Plain(WordBytes * (a - 1))
    BY <1>2, <1>3, <1>c DEF OutAt
  <2>2. WordBytes * (a - 1) = WordBytes * a - WordBytes
    BY <1>n
  <2> QED BY <1>2, <2>1, <2>2
<1>5. ASSUME NEW k \in 1..WordBytes
      PROVE  reg.window_data[WordBytes - reg.offset + 1 + ((k - 1) % reg.offset)]
               = frame.plain[reg.addr + k]
  <2> DEFINE off == s.offset
             c == (k - 1) \div off
             r == (k - 1) % off
             m == i + k
             p == i + r + 1 - off
  <2>1. k - 1 \in Nat /\ off \in Nat /\ off > 0
    BY <1>n, <1>l
  <2>2. c \in Nat /\ r \in 0..off - 1 /\ k - 1 = off * c + r
    BY <2>1, DivDef
  <2> HIDE DEF c, r
  <2>3. off * (c + 1) = off * c + off /\ off * c \in Nat
    BY <2>1, <2>2
  <2>4. /\ m \in 1..s.match /\ p \in Int /\ c + 1 \in Nat /\ p > -off
    BY <1>1, <1>l, <1>n, <2>1, <2>2
  <2>5. m = off * (c + 1) + p
    <3> HIDE DEF off
    <3> QED BY <1>l, <1>n, <2>1, <2>2, <2>3
  <2>6. frame.plain[Copies(s, from) + m] = frame.plain[Copies(s, from) + p]
    <3> DEFINE c1 == c + 1
    <3>1. c1 \in Nat /\ m = s.offset * c1 + p /\ p > -s.offset
      BY <2>4, <2>5
    <3> HIDE DEF m, p, c1
    <3> QED BY <1>l, <2>4, <3>1, Period
  <2> DEFINE j == WordBytes - off + 1 + r
  <2>7. /\ j \in 1..WordBytes /\ reg.addr - WordBytes + j = Copies(s, from) + p
        /\ Copies(s, from) + m = reg.addr + k
    BY <1>1, <1>l, <1>n, <2>1, <2>2
  <2>8. reg.window_data[j] = frame.plain[reg.addr - WordBytes + j]
    <3> HIDE DEF j
    <3> QED BY <1>4, <2>7 DEF Plain
  <2>9. j = WordBytes - reg.offset + 1 + ((k - 1) % reg.offset)
    BY <1>l DEF r
  <2> HIDE DEF j, m, p
  <2> QED BY <2>6, <2>7, <2>8, <2>9
<1> QED BY <1>5 DEF Plain

LEMMA CopyLongSteps ==
  ASSUME Fed, OutOK, frame' = frame, NEW s, NEW at, NEW from, Located(s, at, from),
         AtCopy(s, at, from), CopyMatches64 \/ CopyMatches64_8
  PROVE  (AtCopy(s, at, from)' \/ AtNext(s, at, from)') /\ PutsNext
<1>c. PICK i \in 0..s.match - 1, a \in Nat, x \in 0..WordBytes - 1 :
           /\ OutAt(a, x) /\ reg.addr = WordBytes * a + x
           /\ Addr3 = x /\ Addr13 = a % WindowSize /\ reg.addr \div WordBytes = a
           /\ reg.ML = s.match - i /\ reg.addr = Copies(s, from) + i
           /\ reg.MP = reg.addr - s.offset /\ reg.MP \in Nat /\ reg.addr \in Nat
           /\ reg.offset = s.offset /\ reg.offset \in Nat /\ reg.offset > 0 /\ reg.offset <= reg.addr
           /\ reg.offset <= WordBytes * WindowSize
           /\ Copies(s, from) \in Nat /\ s.match \in Nat /\ s.match # 0
           /\ Len(frame.plain) \in Nat /\ Copies(s, from) + s.match <= Len(frame.plain)
  BY Copying
<1>l. /\ i \in Nat /\ i < s.match /\ s.match \in Nat /\ Copies(s, from) \in Nat
      /\ s.offset \in Nat /\ s.offset > 0 /\ reg.MP \in Nat /\ reg.addr \in Nat
      /\ reg.ML = s.match - i /\ reg.addr = Copies(s, from) + i /\ reg.MP = reg.addr - s.offset
      /\ s.match # 0 /\ reg.offset = s.offset /\ s.offset <= reg.addr
      /\ Len(frame.plain) \in Nat /\ Copies(s, from) + s.match <= Len(frame.plain)
  BY <1>c
<1>n. WordBytes \in Nat /\ WordBytes > 0
  BY Numbers
<1>0. Full(reg) /\ ~pins.reset
  BY DEF Fed
<1>1. In("S_Copy_Matches_64") \/ In("S_Copy_Matches_64_8")
  BY DEF CopyMatches64, CopyMatches64_8
<1>2. reg.ML >= WordBytes
  BY <1>1 DEF AtCopy, In
<1>3. PutLong(Plain(reg.addr), CopiedLong)
  <2>1. CASE CopyMatches64
    BY <2>1, MatchWord DEF CopyMatches64
  <2>2. CASE CopyMatches64_8
    BY <2>2, <1>l, LastBytes, SMTT(40) DEF CopyMatches64_8
  <2> QED BY <2>1, <2>2
<1>4. /\ Full(CopiedLong) /\ CopiedLong.ML = reg.ML - WordBytes
      /\ CopiedLong.MP = reg.MP + WordBytes
      /\ CopiedLong.state = IF reg.ML = WordBytes THEN "S_Idle"
                            ELSE IF reg.ML < 2 * WordBytes THEN "S_Copy_Matches" ELSE reg.state
      /\ CopiedLong.done = reg.done /\ CopiedLong.offset = reg.offset
      /\ CopiedLong.total = reg.total
  BY <1>0, CopiedLongSets
<1>5. reg.addr + WordBytes <= Len(frame.plain)
  BY <1>2, <1>l, <1>n, SMTT(40)
<1>6. PutsNext /\ Rest(reg', CopiedLong, Written) /\ reg'.addr = reg.addr + WordBytes
  BY <1>0, <1>3, <1>4, <1>5, <1>l, LongPuts
<1>7. /\ reg'.ML = CopiedLong.ML /\ reg'.MP = CopiedLong.MP /\ reg'.state = CopiedLong.state
      /\ reg'.offset = CopiedLong.offset /\ reg'.total = CopiedLong.total
  BY <1>6 DEF Rest, Fields, Written
<1>8. /\ reg'.ML = reg.ML - WordBytes /\ reg'.MP = reg.MP + WordBytes
      /\ reg'.offset = reg.offset /\ reg'.total = reg.total
      /\ reg'.state = IF reg.ML = WordBytes THEN "S_Idle"
                      ELSE IF reg.ML < 2 * WordBytes THEN "S_Copy_Matches" ELSE reg.state
  BY <1>4, <1>7
<1>9. reg.total = After(s, at)
  BY DEF AtCopy
<1>10. CASE reg.ML = WordBytes
  <2>1. reg'.state = "S_Idle"
    BY <1>8, <1>10
  <2>2. reg'.addr = Copies(s, from) + s.match
    BY <1>6, <1>10, <1>l, <1>n
  <2>3. AtNext(s, at, from)'
    BY <1>8, <1>9, <2>1, <2>2 DEF AtNext, AtIdle, In, After, Offs, Lits, Copies
  <2> QED BY <1>6, <2>3
<1>11. CASE reg.ML # WordBytes
  <2>1. /\ i + WordBytes \in 0..s.match - 1 /\ reg'.ML = s.match - (i + WordBytes)
        /\ reg'.addr = Copies(s, from) + (i + WordBytes) /\ reg'.MP = reg'.addr - s.offset
    <3>1. reg'.ML = reg.ML - WordBytes /\ reg'.addr = reg.addr + WordBytes
          /\ reg'.MP = reg.MP + WordBytes
      BY <1>6, <1>8
    <3>2. i + WordBytes \in Nat /\ i + WordBytes < s.match
      BY <1>2, <1>11, <1>l, <1>n, SMTT(60)
    <3>3. i + WordBytes \in 0..s.match - 1
      BY <3>2, <1>l
    <3>4. reg'.ML = s.match - (i + WordBytes)
      BY <3>1, <1>l, <1>n
    <3>5. reg'.addr = Copies(s, from) + (i + WordBytes)
      BY <3>1, <1>l, <1>n
    <3>6. reg'.MP = reg'.addr - s.offset
      BY <3>1, <1>l, <1>n
    <3> QED BY <3>3, <3>4, <3>5, <3>6
  <2>2. /\ reg'.addr % WordBytes = reg.addr % WordBytes
        /\ reg'.addr \div WordBytes = reg.addr \div WordBytes + 1
        /\ reg'.MP % WordBytes = reg.MP % WordBytes
        /\ reg'.MP \div WordBytes = reg.MP \div WordBytes + 1
    BY <1>6, <1>8, <1>l, <1>n, NextMultiple, ZenonT(60)
  <2>3. reg.MP \div WordBytes \in Nat /\ reg.addr \div WordBytes \in Nat
    BY <1>l, <1>n, DivDef
  <2>4. CASE reg.ML < 2 * WordBytes
    <3>1. reg'.state = "S_Copy_Matches"
      BY <1>8, <1>11, <2>4
    <3> QED BY <3>1, <1>6, <1>8, <1>9, <1>l, <2>1 DEF AtCopy, In, After, Offs, Lits, Copies
  <2>5. CASE ~(reg.ML < 2 * WordBytes)
    <3>1. reg'.state = reg.state
      BY <1>8, <1>11, <2>5
    <3>2. reg'.ML >= WordBytes
      BY <1>8, <2>5, <1>l, <1>n
    <3>3. CASE In("S_Copy_Matches_64")
      <4>1. MP3 = 0 /\ reg.MP \div WordBytes < reg.addr \div WordBytes
        BY <3>3 DEF AtCopy, In
      <4>2. reg'.MP % WordBytes = 0 /\ reg'.MP \div WordBytes < reg'.addr \div WordBytes
        BY <4>1, <2>2, <2>3 DEF MP3
      <4> QED BY <3>1, <3>2, <3>3, <4>2, <1>6, <1>8, <1>9, <1>l, <2>1
            DEF AtCopy, In, After, Offs, Lits, Copies, MP3
    <3>4. CASE In("S_Copy_Matches_64_8")
      <4>1. Addr3 = 0 /\ s.offset <= WordBytes
        BY <3>4 DEF AtCopy, In
      <4>2. reg'.addr % WordBytes = 0
        BY <4>1, <2>2 DEF Addr3
      <4> QED BY <3>1, <3>2, <3>4, <4>1, <4>2, <1>6, <1>8, <1>9, <1>l, <2>1
            DEF AtCopy, In, After, Offs, Lits, Copies, Addr3
    <3> QED BY <1>1, <3>3, <3>4
  <2> QED BY <2>4, <2>5, <1>l, <1>n
<1> QED BY <1>10, <1>11

(* The first n bytes of a sequence that starts as another does. *)
LEMMA FirstBytes ==
  ASSUME NEW p \in Seq(Int), NEW n \in Nat, n <= Len(p), NEW t, \A i \in 1..n : t[i] = p[i]
  PROVE  SubSeq(t, 1, n) \in Seq(Int) /\ Len(SubSeq(t, 1, n)) = n
         /\ SubSeq(t, 1, n) = SubSeq(p, 1, n)
<1>1. \A i \in 1..n : t[i] \in Int /\ p[i] \in Int
  OBVIOUS
<1>2. /\ SubSeq(t, 1, n) \in Seq(Int) /\ Len(SubSeq(t, 1, n)) = n
      /\ \A i \in 1..n : SubSeq(t, 1, n)[i] = t[i]
  <2>1. /\ SubSeq(t, 1, n) \in Seq(Int) /\ Len(SubSeq(t, 1, n)) = IF 1 <= n THEN n - 1 + 1 ELSE 0
        /\ \A i \in 1..n - 1 + 1 : SubSeq(t, 1, n)[i] = t[1 + i - 1]
    BY <1>1, SubSeqProperties
  <2> QED BY <2>1
<1>3. /\ SubSeq(p, 1, n) \in Seq(Int) /\ Len(SubSeq(p, 1, n)) = n
      /\ \A i \in 1..n : SubSeq(p, 1, n)[i] = p[i]
  <2>1. /\ SubSeq(p, 1, n) \in Seq(Int) /\ Len(SubSeq(p, 1, n)) = IF 1 <= n THEN n - 1 + 1 ELSE 0
        /\ \A i \in 1..n - 1 + 1 : SubSeq(p, 1, n)[i] = p[1 + i - 1]
    BY <1>1, SubSeqProperties
  <2> QED BY <2>1
<1>4. SubSeq(t, 1, n) = SubSeq(p, 1, n)
  BY <1>2, <1>3, SeqEqual
<1> QED BY <1>2, <1>4

(* What is out when no word is begun. *)
LEMMA OutEmitted ==
  ASSUME frame.plain \in Seq(Int), NEW a \in Nat, NEW x \in Nat, OutAt(a, x)
  PROVE  /\ reg.bytes \in Nat /\ reg.bytes <= Len(frame.plain) /\ Len(Emitted) = reg.bytes
         /\ Emitted = SubSeq(frame.plain, 1, reg.bytes)
<1>1. /\ reg.bytes \in Nat /\ reg.bytes + x <= Len(frame.plain) /\ Len(frame.plain) \in Nat
      /\ out = [i \in 1..reg.bytes |-> frame.plain[i]]
  <2>1. WordBytes * a \in Nat
    BY Numbers
  <2> QED BY <2>1 DEF OutAt
<1>2. \A i \in 1..reg.bytes : out[i] = frame.plain[i]
  BY <1>1
<1>3. /\ Len(SubSeq(out, 1, reg.bytes)) = reg.bytes
      /\ SubSeq(out, 1, reg.bytes) = SubSeq(frame.plain, 1, reg.bytes)
  BY <1>1, <1>2, FirstBytes
<1> QED BY <1>1, <1>3 DEF Emitted

(* The word begun goes out last, and is counted for what it has. *)
LEMMA LastWordOut ==
  ASSUME frame.plain \in Seq(Int), NEW a \in Nat, NEW x \in Nat, x < WordBytes, OutAt(a, x),
         reg.addr = Len(frame.plain)
  PROVE  SubSeq(out \o reg.window_data, 1, reg.bytes + x) = frame.plain
<1> DEFINE n == reg.bytes
           t == reg.window_data
           S == Int \cup {t[i] : i \in 1..WordBytes}
<1>1. /\ n \in Nat /\ WordBytes \in Nat /\ n + x = Len(frame.plain) /\ n = WordBytes * a
      /\ out = [i \in 1..n |-> frame.plain[i]]
  <2>1. WordBytes * a \in Nat
    BY Numbers
  <2> QED BY <2>1, Numbers DEF OutAt
<1>2. t = [i \in 1..WordBytes |-> t[i]] /\ \A i \in 1..x : t[i] = frame.plain[n + i]
  BY <1>1 DEF OutAt, IsWord
<1> HIDE DEF n, t
<1>l. n \in Nat /\ x \in Nat /\ WordBytes \in Nat /\ x < WordBytes
  BY <1>1
<1>3. out \in Seq(S) /\ Len(out) = n
  BY <1>1
<1>4. t \in Seq(S) /\ Len(t) = WordBytes
  BY <1>1, <1>2, SMTT(40)
<1>5. \A i \in 1..n + WordBytes : (out \o t)[i] = IF i <= n THEN out[i] ELSE t[i - n]
  BY <1>1, <1>3, <1>4, ConcatProperties
<1>6. ASSUME NEW i \in 1..n + x
      PROVE  (out \o t)[i] = frame.plain[i]
  <2>1. CASE i <= n
    BY <1>1, <1>5, <2>1
  <2>2. CASE ~(i <= n)
    <3>1. i - n \in 1..x /\ n + (i - n) = i /\ i \in 1..n + WordBytes
      <4> HIDE DEF S
      <4>1. i \in Nat /\ i <= n + x /\ i > n
        BY <1>l, <2>2
      <4>2. i - n \in 1..x /\ n + (i - n) = i
        BY <1>l, <4>1
      <4>3. i \in 1..n + WordBytes
        BY <1>l, <4>1
      <4> QED BY <4>2, <4>3
    <3> QED BY <1>2, <1>5, <2>2, <3>1
  <2> QED BY <2>1, <2>2
<1>7. SubSeq(out \o t, 1, n + x) = SubSeq(frame.plain, 1, n + x)
  <2>1. n + x \in Nat /\ n + x <= Len(frame.plain)
    BY <1>1
  <2> QED BY <1>6, <2>1, FirstBytes
<1>8. SubSeq(frame.plain, 1, Len(frame.plain)) = frame.plain
  BY SubSeqFull
<1> QED BY <1>1, <1>7, <1>8 DEF n, t

LEMMA DoneSteps ==
  ASSUME Fed, OutOK, frame' = frame, NEW s, NEW at, NEW from, Located(s, at, from),
         LastCopied(s, from), Done
  PROVE  /\ Full(reg') /\ reg'.offset \in Nat
         /\ \/ /\ FrameDone(s)' /\ Addr3 # 0 /\ reg'.done = reg.done /\ reg'.error = reg.error
            \/ LastCopied(s, from)' /\ OutOK' /\ reg'.addr % WordBytes = 0
               /\ ~reg'.error /\ ~reg'.valid
<1>1. /\ Full(reg) /\ ~pins.reset /\ reg.offset \in Nat /\ pins.compressed_bytes = Size
      /\ frame.plain \in Seq(Int)
  BY DEF Fed, Located
<1>2. s.match = 0 /\ reg.ML = 0 /\ reg.LL = 0 /\ reg.offset = 0 /\ reg.total >= Size
  BY DEF LastCopied, Ended
<1>3. reg.addr = Len(frame.plain)
  BY <1>2 DEF Located, IsLast, LastCopied
<1>4. PICK a \in Nat, x \in 0..WordBytes - 1 : OutAt(a, x)
  BY DEF OutOK
<1>5. x \in Nat /\ x < WordBytes
  BY Numbers
<1>6. Addr3 = x
  BY <1>4, <1>5, WordBounds DEF OutAt
<1>7. CASE Addr3 # 0
  <2>1. /\ Full(reg') /\ reg'.state = "S_Done_64" /\ reg'.bytes = reg.bytes + x
        /\ reg'.done = reg.done /\ reg'.error = reg.error /\ reg'.offset = reg.offset
        /\ reg'.ML = reg.ML /\ reg'.LL = reg.LL /\ reg'.total = reg.total
        /\ out' = out \o reg.window_data
        /\ reg'.window_data = reg.window_data /\ window' = window
    BY <1>1, <1>6, <1>7 DEF Done, Kept, Held, Before, Full, Fields
  <2>2. Emitted' = frame.plain
    BY <1>1, <1>3, <1>4, <1>5, <2>1, LastWordOut DEF Emitted
  <2>3. Shaped'
    BY <1>4, <2>1 DEF OutAt, Shaped
  <2>4. reg'.bytes = Len(frame.plain)
    BY <1>3, <1>4, <2>1 DEF OutAt
  <2> QED BY <1>2, <1>7, <2>1, <2>2, <2>3, <2>4, <1>1 DEF FrameDone, In, Ended, Size
<1>8. CASE Addr3 = 0
  <2>1. reg' = Finished /\ window' = window /\ out' = out
    BY <1>1, <1>8 DEF Done, NoOutput, Kept
  <2>2. Readed
    BY <1>1, <1>2 DEF Readed
  <2>3. /\ Full(reg') /\ reg'.state = reg.state /\ reg'.bytes = reg.bytes
        /\ ~reg'.error /\ ~reg'.valid
        /\ reg'.addr = reg.addr /\ reg'.window_data = reg.window_data /\ reg'.offset = reg.offset
        /\ reg'.ML = reg.ML /\ reg'.LL = reg.LL /\ reg'.total = reg.total
    BY <1>1, <1>2, <2>1, <2>2 DEF Finished, Held, Before, Full, Fields
  <2>4. OutAt(a, x)'
    BY <1>4, <2>1, <2>3 DEF OutAt, Plain
  <2>5. OutOK'
    BY <2>4 DEF OutOK
  <2>6. LastCopied(s, from)'
    BY <2>3, <1>2 DEF LastCopied, Ended, In, Size, Copies
  <2> QED BY <1>8, <2>3, <2>5, <2>6, <1>1 DEF Addr3
<1> QED BY <1>7, <1>8

LEMMA Done64Steps ==
  ASSUME Fed, frame' = frame, NEW s, FrameDone(s), Done64
  PROVE  Full(reg') /\ reg'.offset \in Nat /\ FrameDone(s)' /\ ~reg'.error /\ ~reg'.valid
<1>1. Full(reg) /\ ~pins.reset /\ reg.offset \in Nat /\ pins.compressed_bytes = Size
  BY DEF Fed
<1>2. reg.ML = 0 /\ reg.LL = 0 /\ reg.offset = 0 /\ Readed
  BY <1>1 DEF FrameDone, Ended, Readed
<1>3. reg' = Finished /\ out' = out /\ window' = window
  BY <1>1 DEF Done64, NoOutput, Kept
<1>4. /\ Full(reg') /\ reg'.state = reg.state /\ reg'.bytes = reg.bytes
        /\ ~reg'.error /\ ~reg'.valid
      /\ reg'.offset = reg.offset /\ reg'.ML = reg.ML /\ reg'.LL = reg.LL /\ reg'.total = reg.total
      /\ reg'.window_data = reg.window_data
  BY <1>1, <1>2, <1>3 DEF Finished, Held, Before, Full, Fields
<1> QED BY <1>1, <1>3, <1>4 DEF FrameDone, Ended, Emitted, In, Size, Shaped

-----------------------------------------------------------------------------
(* Every clock of the decoder.                                                *)

DoneOK ==
  reg.done => ~reg.error /\ ~reg.valid /\ (In("S_Done_64") \/ (In("S_Done") /\ reg.addr % WordBytes = 0))

(* Where the clock leaves the decoder: in the block, or before the next one. *)
Stays(s, at, from) ==
  /\ Full(reg) /\ reg.offset \in Nat /\ DoneOK /\ (In("S_Done_64") \/ OutOK)
  /\ Where(s, at, from) \/ (s.match # 0 /\ AtNext(s, at, from))

LEMMA PutsStays ==
  ASSUME PutsNext, ~reg.done, NEW s, NEW at, NEW from,
         Where(s, at, from)' \/ (s.match # 0 /\ AtNext(s, at, from)')
  PROVE  Stays(s, at, from)'
BY DEF PutsNext, Stays, DoneOK

LEMMA SilentStays ==
  ASSUME Silent, OutOK, frame' = frame, ~reg.done, NEW s, NEW at, NEW from, Where(s, at, from)'
  PROVE  Stays(s, at, from)'
BY SilentPuts, PutsStays

(* A state runs its own action. *)
LEMMA StateRuns ==
  ASSUME Decode
  PROVE  /\ In("S_Idle") => Idle
         /\ In("S_Read_Token") => ReadToken
         /\ In("S_Read_Literals_Length") => ReadLiteralsLength
         /\ In("S_Read_Literals") => LiteralsDone \/ ReadLiterals
         /\ In("S_Read_Literals_64") => ReadLiterals64
         /\ In("S_Read_Offset") => ReadOffset
         /\ In("S_Read_Match_Offset") => ReadMatchOffset
         /\ In("S_Read_Match_Length") => ReadMatchLength
         /\ In("S_Copy_Matches") => CopyMatches
         /\ In("S_Copy_Matches_64") => CopyMatches64
         /\ In("S_Copy_Matches_64_8") => CopyMatches64_8
         /\ In("S_Done") => Done
         /\ In("S_Done_64") => Done64
BY DEF Decode, In, Idle, ReadToken, ReadLiteralsLength, LiteralsDone, ReadLiterals,
       ReadLiterals64, ReadOffset, ReadMatchOffset, ReadMatchLength, CopyMatches,
       CopyMatches64, CopyMatches64_8, Done, Done64

LEMMA DecodeSteps ==
  ASSUME Fed, DoneOK, In("S_Done_64") \/ OutOK, frame' = frame,
         NEW s, NEW at, NEW from, Located(s, at, from), Where(s, at, from), Decode
  PROVE  Stays(s, at, from)'
<1>1. CASE AtIdle(at, from)
  <2>1. In("S_Idle") /\ ~reg.done /\ OutOK /\ Idle
    BY <1>1, StateRuns DEF AtIdle, DoneOK, In
  <2>2. at \in Nat /\ at < Size /\ Size \in Nat
    BY BlockNumbers
  <2>3. AtToken(at, from)' /\ Silent
    BY <1>1, <2>1, <2>2, IdleSteps
  <2> QED BY <2>1, <2>3, SilentStays DEF Where
<1>2. CASE AtToken(at, from)
  <2>1. ~reg.done /\ OutOK /\ ReadToken
    BY <1>2, StateRuns DEF AtToken, DoneOK, In
  <2>2. (AtLiteralsLength(s, at, from)' \/ AtLiterals(s, at, from)') /\ Silent
    BY <1>2, <2>1, TokenSteps
  <2> QED BY <2>1, <2>2, SilentStays DEF Where
<1>3. CASE AtLiteralsLength(s, at, from)
  <2>1. ~reg.done /\ OutOK /\ ReadLiteralsLength
    BY <1>3, StateRuns DEF AtLiteralsLength, DoneOK, In
  <2>2. (AtLiteralsLength(s, at, from)' \/ AtLiterals(s, at, from)') /\ Silent
    BY <1>3, <2>1, LiteralsLengthSteps
  <2> QED BY <2>1, <2>2, SilentStays DEF Where
<1>4. CASE AtLiterals(s, at, from)
  <2>1. ~reg.done /\ OutOK /\ (LiteralsDone \/ ReadLiterals)
    BY <1>4, StateRuns DEF AtLiterals, DoneOK, In
  <2>2. CASE LiteralsDone
    <3>1. AtOffset(s, at, from)' /\ Silent
      BY <1>4, <2>2, LiteralsDoneSteps
    <3> QED BY <2>1, <3>1, SilentStays DEF Where
  <2>3. CASE ReadLiterals
    <3>1. (AtLiterals(s, at, from)' \/ AtLiterals64(s, at, from)') /\ PutsNext
      BY <1>4, <2>1, <2>3, LiteralsSteps
    <3> QED BY <2>1, <3>1, PutsStays DEF Where
  <2> QED BY <2>1, <2>2, <2>3
<1>5. CASE AtLiterals64(s, at, from)
  <2>1. ~reg.done /\ OutOK /\ ReadLiterals64
    BY <1>5, StateRuns DEF AtLiterals64, DoneOK, In
  <2>2. (AtLiterals(s, at, from)' \/ AtLiterals64(s, at, from)') /\ PutsNext
    BY <1>5, <2>1, Literals64Steps
  <2> QED BY <2>1, <2>2, PutsStays DEF Where
<1>6. CASE AtOffset(s, at, from)
  <2>1. ~reg.done /\ OutOK /\ ReadOffset
    BY <1>6, StateRuns DEF AtOffset, DoneOK, In
  <2>2. AtMatchOffset(s, at, from)' /\ Silent
    BY <1>6, <2>1, OffsetSteps
  <2> QED BY <2>1, <2>2, SilentStays DEF Where
<1>7. CASE AtMatchOffset(s, at, from)
  <2>1. ~reg.done /\ OutOK /\ ReadMatchOffset
    BY <1>7, StateRuns DEF AtMatchOffset, DoneOK, In
  <2>2. Silent /\ (LastCopied(s, from)' \/ AtMatchLength(s, at, from)' \/ AtCopy(s, at, from)')
    BY <1>7, <2>1, MatchOffsetSteps
  <2> QED BY <2>1, <2>2, SilentStays DEF Where
<1>8. CASE AtMatchLength(s, at, from)
  <2>1. ~reg.done /\ OutOK /\ ReadMatchLength
    BY <1>8, StateRuns DEF AtMatchLength, DoneOK, In
  <2>2. Silent /\ (AtMatchLength(s, at, from)' \/ AtCopy(s, at, from)')
    BY <1>8, <2>1, MatchLengthSteps
  <2> QED BY <2>1, <2>2, SilentStays DEF Where
<1>9. CASE AtCopy(s, at, from)
  <2>1. /\ ~reg.done /\ OutOK /\ s.match # 0
        /\ \/ In("S_Copy_Matches") /\ CopyMatches
           \/ CopyMatches64 \/ CopyMatches64_8
    BY <1>9, StateRuns DEF AtCopy, DoneOK, In
  <2>2. (AtCopy(s, at, from)' \/ AtNext(s, at, from)') /\ PutsNext
    BY <1>9, <2>1, CopySteps, CopyLongSteps
  <2> QED BY <2>1, <2>2, PutsStays DEF Where
<1>10. CASE LastCopied(s, from)
  <2>1. In("S_Done") /\ OutOK /\ Done
    BY <1>10, StateRuns DEF LastCopied, In
  <2>2. /\ Full(reg') /\ reg'.offset \in Nat
        /\ \/ FrameDone(s)' /\ Addr3 # 0 /\ reg'.done = reg.done /\ reg'.error = reg.error
           \/ LastCopied(s, from)' /\ OutOK' /\ reg'.addr % WordBytes = 0
              /\ ~reg'.error /\ ~reg'.valid
    BY <1>10, <2>1, DoneSteps
  <2> QED BY <2>1, <2>2 DEF Stays, Where, DoneOK, FrameDone, LastCopied, In, Addr3
<1>11. CASE FrameDone(s)
  <2>1. In("S_Done_64") /\ Done64
    BY <1>11, StateRuns DEF FrameDone
  <2>2. Full(reg') /\ reg'.offset \in Nat /\ FrameDone(s)' /\ ~reg'.error /\ ~reg'.valid
    BY <1>11, <2>1, Done64Steps
  <2> QED BY <2>2 DEF Stays, Where, DoneOK, FrameDone, In
<1> QED BY <1>1, <1>2, <1>3, <1>4, <1>5, <1>6, <1>7, <1>8, <1>9, <1>10, <1>11 DEF Where

(* Where the decoder is in its frame: at a place of a block of it, and what    *)
(* is before that place is out.                                               *)
AtBlock(seq, shade, k) == Where(seq[k], CodedTo(seq, shade, k), PlainTo(seq, shade, k))

Decoded ==
  /\ Full(reg) /\ reg.offset \in Nat /\ DoneOK /\ (In("S_Done_64") \/ OutOK)
  /\ \E seq, shade : InBlocks(frame, seq, shade) /\ \E k \in 1..Len(seq) : AtBlock(seq, shade, k)

LEMMA Block ==
  ASSUME NEW seq, NEW shade, InBlocks(frame, seq, shade), NEW k \in 1..Len(seq)
  PROVE  /\ Located(seq[k], CodedTo(seq, shade, k), PlainTo(seq, shade, k))
         /\ seq[k].match # 0 =>
              /\ k + 1 \in 1..Len(seq)
              /\ CodedTo(seq, shade, k + 1) = After(seq[k], CodedTo(seq, shade, k))
              /\ PlainTo(seq, shade, k + 1) = Copies(seq[k], PlainTo(seq, shade, k)) + seq[k].match
<1> DEFINE at   == CodedTo(seq, shade, k)
           from == PlainTo(seq, shade, k)
<1>1. /\ frame.plain \in Seq(Int) /\ Len(seq) \in Nat
      /\ IsBlock(frame, seq[k], at, from)
      /\ IF k = Len(seq) THEN IsLast(frame, seq[k], at, from)
         ELSE /\ IsMatch(frame, seq[k], at, from)
              /\ CodedTo(seq, shade, k + 1) = After(seq[k], at)
              /\ PlainTo(seq, shade, k + 1) = Copies(seq[k], from) + seq[k].match
  BY DEF InBlocks
<1> HIDE DEF at, from
<1>2. CASE k = Len(seq)
  <2>1. seq[k].match = 0
    BY <1>1, <1>2 DEF IsLast
  <2> QED BY <1>1, <1>2, <2>1 DEF Located, at, from
<1>3. CASE k # Len(seq)
  <2>1. IsMatch(frame, seq[k], at, from)
    BY <1>1, <1>3
  <2>2. seq[k].match >= MinMatch /\ seq[k].match \in Nat
    BY <1>1, <2>1 DEF IsMatch, IsBlock
  <2>3. seq[k].match # 0
    BY <2>2, Numbers
  <2>4. k + 1 \in 1..Len(seq)
    BY <1>1, <1>3
  <2> QED BY <1>1, <1>3, <2>1, <2>3, <2>4 DEF Located, at, from
<1> QED BY <1>2, <1>3

(* A decoder that has read and put out nothing. *)
LEMMA DecodedBegins ==
  ASSUME Full(reg), reg.offset \in Nat, reg.state = "S_Idle", reg.total = 0, reg.addr = 0,
         reg.bytes = 0, ~reg.done, DOMAIN reg.window_data = 1..WordBytes, IsWord(reg.window_data),
         DOMAIN window = 0..WindowSize - 1, out = <<>>, NEW seq, NEW shade,
         InBlocks(frame, seq, shade)
  PROVE  Decoded
<1>1. /\ frame.plain \in Seq(Int) /\ Len(seq) \in Nat \ {0}
      /\ CodedTo(seq, shade, 1) = 0 /\ PlainTo(seq, shade, 1) = 0
  BY DEF InBlocks
<1>2. AtBlock(seq, shade, 1) /\ 1 \in 1..Len(seq)
  BY <1>1 DEF AtBlock, Where, AtIdle, In
<1>3. OutOK
  <2>1. WordBytes * 0 = 0 /\ 0 \in 0..WordBytes - 1
    BY Numbers
  <2>2. out = [i \in 1..WordBytes * 0 |-> frame.plain[i]]
    BY <2>1
  <2>3. Len(frame.plain) \in Nat
    BY <1>1
  <2>4. OutAt(0, 0)
    BY <2>1, <2>2, <2>3 DEF OutAt
  <2> QED BY <2>1, <2>4 DEF OutOK
<1> QED BY <1>2, <1>3 DEF Decoded, DoneOK

(* It stays where it is in a clock that changes no more than paused and valid, *)
(* and goes on in one it runs in.                                             *)
LEMMA DecodedRests ==
  ASSUME Decoded, frame' = frame, window' = window, out' = out,
         Rest(reg', reg, {"paused", "valid"}), reg'.valid => reg.valid
  PROVE  Decoded'
<1>1. Full(reg') /\ \A f \in Fields \ {"paused", "valid"} : reg'[f] = reg[f]
  BY DEF Rest
<1>2. /\ reg'.state = reg.state /\ reg'.ML = reg.ML /\ reg'.LL = reg.LL /\ reg'.MP = reg.MP
      /\ reg'.offset = reg.offset /\ reg'.addr = reg.addr /\ reg'.bytes = reg.bytes
      /\ reg'.total = reg.total /\ reg'.done = reg.done /\ reg'.error = reg.error
      /\ reg'.data = reg.data /\ reg'.data_64 = reg.data_64 /\ reg'.window_data = reg.window_data
  BY <1>1 DEF Fields
<1>3. DoneOK' /\ (In("S_Done_64") \/ OutOK)'
  <2>1. DoneOK' /\ In("S_Done_64")' = In("S_Done_64")
    BY <1>2 DEF Decoded, DoneOK, In
  <2>2. CASE OutOK
    <3>1. PICK a \in Nat, x \in 0..WordBytes - 1 : OutAt(a, x)
      BY <2>2 DEF OutOK
    <3>2. \A n : Plain(n)' = Plain(n)
      BY DEF Plain
    <3>3. OutAt(a, x)'
      BY <1>2, <3>1, <3>2 DEF OutAt
    <3> QED BY <2>1, <3>3 DEF OutOK
  <2> QED BY <2>1, <2>2 DEF Decoded
<1>4. PICK seq, shade : InBlocks(frame, seq, shade) /\ \E k \in 1..Len(seq) : AtBlock(seq, shade, k)
  BY DEF Decoded
<1>5. PICK k \in 1..Len(seq) : AtBlock(seq, shade, k)
  BY <1>4
<1>6. AtBlock(seq, shade, k)'
  <2> DEFINE s    == seq[k]
             at   == CodedTo(seq, shade, k)
             from == PlainTo(seq, shade, k)
  <2> HIDE DEF s, at, from
  <2>1. /\ Size' = Size /\ Emitted' = Emitted
        /\ \A n : ByteAt(n)' = ByteAt(n) /\ Plain(n)' = Plain(n)
    BY <1>2 DEF Size, Emitted, ByteAt, Plain
  <2>2. /\ AtIdle(at, from)' = AtIdle(at, from) /\ AtToken(at, from)' = AtToken(at, from)
        /\ AtOffset(s, at, from)' = AtOffset(s, at, from)
        /\ AtMatchOffset(s, at, from)' = AtMatchOffset(s, at, from)
    BY <1>2, <2>1 DEF AtIdle, AtToken, AtOffset, AtMatchOffset, In, Lits, Offs, Copies
  <2>3. AtLiteralsLength(s, at, from)' = AtLiteralsLength(s, at, from)
    BY <1>2, <2>1 DEF AtLiteralsLength, In
  <2>4. /\ AtLiterals(s, at, from)' = AtLiterals(s, at, from)
        /\ AtLiterals64(s, at, from)' = AtLiterals64(s, at, from)
    BY <1>2, <2>1 DEF AtLiterals, AtLiterals64, In, Lits, Index
  <2>5. AtMatchLength(s, at, from)' = AtMatchLength(s, at, from)
    BY <1>2, <2>1 DEF AtMatchLength, In, Lits, Offs, Copies
  <2>6. AtCopy(s, at, from)' = AtCopy(s, at, from)
    BY <1>2, <2>1 DEF AtCopy, In, Lits, Offs, After, Copies, MP3, Addr3
  <2>7. LastCopied(s, from)' = LastCopied(s, from) /\ FrameDone(s)' = FrameDone(s)
    BY <1>2, <2>1 DEF LastCopied, FrameDone, Ended, In, Copies, Shaped
  <2>8. Where(s, at, from)
    BY <1>5 DEF AtBlock, s, at, from
  <2>9. Where(s, at, from)'
    BY <2>2, <2>3, <2>4, <2>5, <2>6, <2>7, <2>8 DEF Where
  <2> QED BY <2>9 DEF AtBlock, s, at, from
<1>7. reg'.offset \in Nat /\ InBlocks(frame, seq, shade)'
  BY <1>2, <1>4 DEF Decoded
<1> QED BY <1>1, <1>3, <1>5, <1>6, <1>7 DEF Decoded

LEMMA DecodedSteps ==
  ASSUME Decoded, Fed, Decode, frame' = frame
  PROVE  Decoded'
<1>1. PICK seq, shade : InBlocks(frame, seq, shade) /\ \E k \in 1..Len(seq) : AtBlock(seq, shade, k)
  BY DEF Decoded
<1>2. PICK k \in 1..Len(seq) : AtBlock(seq, shade, k)
  BY <1>1
<1> DEFINE at   == CodedTo(seq, shade, k)
           from == PlainTo(seq, shade, k)
<1>3. /\ Located(seq[k], at, from)
      /\ seq[k].match # 0 =>
           /\ k + 1 \in 1..Len(seq) /\ CodedTo(seq, shade, k + 1) = After(seq[k], at)
           /\ PlainTo(seq, shade, k + 1) = Copies(seq[k], from) + seq[k].match
  BY <1>1, Block
<1>4. Stays(seq[k], at, from)'
  BY <1>2, <1>3, DecodeSteps DEF Decoded, AtBlock
<1>5. \E j \in 1..Len(seq) : AtBlock(seq, shade, j)'
  <2>1. CASE Where(seq[k], at, from)'
    BY <2>1 DEF AtBlock
  <2>2. CASE seq[k].match # 0 /\ AtNext(seq[k], at, from)'
    <3>1. AtIdle(CodedTo(seq, shade, k + 1), PlainTo(seq, shade, k + 1))'
      BY <2>2, <1>3 DEF AtNext
    <3> QED BY <2>2, <3>1, <1>3 DEF AtBlock, Where
  <2> QED BY <1>4, <2>1, <2>2 DEF Stays
<1>6. InBlocks(frame, seq, shade)'
  BY <1>1
<1>7. Full(reg') /\ reg'.offset \in Nat /\ DoneOK' /\ (In("S_Done_64") \/ OutOK)'
  BY <1>4 DEF Stays
<1> QED BY <1>5, <1>6, <1>7 DEF Decoded

LEMMA DecodedPromises ==
  ASSUME Decoded
  PROVE  /\ DecodesPrefix /\ DoneIsWhole /\ Shaped /\ Len(frame.plain) \in Nat
         /\ reg.done => reg.bytes = Len(frame.plain) /\ ~reg.valid
<1>1. PICK seq, shade : InBlocks(frame, seq, shade) /\ \E k \in 1..Len(seq) : AtBlock(seq, shade, k)
  BY DEF Decoded
<1>2. PICK k \in 1..Len(seq) : AtBlock(seq, shade, k)
  BY <1>1
<1> DEFINE at   == CodedTo(seq, shade, k)
           from == PlainTo(seq, shade, k)
<1>3. Located(seq[k], at, from)
  BY <1>1, Block
<1>4. frame.plain \in Seq(Int) /\ SubSeq(frame.plain, 1, Len(frame.plain)) = frame.plain
  BY <1>3, SubSeqFull DEF Located
<1>5. In("S_Done_64") => Emitted = frame.plain /\ Shaped /\ reg.bytes = Len(frame.plain)
  BY <1>2 DEF AtBlock, Where, In, FrameDone, AtIdle, AtToken, AtLiteralsLength, AtLiterals,
         AtLiterals64, AtOffset, AtMatchOffset, AtMatchLength, AtCopy, LastCopied
<1>v. Len(frame.plain) \in Nat /\ (reg.done => ~reg.valid)
  BY <1>4 DEF Located, Decoded, DoneOK
<1>6. CASE In("S_Done_64")
  BY <1>4, <1>5, <1>6, <1>v DEF DecodesPrefix, IsPrefix, DoneIsWhole, Decoded, DoneOK
<1>7. CASE ~In("S_Done_64")
  <2>1. PICK a \in Nat, x \in 0..WordBytes - 1 : OutAt(a, x)
    BY <1>7 DEF Decoded, OutOK
  <2>2. x \in Nat /\ x < WordBytes
    BY Numbers
  <2>3. /\ reg.bytes \in Nat /\ reg.bytes <= Len(frame.plain) /\ Len(Emitted) = reg.bytes
        /\ Emitted = SubSeq(frame.plain, 1, reg.bytes)
    BY <1>4, <2>1, <2>2, OutEmitted
  <2>4. SubSeq(Emitted, 1, reg.bytes) = SubSeq(frame.plain, 1, reg.bytes)
    <3>1. /\ SubSeq(frame.plain, 1, reg.bytes) \in Seq(Int)
          /\ Len(SubSeq(frame.plain, 1, reg.bytes)) = reg.bytes
      BY <1>4, <2>3, FirstBytes
    <3> QED BY <2>3, <3>1, SubSeqFull
  <2>5. DecodesPrefix
    BY <2>3, <2>4 DEF DecodesPrefix, IsPrefix
  <2>6. ASSUME reg.done
        PROVE  Emitted = frame.plain /\ ~reg.error /\ reg.bytes = Len(frame.plain)
    <3>1. In("S_Done") /\ reg.addr % WordBytes = 0 /\ ~reg.error
      BY <1>7, <2>6 DEF Decoded, DoneOK
    <3>2. LastCopied(seq[k], from)
      BY <1>2, <3>1 DEF AtBlock, Where, In, FrameDone, AtIdle, AtToken, AtLiteralsLength, AtLiterals,
             AtLiterals64, AtOffset, AtMatchOffset, AtMatchLength, AtCopy
    <3>3. reg.addr = Len(frame.plain)
      BY <1>3, <3>2 DEF LastCopied, Ended, Located, IsLast
    <3>4. x = 0
      BY <2>1, <2>2, <3>1, WordBounds DEF OutAt, Addr3
    <3>5. reg.bytes = Len(frame.plain)
      <4>1. WordBytes * a \in Nat
        BY Numbers
      <4> QED BY <2>1, <3>3, <3>4, <4>1 DEF OutAt
    <3> QED BY <1>4, <2>3, <3>1, <3>5
  <2>7. Shaped
    BY <2>1 DEF OutAt, Shaped
  <2> QED BY <2>5, <2>6, <2>7, <1>v DEF DoneIsWhole
<1> QED BY <1>6, <1>7

-----------------------------------------------------------------------------
(* The decoder alone.                                                         *)

(* The inductive invariant of the decoder fed by bursts. *)
DecInv == Lz4Inv /\ Decoded /\ pins.compressed_bytes = Size

LEMMA DecFed ==
  ASSUME DecInv
  PROVE  Fed
<1>1. block_write_total \in Nat
  BY Constants DEF DecInv, Lz4Inv
<1> QED BY <1>1, Lz4InvUnread DEF DecInv, Lz4Inv, Fed, Decoded

LEMMA DecInitial ==
  ASSUME Init, EncodesFrames, EncodesBlocks
  PROVE  DecInv
<1>1. Lz4Inv /\ pins.compressed_bytes = Size
  BY Lz4Initial DEF Init
<1>2. PICK seq \in Frames : frame = Compress(seq, 0)
  BY DEF Init
<1>3. InBlocks(frame, seq, 0)
  BY <1>2 DEF EncodesBlocks
<1>4. reg = PowerOn /\ out = <<>> /\ DOMAIN window = 0..WindowSize - 1
  BY DEF Init, DecoderInit
<1>5. /\ Full(reg) /\ reg.offset \in Nat /\ reg.state = "S_Idle" /\ reg.total = 0 /\ reg.addr = 0
      /\ reg.bytes = 0 /\ ~reg.done /\ reg.window_data = Empty
  BY <1>4 DEF PowerOn, Full, Fields
<1>6. DOMAIN reg.window_data = 1..WordBytes /\ IsWord(reg.window_data)
  BY <1>5 DEF IsWord, Empty
<1>7. Decoded
  BY <1>3, <1>4, <1>5, <1>6, DecodedBegins
<1> QED BY <1>1, <1>7 DEF DecInv

LEMMA DecSteps ==
  ASSUME DecInv, [Next]_lz4Vars
  PROVE  DecInv'
<1>1. Lz4Inv'
  BY Lz4Steps DEF DecInv
<1>2. frame' = frame /\ pins' = pins
  BY DEF Next, Receive, Feed, PrepareBurst, Copy, Run, lz4Vars, source, input
<1>3. Decoded'
  <2>1. CASE Run
    BY <2>1, <1>2, DecFed, DecodedSteps DEF Run, DecInv
  <2>2. CASE UNCHANGED decoder
    BY <2>2, <1>2, DecodedRests DEF DecInv, decoder, Decoded, Rest
  <2> QED BY <2>1, <2>2 DEF Next, Receive, Feed, PrepareBurst, Copy, lz4Vars
<1> QED BY <1>1, <1>2, <1>3 DEF DecInv, Size

(* At every clock what came out is the beginning of the frame the encoder was *)
(* given: over every mix of bytes and words, of the window, of the word begun *)
(* and of the repeated one, at any place of a word, over any waits for        *)
(* bursts (lz4.v:181-536).  For every size and any frames of LZ4.             *)
THEOREM DecodedPrefix ==
  ASSUME EncodesFrames, EncodesBlocks
  PROVE  Lz4Spec => []DecodesPrefix
<1>1. Init => DecInv
  BY DecInitial
<1>2. DecInv /\ [Next]_lz4Vars => DecInv'
  BY DecSteps
<1>3. DecInv => DecodesPrefix
  BY DecodedPromises DEF DecInv
<1> QED BY <1>1, <1>2, <1>3, PTL DEF Lz4Spec

(* When the decoder says it is done the whole frame came out, its last word   *)
(* as well, and it finds no error (lz4.v:344-361).                            *)
THEOREM DecodedWhole ==
  ASSUME EncodesFrames, EncodesBlocks
  PROVE  Lz4Spec => []DoneIsWhole
<1>1. Init => DecInv
  BY DecInitial
<1>2. DecInv /\ [Next]_lz4Vars => DecInv'
  BY DecSteps
<1>3. DecInv => DoneIsWhole
  BY DecodedPromises DEF DecInv
<1> QED BY <1>1, <1>2, <1>3, PTL DEF Lz4Spec
===============================================================================
