---------------------------- MODULE Lz4Blit_proofs ----------------------------
(***************************************************************************)
(* Proofs about the LZ4 path of the core around its decoder: that the      *)
(* latches it takes are those of the frame whose number it read from the   *)
(* header (Inflates), from the invariant BlitInv, that it takes every long *)
(* the decoder puts out, once and in order (Taken), from BlitInv and       *)
(* TakeInv, that a frame it takes for inflated was put out and taken whole *)
(* (EndWhole), from these and WholeInv, and that the frame buffer then     *)
(* holds it (FramebufferKept), from all of them and BufferInv: one lemma   *)
(* for each part of them a clock can disturb, over lemmas that say what a  *)
(* clock of each state does.                                               *)
(***************************************************************************)
EXTENDS Lz4Blit, Lz4Decoder_proofs

-----------------------------------------------------------------------------
(* The inductive invariant.                                                   *)

(* The states that wait for a read of the DDR port. *)
Reading == {"S_Blit_Header_Lz4", "S_Blit_Copy_Lz4", "S_Delta_Copy"}

(* The states of a frame begun. *)
Begun == {"S_Blit_Prepare_Lz4", "S_Blit_Copy_Lz4", "S_Blit_Copy_End_Lz4",
          "S_Blit_Inflate_Lz4", "S_Blit_End_Lz4", "S_Delta_Prepare", "S_Delta_Copy"}

(* The fields the argument reads, of the records it knows no more about. *)
FieldsOK ==
  /\ {"state", "frame_ddr", "frame_lz4", "resume", "abort"} \subseteq DOMAIN core
  /\ {"run", "reset", "word"} \subseteq DOMAIN pins
  /\ {"req", "what", "burst"} \subseteq DOMAIN ddr
  /\ {"hps", "sent", "next", "last", "latch"} \subseteq DOMAIN env
  /\ "shade" \in DOMAIN env.next

(* The numbers of frames: none is read that was not sent. *)
CountersOK ==
  /\ block_write_total \in Nat /\ RegOK
  /\ core.frame_ddr \in Nat /\ core.frame_lz4 \in Nat /\ env.sent \in Nat
  /\ core.frame_ddr <= env.sent

(* A read is under way only in a state that waits for it. *)
PortOK ==
  /\ ddr.req \/ port.read_req => core.state \in Reading
  /\ port.reading => port.read_req /\ ~ddr.req
  /\ port.ready => ~ddr.req

(* In S_Blit_Header_Lz4 the port reads one word, the header, and while no      *)
(* frame is begun the header is that of the frame announced last.              *)
HeaderOK ==
  At("S_Blit_Header_Lz4") =>
    /\ ddr.what = "header" /\ ddr.burst = 1
    /\ port.reading => port.what = "header" /\ burst.left = 1
    /\ port.ready => /\ ~port.read_req
                     /\ port.dout.frame \in core.frame_ddr .. env.sent
                     /\ block_write_total = 0 => port.dout.frame = env.sent

(* The decoder is reset, and a word offered to it, in a few states only. *)
PinsOK ==
  /\ pins.reset => core.state \in {"S_Dispatcher", "S_Blit_Prepare_Lz4", "S_Blit_End_Lz4"}
  /\ pins.reset /\ At("S_Blit_End_Lz4") => core.abort
  /\ pins.word # NoLong => core.state \in {"S_Blit_Copy_Lz4", "S_Blit_Copy_End_Lz4"}

(* A frame between its begin and its end, over sounds and waits. *)
InProgress ==
  /\ core.frame_lz4 < core.frame_ddr
  /\ core.state \in Begun \/ block_write_total > 0 \/ core.resume

(* A frame is begun when its latches are those of the frame sent last, and    *)
(* the latches taken then stay those of the number taken with them.           *)
LatchesOK ==
  /\ At("S_Blit_Lz4") /\ block_write_total = 0 => core.frame_ddr = env.sent
  /\ ~env.hps => /\ env.latch = env.next
                 /\ InProgress => frame.shade = Named.shade

(* The inductive invariant of the core with its decoder. *)
BlitInv == FieldsOK /\ CountersOK /\ PortOK /\ HeaderOK /\ PinsOK /\ LatchesOK

-----------------------------------------------------------------------------
(* The clock of the decoder.                                                  *)

LEMMA DecoderClock ==
  ASSUME RegOK, block_write_total \in Nat, NEW b, Decoder(b)
  PROVE  /\ RegOK'
         /\ block_write_total' \in Nat
         /\ pins.word = NoLong => block_write_total' \in {0, block_write_total}
         /\ pins.word = NoLong /\ ~pins.reset => block_write_total' = block_write_total
<1>1. RegOK'
  <2>1. CASE Decode
    BY <2>1, Reads
  <2>2. CASE Pause
    <3>1. reg' = [Held EXCEPT !.paused = TRUE]
      BY <2>2 DEF Pause
    <3> QED
      BY <3>1, HeldCounts DEF RegOK, Counts
  <2>3. CASE reg' = [Before EXCEPT !.paused = FALSE]
    BY <2>3, HeldCounts DEF RegOK, Counts
  <2> QED
    BY <2>1, <2>2, <2>3 DEF Decoder
<1>2. WriteLong(pins.word)
  BY DEF Decoder
<1> QED
  BY <1>1, <1>2, Constants DEF WriteLong

-----------------------------------------------------------------------------
(* The states of the core, one clock each: what they do to the registers the  *)
(* invariant is about.                                                        *)

Keeps ==
  /\ core'.frame_ddr = core.frame_ddr /\ core'.frame_lz4 = core.frame_lz4
  /\ core'.resume = core.resume /\ core'.abort = core.abort

KeepsPins == pins'.reset = pins.reset /\ pins'.word = pins.word

KeepsRead == ddr'.what = ddr.what /\ ddr'.burst = ddr.burst

Answers(b) == ddr'.req <=> ddr.req /\ ~Busy(b) /\ ~port.ready

LEMMA DispatcherClock ==
  ASSUME FieldsOK, NEW b, Dispatcher(b)
  PROVE  /\ Keeps /\ ~pins'.reset /\ pins'.word = pins.word /\ frame' = frame
         /\ \/ core'.state \in {"S_Dispatcher", "S_Audio"} /\ ~ddr'.req
            \/ /\ core'.state = "S_Blit_Header_Lz4" /\ ~Busy(b)
               /\ ddr'.what = "header" /\ ddr'.burst = 1
BY DEF FieldsOK, Dispatcher, At, Keeps

LEMMA AudioClock ==
  ASSUME FieldsOK, NEW more, Audio(more)
  PROVE  /\ Keeps /\ KeepsPins /\ frame' = frame /\ ddr' = ddr
         /\ core'.state \in {"S_Dispatcher", "S_Audio"}
BY DEF FieldsOK, Audio, At, Keeps, KeepsPins

LEMMA HeaderClock ==
  ASSUME FieldsOK, NEW b, NEW late, HeaderLz4(b, late)
  PROVE  /\ KeepsPins /\ frame' = frame /\ KeepsRead /\ Answers(b)
         /\ \/ ~port.ready /\ Keeps /\ core'.state = "S_Blit_Header_Lz4"
            \/ port.ready /\ Resumes /\ Keeps /\ core'.state = "S_Blit_Copy_End_Lz4"
            \/ /\ port.ready /\ ~Resumes /\ BeginsAnother(port.dout)
               /\ core'.state = "S_Blit_Lz4" /\ core'.frame_ddr = core.frame_ddr
               /\ core'.frame_lz4 = core.frame_lz4 /\ core'.resume = core.resume
            \/ /\ port.ready /\ ~Resumes /\ ~BeginsAnother(port.dout)
               /\ core'.state \in {"S_Blit_Lz4", "S_Dispatcher"}
               /\ core'.frame_ddr = port.dout.frame
               /\ core'.frame_lz4 = core.frame_lz4 /\ core'.resume = core.resume
<1> DEFINE looks == [core EXCEPT !.FB = late, !.vram_reset = ~env.synced]
           found == [looks EXCEPT !.auto = core.frame_lz4 < port.dout.frame]
<1>1. /\ looks.state = "S_Blit_Header_Lz4" /\ looks.frame_ddr = core.frame_ddr
      /\ looks.frame_lz4 = core.frame_lz4 /\ looks.resume = core.resume
      /\ looks.abort = core.abort
      /\ {"state", "frame_ddr", "frame_lz4", "resume", "abort"} \subseteq DOMAIN looks
  BY DEF FieldsOK, HeaderLz4, At
<1> HIDE DEF looks
<1>2. /\ found.frame_ddr = core.frame_ddr
      /\ found.frame_lz4 = core.frame_lz4 /\ found.resume = core.resume
      /\ found.abort = core.abort
      /\ {"state", "frame_ddr", "frame_lz4", "resume", "abort"} \subseteq DOMAIN found
  BY <1>1
<1>3. KeepsPins /\ frame' = frame
  BY DEF HeaderLz4, KeepsPins
<1>4. KeepsRead /\ Answers(b)
  BY DEF HeaderLz4, KeepsRead, Answers, FieldsOK
<1>5. \/ ~port.ready /\ core' = looks
      \/ port.ready /\ Resumes /\ core' = [found EXCEPT !.state = "S_Blit_Copy_End_Lz4"]
      \/ /\ port.ready /\ ~Resumes /\ BeginsAnother(port.dout)
         /\ core' = [found EXCEPT !.state = "S_Blit_Lz4", !.abort = FALSE]
      \/ /\ port.ready /\ ~Resumes /\ ~BeginsAnother(port.dout)
         /\ core' = [found EXCEPT
              !.state = IF late \/ env.synced THEN "S_Blit_Lz4" ELSE "S_Dispatcher",
              !.frame_ddr = port.dout.frame,
              !.abort = port.dout.abort /\ port.dout.told # pins.compressed_bytes]
  BY DEF HeaderLz4, looks
<1> HIDE DEF found
<1> QED
  BY <1>1, <1>2, <1>3, <1>4, <1>5 DEF Keeps

LEMMA BlitClock ==
  ASSUME FieldsOK, BlitLz4
  PROVE  /\ Keeps /\ ddr' = ddr /\ pins'.word = pins.word
         /\ \/ core'.state = "S_Dispatcher" /\ frame' = frame /\ pins' = pins
            \/ /\ core'.state \in {"S_Blit_Prepare_Lz4", "S_Blit_End_Lz4"}
               /\ block_write_total # 0 /\ frame' = frame /\ pins' = pins
            \/ /\ core'.state \in {"S_Blit_Prepare_Lz4", "S_Blit_End_Lz4"}
               /\ core'.state = "S_Blit_End_Lz4" => core.abort
               /\ block_write_total = 0 /\ frame' = env.latch
BY DEF FieldsOK, BlitLz4, At, Keeps

LEMMA PrepareClock ==
  ASSUME FieldsOK, NEW b, PrepareLz4(b)
  PROVE  /\ Keeps /\ frame' = frame /\ ~pins'.reset /\ pins'.word = pins.word
         /\ \/ core'.state \in {"S_Dispatcher", "S_Blit_Prepare_Lz4"} /\ ~ddr'.req
            \/ core'.state = "S_Blit_Copy_Lz4" /\ ~Busy(b)
BY DEF FieldsOK, PrepareLz4, At, Keeps

LEMMA CopyClock ==
  ASSUME FieldsOK, NEW b, CopyLz4(b)
  PROVE  /\ Keeps /\ frame' = frame /\ pins'.reset = pins.reset /\ Answers(b)
         /\ \/ core'.state = "S_Blit_Copy_Lz4"
            \/ core'.state = "S_Blit_Copy_End_Lz4" /\ port.ready /\ ~Busy(b)
BY DEF FieldsOK, CopyLz4, At, Keeps, Answers

LEMMA CopyEndClock ==
  ASSUME FieldsOK, CopyEndLz4
  PROVE  /\ Keeps /\ frame' = frame /\ pins'.reset = pins.reset /\ pins'.word = NoLong
         /\ ddr' = ddr /\ core'.state \in {"S_Delta_Prepare", "S_Blit_Inflate_Lz4"}
BY DEF FieldsOK, CopyEndLz4, At, Keeps

LEMMA InflateClock ==
  ASSUME FieldsOK, NEW b, NEW ready, InflateLz4(b, ready)
  PROVE  /\ Keeps /\ frame' = frame /\ KeepsPins /\ ddr'.req = ddr.req
         /\ core'.state \in {"S_Blit_Inflate_Lz4", "S_Blit_End_Lz4"}
<1> DEFINE waits == pins.run \/ (ddr.write /\ Busy(b))
           next  == [core EXCEPT !.state = IF waits THEN @ ELSE "S_Blit_End_Lz4"]
           taken == [next EXCEPT !.wr = @ + 1,
                       !.px = IF ~core.FB /\ env.synced THEN @ + 1 ELSE @]
           Inflates(r) == /\ r.frame_ddr = core.frame_ddr /\ r.frame_lz4 = core.frame_lz4
                      /\ r.resume = core.resume /\ r.abort = core.abort
                      /\ r.state \in {"S_Blit_Inflate_Lz4", "S_Blit_End_Lz4"}
                      /\ {"state", "frame_ddr", "frame_lz4", "resume", "abort"} \subseteq DOMAIN r
<1>1. Inflates(next)
  BY DEF FieldsOK, InflateLz4, At
<1>2. Inflates(taken)
  <2> HIDE DEF next
  <2> QED
    BY <1>1
<1>3. Inflates([taken EXCEPT !.index = (@ + 1) % BlocksSize,
                         !.delta_req = core.index = BlocksSize - 1])
  <2> HIDE DEF taken
  <2> QED
    BY <1>2
<1>4. core' \in {next, taken, [taken EXCEPT !.index = (@ + 1) % BlocksSize,
                                            !.delta_req = core.index = BlocksSize - 1]}
  BY DEF InflateLz4
<1>5. frame' = frame /\ KeepsPins /\ ddr'.req = ddr.req
  BY DEF FieldsOK, InflateLz4, KeepsPins
<1> HIDE DEF next, taken
<1> QED
  BY <1>1, <1>2, <1>3, <1>4, <1>5 DEF Keeps

LEMMA EndClock ==
  ASSUME FieldsOK, EndLz4
  PROVE  /\ frame' = frame /\ pins'.word = pins.word /\ ddr'.req = ddr.req
         /\ core'.frame_ddr = core.frame_ddr
         /\ \/ /\ core'.state = "S_Dispatcher"
               /\ core'.frame_lz4 = core.frame_ddr
            \/ /\ ~core.abort /\ core'.frame_lz4 = core.frame_lz4
               /\ core'.state \in {"S_Dispatcher", "S_Delta_Prepare", "S_Blit_Prepare_Lz4"}
               /\ core'.state = "S_Dispatcher" => core'.resume
               /\ pins'.reset = pins.reset
BY DEF FieldsOK, EndLz4, Ends, At

LEMMA DeltaPrepareClock ==
  ASSUME FieldsOK, NEW b, DeltaPrepare(b)
  PROVE  /\ Keeps /\ frame' = frame /\ pins' = pins
         /\ \/ core'.state = "S_Delta_Prepare" /\ ~ddr'.req
            \/ core'.state = "S_Delta_Copy" /\ ~Busy(b)
BY DEF FieldsOK, DeltaPrepare, At, Keeps

LEMMA DeltaCopyClock ==
  ASSUME FieldsOK, NEW b, DeltaCopy(b)
  PROVE  /\ Keeps /\ frame' = frame /\ pins' = pins /\ Answers(b)
         /\ \/ core'.state = "S_Delta_Copy"
            \/ core'.state = "S_Blit_Copy_End_Lz4" /\ port.ready /\ ~Busy(b)
BY DEF FieldsOK, DeltaCopy, At, Keeps, Answers

-----------------------------------------------------------------------------
(* A clock of everything.                                                     *)

KeepsEnv ==
  /\ env'.hps = env.hps /\ env'.sent = env.sent /\ env'.next = env.next
  /\ env'.last = env.last /\ env'.latch = env.latch

LEMMA EnvClock ==
  ASSUME FieldsOK, NEW b, NEW good, CoreClock(b, good)
  PROVE  KeepsEnv /\ {"hps", "sent", "next", "last", "latch"} \subseteq DOMAIN env'
<1>1. CASE Quiet
  BY <1>1 DEF Quiet, KeepsEnv, FieldsOK
<1>2. CASE Dispatcher(b)
  BY <1>2 DEF Dispatcher, KeepsEnv, FieldsOK
<1>3. Quiet \/ Dispatcher(b)
  BY DEF CoreClock, Audio, HeaderLz4, BlitLz4, PrepareLz4, CopyLz4, CopyEndLz4,
         InflateLz4, EndLz4, DeltaPrepare, DeltaCopy
<1> QED
  BY <1>1, <1>2, <1>3

LEMMA DomainsClock ==
  ASSUME FieldsOK, NEW b, NEW good, CoreClock(b, good)
  PROVE  /\ DOMAIN core' = DOMAIN core /\ DOMAIN pins' = DOMAIN pins
         /\ DOMAIN ddr' = DOMAIN ddr
<1>1. CASE Dispatcher(b)
  BY <1>1 DEF Dispatcher
<1>2. ASSUME NEW more, Audio(more)
      PROVE  DOMAIN core' = DOMAIN core /\ DOMAIN pins' = DOMAIN pins /\ DOMAIN ddr' = DOMAIN ddr
  BY <1>2 DEF Audio
<1>3. ASSUME NEW late, HeaderLz4(b, late)
      PROVE  DOMAIN core' = DOMAIN core /\ DOMAIN pins' = DOMAIN pins /\ DOMAIN ddr' = DOMAIN ddr
  BY <1>3 DEF HeaderLz4
<1>4. CASE BlitLz4
  BY <1>4 DEF BlitLz4
<1>5. CASE PrepareLz4(b)
  BY <1>5 DEF PrepareLz4
<1>6. CASE CopyLz4(b)
  BY <1>6 DEF CopyLz4
<1>7. CASE CopyEndLz4
  BY <1>7 DEF CopyEndLz4
<1>8. ASSUME NEW ready, InflateLz4(b, ready)
      PROVE  DOMAIN core' = DOMAIN core /\ DOMAIN pins' = DOMAIN pins /\ DOMAIN ddr' = DOMAIN ddr
  BY <1>8 DEF InflateLz4
<1>9. CASE EndLz4
  BY <1>9 DEF EndLz4
<1>10. CASE DeltaPrepare(b)
  BY <1>10 DEF DeltaPrepare
<1>11. CASE DeltaCopy(b)
  BY <1>11 DEF DeltaCopy
<1> QED
  BY <1>1, <1>2, <1>3, <1>4, <1>5, <1>6, <1>7, <1>8, <1>9, <1>10, <1>11 DEF CoreClock

LEMMA FieldsClock ==
  ASSUME FieldsOK, NEW b, NEW good, CoreClock(b, good)
  PROVE  FieldsOK'
BY EnvClock, DomainsClock DEF FieldsOK, KeepsEnv

(* What the port does in a clock. *)
LEMMA PortClock ==
  ASSUME NEW b \in BOOLEAN, NEW d \in BOOLEAN, Port(b, d)
  PROVE  /\ d => port.reading
         /\ port'.ready = d
         /\ port'.read_req => port.read_req \/ (ddr.req /\ ~port.old_rd)
         /\ port'.read_req => ~(d /\ burst.left = 1)
         /\ port'.reading => \/ port.reading /\ ~(d /\ burst.left = 1)
                             \/ port.read_req /\ ~port.reading
         /\ port.read_req /\ ~(d /\ burst.left = 1) => port'.read_req
         /\ ~port.reading /\ port'.reading => port'.what = ddr.what /\ burst'.left = ddr.burst
         /\ port.reading => port'.what = port.what
         /\ port.reading /\ ~d => burst' = burst
         /\ d => port'.dout = Memory(port.what, burst.next)
BY DEF Port

LEMMA PortOKClock ==
  ASSUME BlitInv, NEW b \in BOOLEAN, NEW d \in BOOLEAN, NEW good, Clock(b, d, good)
  PROVE  PortOK'
<1> DEFINE P == /\ ddr'.req \/ port'.read_req => core'.state \in Reading
                /\ port'.reading => port'.read_req /\ ~ddr'.req
                /\ port'.ready => ~ddr'.req
<1> SUFFICES P
  BY DEF PortOK
<1>0. Port(b, d) /\ FieldsOK /\ PortOK
  BY DEF Clock, BlitInv
<1>p. /\ d => port.reading
      /\ port'.ready = d
      /\ port'.read_req => port.read_req \/ (ddr.req /\ ~port.old_rd)
      /\ port'.reading => \/ port.reading /\ ~(d /\ burst.left = 1)
                          \/ port.read_req /\ ~port.reading
      /\ port.read_req /\ ~(d /\ burst.left = 1) => port'.read_req
  BY <1>0, PortClock
<1>q. /\ ddr.req \/ port.read_req => core.state \in Reading
      /\ port.reading => port.read_req /\ ~ddr.req
      /\ port.ready => ~ddr.req
  BY <1>0 DEF PortOK
<1>r. port'.reading => port'.read_req
  BY <1>p, <1>q
(* The core is in no state that reads, and begins none. *)
<1>i. ASSUME core.state \notin Reading, ~ddr'.req
      PROVE  P
  BY <1>i, <1>p, <1>q, <1>r
(* It begins one. *)
<1>b. ASSUME core.state \notin Reading, ~Busy(b), core'.state \in Reading
      PROVE  P
  BY <1>b, <1>p, <1>q, <1>r DEF Busy
(* It waits for one. *)
<1>w. ASSUME core.state \in Reading, Answers(b), core'.state \in Reading
      PROVE  P
  BY <1>w, <1>p, <1>q, <1>r DEF Answers, Busy
(* It has had one. *)
<1>e. ASSUME core.state \in Reading, Answers(b), port.ready, ~port.read_req
      PROVE  P
  BY <1>e, <1>p, <1>q, <1>r DEF Answers
<1>1. CASE Dispatcher(b)
  <2>1. core.state \notin Reading
    BY <1>1 DEF Dispatcher, At, Reading
  <2>2. ~ddr'.req \/ (core'.state \in Reading /\ ~Busy(b))
    BY <1>1, <1>0, DispatcherClock DEF Reading
  <2> QED
    BY <2>1, <2>2, <1>i, <1>b
<1>2. ASSUME NEW more, Audio(more)
      PROVE  P
  <2>1. core.state \notin Reading
    BY <1>2 DEF Audio, At, Reading
  <2> QED
    BY <2>1, <1>2, <1>0, <1>q, <1>i, AudioClock
<1>3. ASSUME NEW late, HeaderLz4(b, late)
      PROVE  P
  <2>1. At("S_Blit_Header_Lz4") /\ core.state \in Reading
    BY <1>3 DEF HeaderLz4, At, Reading
  <2>2. Answers(b) /\ (port.ready \/ core'.state \in Reading)
    BY <1>3, <1>0, HeaderClock DEF Reading
  <2>3. port.ready => ~port.read_req
    BY <2>1 DEF BlitInv, HeaderOK
  <2> QED
    BY <2>1, <2>2, <2>3, <1>w, <1>e
<1>4. CASE BlitLz4
  <2>1. core.state \notin Reading
    BY <1>4 DEF BlitLz4, At, Reading
  <2> QED
    BY <2>1, <1>4, <1>0, <1>q, <1>i, BlitClock
<1>5. CASE PrepareLz4(b)
  <2>1. core.state \notin Reading
    BY <1>5 DEF PrepareLz4, At, Reading
  <2>2. ~ddr'.req \/ (core'.state \in Reading /\ ~Busy(b))
    BY <1>5, <1>0, PrepareClock DEF Reading
  <2> QED
    BY <2>1, <2>2, <1>i, <1>b
<1>6. CASE CopyLz4(b)
  <2>1. core.state \in Reading
    BY <1>6 DEF CopyLz4, At, Reading
  <2>2. Answers(b) /\ (core'.state \in Reading \/ (port.ready /\ ~Busy(b)))
    BY <1>6, <1>0, CopyClock DEF Reading
  <2> QED
    BY <2>1, <2>2, <1>w, <1>e DEF Busy
<1>7. CASE CopyEndLz4
  <2>1. core.state \notin Reading
    BY <1>7 DEF CopyEndLz4, At, Reading
  <2> QED
    BY <2>1, <1>7, <1>0, <1>q, <1>i, CopyEndClock
<1>8. ASSUME NEW ready, InflateLz4(b, ready)
      PROVE  P
  <2>1. core.state \notin Reading
    BY <1>8 DEF InflateLz4, At, Reading
  <2> QED
    BY <2>1, <1>8, <1>0, <1>q, <1>i, InflateClock
<1>9. CASE EndLz4
  <2>1. core.state \notin Reading
    BY <1>9 DEF EndLz4, At, Reading
  <2> QED
    BY <2>1, <1>9, <1>0, <1>q, <1>i, EndClock
<1>10. CASE DeltaPrepare(b)
  <2>1. core.state \notin Reading
    BY <1>10 DEF DeltaPrepare, At, Reading
  <2>2. ~ddr'.req \/ (core'.state \in Reading /\ ~Busy(b))
    BY <1>10, <1>0, DeltaPrepareClock DEF Reading
  <2> QED
    BY <2>1, <2>2, <1>i, <1>b
<1>11. CASE DeltaCopy(b)
  <2>1. core.state \in Reading
    BY <1>11 DEF DeltaCopy, At, Reading
  <2>2. Answers(b) /\ (core'.state \in Reading \/ (port.ready /\ ~Busy(b)))
    BY <1>11, <1>0, DeltaCopyClock DEF Reading
  <2> QED
    BY <2>1, <2>2, <1>w, <1>e DEF Busy
<1> QED
  BY <1>1, <1>2, <1>3, <1>4, <1>5, <1>6, <1>7, <1>8, <1>9, <1>10, <1>11 DEF Clock, CoreClock

LEMMA HeaderOKClock ==
  ASSUME BlitInv, NEW b \in BOOLEAN, NEW d \in BOOLEAN, NEW good, Clock(b, d, good)
  PROVE  HeaderOK'
<1>0. Port(b, d) /\ CoreClock(b, good) /\ FieldsOK /\ PortOK /\ HeaderOK /\ CountersOK
  BY DEF Clock, BlitInv
<1>1. KeepsEnv
  BY <1>0, EnvClock
<1> SUFFICES ASSUME core'.state = "S_Blit_Header_Lz4"
             PROVE  HeaderOK'
  BY DEF HeaderOK, At
<1>2. \/ /\ ~Busy(b) /\ ddr'.what = "header" /\ ddr'.burst = 1
      \/ /\ core.state = "S_Blit_Header_Lz4" /\ KeepsRead /\ Keeps
  <2>1. CASE Dispatcher(b)
    BY <2>1, <1>0, DispatcherClock
  <2>2. ASSUME NEW more, Audio(more)
        PROVE  FALSE
    BY <2>2, <1>0, AudioClock
  <2>3. ASSUME NEW late, HeaderLz4(b, late)
        PROVE  core.state = "S_Blit_Header_Lz4" /\ KeepsRead /\ Keeps
    BY <2>3, <1>0, HeaderClock DEF HeaderLz4, At
  <2>4. CASE BlitLz4
    BY <2>4, <1>0, BlitClock
  <2>5. CASE PrepareLz4(b)
    BY <2>5, <1>0, PrepareClock
  <2>6. CASE CopyLz4(b)
    BY <2>6, <1>0, CopyClock
  <2>7. CASE CopyEndLz4
    BY <2>7, <1>0, CopyEndClock
  <2>8. ASSUME NEW ready, InflateLz4(b, ready)
        PROVE  FALSE
    BY <2>8, <1>0, InflateClock
  <2>9. CASE EndLz4
    BY <2>9, <1>0, EndClock
  <2>10. CASE DeltaPrepare(b)
    BY <2>10, <1>0, DeltaPrepareClock
  <2>11. CASE DeltaCopy(b)
    BY <2>11, <1>0, DeltaCopyClock
  <2> QED
    BY <1>0, <2>1, <2>2, <2>3, <2>4, <2>5, <2>6, <2>7, <2>8, <2>9, <2>10, <2>11 DEF CoreClock
<1>p. /\ d => port.reading
      /\ port'.ready = d
      /\ port'.read_req => ~(d /\ burst.left = 1)
      /\ port'.reading => \/ port.reading /\ ~(d /\ burst.left = 1)
                          \/ port.read_req /\ ~port.reading
      /\ ~port.reading /\ port'.reading => port'.what = ddr.what /\ burst'.left = ddr.burst
      /\ port.reading => port'.what = port.what
      /\ port.reading /\ ~d => burst' = burst
      /\ d => port'.dout = Memory(port.what, burst.next)
  BY <1>0, PortClock
<1>3. CASE ~Busy(b) /\ ddr'.what = "header" /\ ddr'.burst = 1
  <2>1. ~port.read_req /\ ~port.reading
    BY <1>3, <1>0 DEF Busy, PortOK
  <2>2. ~port'.reading /\ ~port'.ready
    BY <2>1, <1>p
  <2> QED
    BY <2>2, <1>3 DEF HeaderOK
<1>4. CASE core.state = "S_Blit_Header_Lz4" /\ KeepsRead /\ Keeps
  <2>1. /\ ddr.what = "header" /\ ddr.burst = 1
        /\ port.reading => port.what = "header" /\ burst.left = 1
    BY <1>0, <1>4 DEF HeaderOK, At
  <2>2. port'.reading => port'.what = "header" /\ burst'.left = 1
    BY <2>1, <1>p
  <2>3. ASSUME port'.ready
        PROVE  ~port'.read_req /\ port'.dout.frame = env'.sent
               /\ core'.frame_ddr <= env'.sent
    <3>1. d /\ port.what = "header" /\ burst.left = 1
      BY <2>3, <2>1, <1>p
    <3>2. port'.dout.frame = env.sent
      BY <3>1, <1>p DEF Memory
    <3> QED
      BY <3>1, <3>2, <1>p, <1>0, <1>1, <1>4 DEF KeepsEnv, Keeps, CountersOK
  <2>4. core'.frame_ddr \in Nat /\ env'.sent \in Nat
    BY <1>0, <1>1, <1>4 DEF KeepsEnv, Keeps, CountersOK
  <2>5. ddr'.what = "header" /\ ddr'.burst = 1
    BY <2>1, <1>4 DEF KeepsRead
  <2>6. port'.ready => port'.dout.frame \in core'.frame_ddr .. env'.sent
    BY <2>3, <2>4
  <2> QED
    BY <2>2, <2>3, <2>5, <2>6 DEF HeaderOK
<1> QED
  BY <1>2, <1>3, <1>4

LEMMA PinsOKClock ==
  ASSUME BlitInv, NEW b \in BOOLEAN, NEW d \in BOOLEAN, NEW good, Clock(b, d, good)
  PROVE  PinsOK'
<1>0. CoreClock(b, good) /\ FieldsOK
  BY DEF Clock, BlitInv
<1> DEFINE P == /\ pins'.reset => core'.state \in {"S_Dispatcher", "S_Blit_Prepare_Lz4",
                                                 "S_Blit_End_Lz4"}
                /\ pins'.reset /\ core'.state = "S_Blit_End_Lz4" => core'.abort
                /\ pins'.word # NoLong => core'.state \in {"S_Blit_Copy_Lz4",
                                                           "S_Blit_Copy_End_Lz4"}
<1> SUFFICES P
  BY DEF PinsOK, At
<1>q. /\ pins.reset => core.state \in {"S_Dispatcher", "S_Blit_Prepare_Lz4", "S_Blit_End_Lz4"}
      /\ pins.reset /\ core.state = "S_Blit_End_Lz4" => core.abort
      /\ pins.word # NoLong => core.state \in {"S_Blit_Copy_Lz4", "S_Blit_Copy_End_Lz4"}
  BY DEF BlitInv, PinsOK, At
<1>1. CASE Dispatcher(b)
  <2>1. core.state = "S_Dispatcher"
    BY <1>1 DEF Dispatcher, At
  <2> QED
    BY <2>1, <1>1, <1>0, <1>q, DispatcherClock
<1>2. ASSUME NEW more, Audio(more)
      PROVE  P
  <2>1. core.state = "S_Audio"
    BY <1>2 DEF Audio, At
  <2> QED
    BY <2>1, <1>2, <1>0, <1>q, AudioClock DEF KeepsPins
<1>3. ASSUME NEW late, HeaderLz4(b, late)
      PROVE  P
  <2>1. core.state = "S_Blit_Header_Lz4"
    BY <1>3 DEF HeaderLz4, At
  <2> QED
    BY <2>1, <1>3, <1>0, <1>q, HeaderClock DEF KeepsPins
<1>4. CASE BlitLz4
  <2>1. core.state = "S_Blit_Lz4"
    BY <1>4 DEF BlitLz4, At
  <2> QED
    BY <2>1, <1>4, <1>0, <1>q, BlitClock DEF Keeps
<1>5. CASE PrepareLz4(b)
  <2>1. core.state = "S_Blit_Prepare_Lz4"
    BY <1>5 DEF PrepareLz4, At
  <2> QED
    BY <2>1, <1>5, <1>0, <1>q, PrepareClock
<1>6. CASE CopyLz4(b)
  <2>1. core.state = "S_Blit_Copy_Lz4"
    BY <1>6 DEF CopyLz4, At
  <2> QED
    BY <2>1, <1>6, <1>0, <1>q, CopyClock
<1>7. CASE CopyEndLz4
  <2>1. core.state = "S_Blit_Copy_End_Lz4"
    BY <1>7 DEF CopyEndLz4, At
  <2> QED
    BY <2>1, <1>7, <1>0, <1>q, CopyEndClock
<1>8. ASSUME NEW ready, InflateLz4(b, ready)
      PROVE  P
  <2>1. core.state = "S_Blit_Inflate_Lz4"
    BY <1>8 DEF InflateLz4, At
  <2> QED
    BY <2>1, <1>8, <1>0, <1>q, InflateClock DEF KeepsPins
<1>9. CASE EndLz4
  <2>1. core.state = "S_Blit_End_Lz4"
    BY <1>9 DEF EndLz4, At
  <2> QED
    BY <2>1, <1>9, <1>0, <1>q, EndClock
<1>10. CASE DeltaPrepare(b)
  <2>1. core.state = "S_Delta_Prepare"
    BY <1>10 DEF DeltaPrepare, At
  <2> QED
    BY <2>1, <1>10, <1>0, <1>q, DeltaPrepareClock
<1>11. CASE DeltaCopy(b)
  <2>1. core.state = "S_Delta_Copy"
    BY <1>11 DEF DeltaCopy, At
  <2> QED
    BY <2>1, <1>11, <1>0, <1>q, DeltaCopyClock
<1> QED
  BY <1>0, <1>1, <1>2, <1>3, <1>4, <1>5, <1>6, <1>7, <1>8, <1>9, <1>10, <1>11 DEF CoreClock

(* The header the core takes up is of the frame begun, if one is.             *)
LEMMA HeaderTaken ==
  ASSUME BlitInv, At("S_Blit_Header_Lz4"), port.ready, ~Resumes, ~BeginsAnother(port.dout)
  PROVE  /\ port.dout.frame \in Nat /\ port.dout.frame <= env.sent
         /\ block_write_total = 0 => port.dout.frame = env.sent
         /\ block_write_total # 0 => port.dout.frame = core.frame_ddr
         /\ ~core.resume
BY DEF BlitInv, HeaderOK, CountersOK, Resumes, BeginsAnother

LEMMA CountersOKClock ==
  ASSUME BlitInv, NEW b \in BOOLEAN, NEW d \in BOOLEAN, NEW good, Clock(b, d, good)
  PROVE  CountersOK'
<1>0. CoreClock(b, good) /\ Decoder(b) /\ FieldsOK /\ CountersOK
  BY DEF Clock, BlitInv
<1>1. block_write_total' \in Nat /\ RegOK'
  BY <1>0, DecoderClock DEF CountersOK
<1>2. KeepsEnv
  BY <1>0, EnvClock
<1> DEFINE P == /\ core'.frame_ddr \in Nat /\ core'.frame_ddr <= env.sent
                /\ core'.frame_lz4 \in {core.frame_ddr, core.frame_lz4}
<1>q. /\ core.frame_ddr \in Nat /\ core.frame_lz4 \in Nat /\ env.sent \in Nat
      /\ core.frame_ddr <= env.sent
  BY <1>0 DEF CountersOK
<1> SUFFICES P
  BY <1>1, <1>2, <1>q DEF CountersOK, KeepsEnv
<1>k. Keeps => P
  BY <1>q DEF Keeps
<1>3. ASSUME NEW late, HeaderLz4(b, late)
      PROVE  P
  <2>1. At("S_Blit_Header_Lz4")
    BY <1>3 DEF HeaderLz4
  <2> QED
    BY <2>1, <1>3, <1>0, <1>q, HeaderTaken, HeaderClock DEF Keeps
<1>9. CASE EndLz4
  <2>1. core'.frame_ddr = core.frame_ddr
    BY <1>9, <1>0, EndClock
  <2>2. core'.frame_lz4 \in {core.frame_ddr, core.frame_lz4}
    BY <1>9, <1>0, EndClock
  <2> QED
    BY <2>1, <2>2, <1>q
<1>2a. CASE Dispatcher(b)
  BY <1>2a, <1>0, <1>k, DispatcherClock
<1>2b. ASSUME NEW more, Audio(more)
       PROVE  P
  BY <1>2b, <1>0, <1>k, AudioClock
<1>4. CASE BlitLz4
  BY <1>4, <1>0, <1>k, BlitClock
<1>5. CASE PrepareLz4(b)
  BY <1>5, <1>0, <1>k, PrepareClock
<1>6. CASE CopyLz4(b)
  BY <1>6, <1>0, <1>k, CopyClock
<1>7. CASE CopyEndLz4
  BY <1>7, <1>0, <1>k, CopyEndClock
<1>8. ASSUME NEW ready, InflateLz4(b, ready)
      PROVE  P
  BY <1>8, <1>0, <1>k, InflateClock
<1>10. CASE DeltaPrepare(b)
  BY <1>10, <1>0, <1>k, DeltaPrepareClock
<1>11. CASE DeltaCopy(b)
  BY <1>11, <1>0, <1>k, DeltaCopyClock
<1> HIDE DEF P
<1> QED
  BY <1>0, <1>2a, <1>2b, <1>3, <1>4, <1>5, <1>6, <1>7, <1>8, <1>9, <1>10, <1>11 DEF CoreClock

LEMMA LatchesOKClock ==
  ASSUME BlitInv, NEW b \in BOOLEAN, NEW d \in BOOLEAN, NEW good, Clock(b, d, good)
  PROVE  LatchesOK'
<1> DEFINE Taken(s, w, r) == s \in Begun \/ w > 0 \/ r
           First == core'.state = "S_Blit_Lz4" /\ block_write_total' = 0
                      => core'.frame_ddr = env.sent
           Names == IF core'.frame_ddr = env.sent THEN env.next ELSE env.last
           Own == ~env.hps /\ core'.frame_lz4 < core'.frame_ddr
                    /\ Taken(core'.state, block_write_total', core'.resume)
                  => frame'.shade = Names.shade
           P == First /\ Own
<1>0. CoreClock(b, good) /\ Decoder(b) /\ FieldsOK /\ CountersOK
  BY DEF Clock, BlitInv
<1>1. KeepsEnv
  BY <1>0, EnvClock
<1>2. /\ block_write_total \in Nat /\ block_write_total' \in Nat
      /\ pins.word = NoLong => block_write_total' \in {0, block_write_total}
      /\ pins.word = NoLong /\ ~pins.reset => block_write_total' = block_write_total
  BY <1>0, DecoderClock DEF CountersOK
<1>n. ~env.hps => env.latch = env.next
  BY DEF BlitInv, LatchesOK
<1> SUFFICES P
  BY <1>1, <1>n DEF LatchesOK, InProgress, Named, KeepsEnv, At
<1>q. /\ core.state = "S_Blit_Lz4" /\ block_write_total = 0 => core.frame_ddr = env.sent
      /\ ~env.hps /\ core.frame_lz4 < core.frame_ddr
           /\ Taken(core.state, block_write_total, core.resume)
         => frame.shade = (IF core.frame_ddr = env.sent THEN env.next ELSE env.last).shade
  BY DEF BlitInv, LatchesOK, InProgress, Named, At
<1>w. core.state \notin {"S_Blit_Copy_Lz4", "S_Blit_Copy_End_Lz4"} => pins.word = NoLong
  BY DEF BlitInv, PinsOK
<1>t. core.state \in {"S_Blit_Header_Lz4", "S_Blit_Lz4"} => ~pins.reset
  BY DEF BlitInv, PinsOK
(* A frame in progress goes on, or there is none. *)
<1>c. ASSUME core'.frame_ddr = core.frame_ddr, core'.frame_lz4 = core.frame_lz4,
             frame' = frame, core'.state # "S_Blit_Lz4",
             Taken(core'.state, block_write_total', core'.resume)
               => Taken(core.state, block_write_total, core.resume)
      PROVE  P
  BY <1>c, <1>q
(* In a state of a frame begun. *)
<1>g. ASSUME Keeps, frame' = frame, core'.state # "S_Blit_Lz4", core.state \in Begun
      PROVE  P
  BY <1>c, <1>g DEF Keeps
(* In another. *)
<1>o. ASSUME Keeps, frame' = frame, core'.state \notin Begun \cup {"S_Blit_Lz4"},
             pins.word = NoLong
      PROVE  P
  <2>1. block_write_total' > 0 => block_write_total > 0
    BY <1>o, <1>2
  <2> QED
    BY <2>1, <1>c, <1>o DEF Keeps
<1>3. CASE Dispatcher(b)
  <2>1. pins.word = NoLong
    BY <1>3, <1>w DEF Dispatcher, At
  <2> QED
    BY <2>1, <1>3, <1>0, <1>o, DispatcherClock DEF Begun
<1>4. ASSUME NEW more, Audio(more)
      PROVE  P
  <2>1. pins.word = NoLong
    BY <1>4, <1>w DEF Audio, At
  <2> QED
    BY <2>1, <1>4, <1>0, <1>o, AudioClock DEF Begun
<1>5. ASSUME NEW late, HeaderLz4(b, late)
      PROVE  P
  <2>0. At("S_Blit_Header_Lz4") /\ frame' = frame
    BY <1>5, <1>0, HeaderClock DEF HeaderLz4
  <2>1. pins.word = NoLong /\ block_write_total' = block_write_total
    BY <2>0, <1>w, <1>t, <1>2 DEF At
  <2>2. CASE ~port.ready /\ Keeps /\ core'.state = "S_Blit_Header_Lz4"
    BY <2>0, <2>1, <2>2, <1>o DEF Begun
  <2>3. CASE port.ready /\ Resumes /\ Keeps /\ core'.state = "S_Blit_Copy_End_Lz4"
    <3>1. block_write_total > 0 \/ core.resume
      BY <2>3, <1>0, <1>2 DEF Resumes, CountersOK, RegOK
    <3> QED
      BY <3>1, <2>0, <2>3, <1>c DEF Keeps
  <2>4. CASE /\ port.ready /\ ~Resumes /\ BeginsAnother(port.dout)
             /\ core'.state = "S_Blit_Lz4" /\ core'.frame_ddr = core.frame_ddr
             /\ core'.frame_lz4 = core.frame_lz4 /\ core'.resume = core.resume
    <3>1. block_write_total # 0
      BY <2>4 DEF BeginsAnother
    <3> QED
      BY <3>1, <2>0, <2>1, <2>4, <1>2, <1>q
  <2>5. CASE /\ port.ready /\ ~Resumes /\ ~BeginsAnother(port.dout)
             /\ core'.state \in {"S_Blit_Lz4", "S_Dispatcher"}
             /\ core'.frame_ddr = port.dout.frame
             /\ core'.frame_lz4 = core.frame_lz4 /\ core'.resume = core.resume
    <3>1. /\ block_write_total = 0 => port.dout.frame = env.sent
          /\ block_write_total # 0 => port.dout.frame = core.frame_ddr
          /\ ~core.resume
      BY <2>0, <2>5, HeaderTaken
    <3>2. CASE block_write_total = 0
      BY <3>1, <3>2, <2>0, <2>1, <2>5 DEF Begun
    <3>3. CASE block_write_total # 0
      BY <3>1, <3>3, <2>0, <2>1, <2>5, <1>2, <1>q
    <3> QED
      BY <3>2, <3>3
  <2> QED
    BY <2>2, <2>3, <2>4, <2>5, <1>5, <1>0, HeaderClock
<1>6. CASE BlitLz4
  <2>0. core.state = "S_Blit_Lz4" /\ Keeps
    BY <1>6, <1>0, BlitClock DEF BlitLz4, At
  <2>1. pins.word = NoLong
    BY <2>0, <1>w
  <2>2. CASE core'.state = "S_Dispatcher" /\ frame' = frame
    BY <2>0, <2>1, <2>2, <1>o DEF Begun
  <2>3. CASE /\ core'.state \in {"S_Blit_Prepare_Lz4", "S_Blit_End_Lz4"}
             /\ block_write_total # 0 /\ frame' = frame
    BY <2>0, <2>3, <1>c, <1>2 DEF Keeps
  <2>4. CASE /\ core'.state \in {"S_Blit_Prepare_Lz4", "S_Blit_End_Lz4"}
             /\ block_write_total = 0 /\ frame' = env.latch
    BY <2>0, <2>4, <1>q, <1>n DEF Keeps
  <2> QED
    BY <2>2, <2>3, <2>4, <1>6, <1>0, BlitClock
<1>7. CASE PrepareLz4(b)
  <2>1. core.state \in Begun
    BY <1>7 DEF PrepareLz4, At, Begun
  <2> QED
    BY <2>1, <1>7, <1>0, <1>g, PrepareClock
<1>8. CASE CopyLz4(b)
  <2>1. core.state \in Begun
    BY <1>8 DEF CopyLz4, At, Begun
  <2> QED
    BY <2>1, <1>8, <1>0, <1>g, CopyClock
<1>9. CASE CopyEndLz4
  <2>1. core.state \in Begun
    BY <1>9 DEF CopyEndLz4, At, Begun
  <2> QED
    BY <2>1, <1>9, <1>0, <1>g, CopyEndClock
<1>10. ASSUME NEW ready, InflateLz4(b, ready)
       PROVE  P
  <2>1. core.state \in Begun
    BY <1>10 DEF InflateLz4, At, Begun
  <2> QED
    BY <2>1, <1>10, <1>0, <1>g, InflateClock
<1>11. CASE EndLz4
  <2>0. core.state \in Begun
    BY <1>11 DEF EndLz4, At, Begun
  <2>1. core'.frame_ddr = core.frame_ddr /\ core'.state # "S_Blit_Lz4" /\ frame' = frame
    BY <1>11, <1>0, EndClock
  <2>2. CASE core'.frame_lz4 = core.frame_ddr
    BY <2>1, <2>2, <1>0 DEF CountersOK
  <2>3. CASE core'.frame_lz4 = core.frame_lz4
    BY <2>0, <2>1, <2>3, <1>c
  <2> QED
    BY <2>2, <2>3, <1>11, <1>0, EndClock
<1>12. CASE DeltaPrepare(b)
  <2>1. core.state \in Begun
    BY <1>12 DEF DeltaPrepare, At, Begun
  <2> QED
    BY <2>1, <1>12, <1>0, <1>g, DeltaPrepareClock
<1>13. CASE DeltaCopy(b)
  <2>1. core.state \in Begun
    BY <1>13 DEF DeltaCopy, At, Begun
  <2> QED
    BY <2>1, <1>13, <1>0, <1>g, DeltaCopyClock
<1> HIDE DEF P
<1> QED
  BY <1>0, <1>3, <1>4, <1>5, <1>6, <1>7, <1>8, <1>9, <1>10, <1>11, <1>12, <1>13 DEF CoreClock

-----------------------------------------------------------------------------
(* The server and the raster.                                                 *)

(* What they leave alone. *)
LEMMA OutsideKeeps ==
  ASSUME BlitInv, Outside,
         {"hps", "sent", "next", "last", "latch"} \subseteq DOMAIN env',
         "shade" \in DOMAIN env'.next
  PROVE  FieldsOK' /\ PortOK' /\ PinsOK'
BY DEF BlitInv, Outside, input, decoder, FieldsOK, PortOK, PinsOK, At

LEMMA Announced ==
  ASSUME BlitInv, NEW sequences \in Frames, NEW delta \in BOOLEAN, SendFrame(sequences, delta)
  PROVE  BlitInv'
<1> DEFINE f == Frame(delta, Compress(sequences, (env.sent + 1) * Byte * Byte))
<1>0. FieldsOK /\ CountersOK /\ Outside /\ frame' = frame
  BY DEF BlitInv, SendFrame
<1>1. /\ env'.hps = env.hps /\ env'.sent = env.sent + 1 /\ env'.last = env.next
      /\ env'.next = f /\ env'.latch = IF env.hps THEN env.latch ELSE f
      /\ DOMAIN env' = DOMAIN env
  <2> HIDE DEF f
  <2> QED
    BY <1>0 DEF SendFrame, FieldsOK, f
<1>2. core.frame_lz4 >= env.sent - 1 /\ ~HeaderInUse
  BY DEF SendFrame
<1>3. FieldsOK' /\ PortOK' /\ PinsOK'
  <2>1. "shade" \in DOMAIN f
    BY DEF Frame
  <2> QED
    BY <2>1, <1>0, <1>1, OutsideKeeps DEF FieldsOK
<1>u. UNCHANGED <<pins, block_write_total, reg, burst, core, ddr, port>>
  BY <1>0 DEF Outside, input, decoder
<1> HIDE DEF f
<1>q. core.frame_ddr \in Nat /\ core.frame_lz4 \in Nat /\ env.sent \in Nat
      /\ core.frame_ddr <= env.sent /\ block_write_total \in Nat
  BY <1>0 DEF CountersOK
<1>4. CountersOK'
  BY <1>0, <1>1, <1>u, <1>q DEF CountersOK, RegOK
<1>5. HeaderOK'
  BY <1>1, <1>2, <1>u, <1>q DEF BlitInv, HeaderOK, At, HeaderInUse
<1>6. LatchesOK'
  <2>1. core.state = "S_Blit_Lz4" => block_write_total # 0
    BY <1>2 DEF HeaderInUse
  <2>2. ASSUME ~env.hps, InProgress
        PROVE  frame'.shade = Named'.shade
    <3>1. core.frame_ddr = env.sent
      BY <2>2, <1>2, <1>q DEF InProgress
    <3>2. frame.shade = env.next.shade
      BY <2>2, <3>1 DEF BlitInv, LatchesOK, Named
    <3>3. Named' = env.next
      BY <3>1, <1>1, <1>u, <1>q DEF Named
    <3> QED
      BY <3>2, <3>3, <1>0
  <2>3. InProgress' = InProgress
    BY <1>u DEF InProgress
  <2> QED
    BY <2>1, <2>2, <2>3, <1>1, <1>u DEF LatchesOK, At
<1> QED
  BY <1>3, <1>4, <1>5, <1>6 DEF BlitInv

LEMMA GivenUp ==
  ASSUME BlitInv, NEW old, GiveUp(old)
  PROVE  BlitInv'
<1> DEFINE f == [env.next EXCEPT !.coded = [i \in 1..Coded |-> IF i <= env.told THEN @[i]
                                                                            ELSE old]]
<1>0. FieldsOK /\ CountersOK /\ Outside /\ frame' = IF frame = env.next THEN f ELSE frame
  BY DEF BlitInv, GiveUp
<1>1. "shade" \in DOMAIN f /\ f.shade = env.next.shade
  BY <1>0 DEF FieldsOK
<1>2. /\ env'.hps = env.hps /\ env'.sent = env.sent /\ env'.last = env.last
      /\ env'.next = f /\ env'.latch = f /\ DOMAIN env' = DOMAIN env
  <2> HIDE DEF f
  <2> QED
    BY <1>0 DEF GiveUp, FieldsOK, f
<1> HIDE DEF f
<1>3. FieldsOK' /\ PortOK' /\ PinsOK'
  BY <1>0, <1>1, <1>2, OutsideKeeps DEF FieldsOK
<1>u. UNCHANGED <<pins, block_write_total, reg, burst, core, ddr, port>>
  BY <1>0 DEF Outside, input, decoder
<1>4. CountersOK'
  BY <1>0, <1>2, <1>u DEF CountersOK, RegOK
<1>5. HeaderOK'
  BY <1>2, <1>u DEF BlitInv, HeaderOK, At
<1>6. LatchesOK'
  <2>1. frame'.shade = frame.shade /\ Named'.shade = Named.shade
    BY <1>0, <1>1, <1>2, <1>u DEF Named
  <2> QED
    BY <2>1, <1>2, <1>u DEF BlitInv, LatchesOK, InProgress, At
<1> QED
  BY <1>3, <1>4, <1>5, <1>6 DEF BlitInv

(* A chunk, a sound, a raster without a pixel.                                *)
LEMMA EnvKept ==
  ASSUME BlitInv, Outside, KeepsEnv, DOMAIN env' = DOMAIN env, frame' = frame
  PROVE  BlitInv'
<1>u. UNCHANGED <<pins, block_write_total, reg, burst, core, ddr, port>>
  BY DEF Outside, input, decoder
<1>1. FieldsOK' /\ PortOK' /\ PinsOK'
  BY OutsideKeeps DEF FieldsOK, BlitInv, KeepsEnv
<1>2. CountersOK' /\ HeaderOK'
  BY <1>u DEF BlitInv, CountersOK, RegOK, HeaderOK, At, KeepsEnv
<1>3. LatchesOK'
  BY <1>u DEF BlitInv, LatchesOK, InProgress, Named, At, KeepsEnv
<1> QED
  BY <1>1, <1>2, <1>3 DEF BlitInv

LEMMA Commanded ==
  ASSUME BlitInv, Command
  PROVE  BlitInv'
<1>0. /\ FieldsOK /\ Outside /\ frame' = frame /\ DOMAIN env' = DOMAIN env
      /\ env'.hps = env.hps /\ env'.sent = env.sent /\ env'.next = env.next
      /\ env'.last = env.last /\ env'.latch = env.next
  BY DEF BlitInv, Command, FieldsOK
<1>u. UNCHANGED <<pins, block_write_total, reg, burst, core, ddr, port>>
  BY <1>0 DEF Outside, input, decoder
<1>1. FieldsOK' /\ PortOK' /\ PinsOK'
  BY <1>0, OutsideKeeps DEF FieldsOK
<1>2. CountersOK' /\ HeaderOK'
  BY <1>0, <1>u DEF BlitInv, CountersOK, RegOK, HeaderOK, At
<1>3. LatchesOK'
  BY <1>0, <1>u DEF BlitInv, LatchesOK, InProgress, Named, At
<1> QED
  BY <1>1, <1>2, <1>3 DEF BlitInv

LEMMA BlitInitial ==
  ASSUME BlitInit
  PROVE  BlitInv
<1>1. FieldsOK
  BY DEF BlitInit, FieldsOK, NoFrame, Frame
<1>2. CountersOK
  BY DEF BlitInit, DecoderInit, PowerOn, CountersOK, RegOK
<1>3. PortOK /\ HeaderOK
  BY DEF BlitInit, PortRegisters, PortOK, HeaderOK, At
<1>4. PinsOK
  BY DEF BlitInit, PinsOK
<1>5. LatchesOK
  BY DEF BlitInit, DecoderInit, LatchesOK, InProgress, At
<1> QED
  BY <1>1, <1>2, <1>3, <1>4, <1>5 DEF BlitInv

LEMMA BlitSteps ==
  ASSUME BlitInv, [BlitNext]_blitVars
  PROVE  BlitInv'
<1>1. ASSUME NEW s \in Frames, NEW delta \in BOOLEAN, SendFrame(s, delta)
      PROVE  BlitInv'
  BY <1>1, Announced
<1>2. CASE Command
  BY <1>2, Commanded
<1>3. CASE SendChunk \/ Sound \/ Starve
  <2>1. /\ Outside /\ KeepsEnv /\ DOMAIN env' = DOMAIN env /\ frame' = frame
    BY <1>3 DEF SendChunk, Sound, Starve, KeepsEnv, BlitInv, FieldsOK
  <2> QED
    BY <2>1, EnvKept
<1>4. ASSUME NEW old \in {1, Ones}, GiveUp(old)
      PROVE  BlitInv'
  BY <1>4, GivenUp
<1>5. ASSUME NEW b \in BOOLEAN, NEW d \in BOOLEAN, Clock(b, d, FALSE)
      PROVE  BlitInv'
  <2>1. CoreClock(b, FALSE) /\ FieldsOK
    BY <1>5 DEF Clock, BlitInv
  <2> QED
    BY <2>1, <1>5, FieldsClock, CountersOKClock, PortOKClock, HeaderOKClock, PinsOKClock,
       LatchesOKClock DEF BlitInv
<1>6. CASE UNCHANGED blitVars
  <2>1. Outside /\ env' = env /\ frame' = frame
    BY <1>6 DEF blitVars, lz4Vars, source, input, decoder, Outside
  <2> QED
    BY <2>1, EnvKept DEF KeepsEnv
<1> QED
  BY <1>1, <1>2, <1>3, <1>4, <1>5, <1>6 DEF BlitNext

(* Of frames told as they come, whatever sounds, cuts, lost datagrams and     *)
(* stale headers come between, the frame in progress is inflated with the     *)
(* latches of the number the core read from its header (Groovy.sv:1300-1326,  *)
(* hps_ext.v:300-311).  For every size and any number of frames and faults.   *)
THEOREM Inflates ==
  BlitSpec => []InflatesItsFrame
<1>1. BlitInit => BlitInv
  BY BlitInitial
<1>2. BlitInv /\ [BlitNext]_blitVars => BlitInv'
  BY BlitSteps
<1>3. BlitInv => InflatesItsFrame
  BY DEF BlitInv, LatchesOK, InProgress, InflatesItsFrame, OwnLatches
<1> QED
  BY <1>1, <1>2, <1>3, PTL DEF BlitSpec

-----------------------------------------------------------------------------
(* The longs the core takes: TakeInv.                                         *)

(* The fields read besides those of FieldsOK. *)
TakeFields ==
  /\ {"bytes", "valid", "addr", "paused"} \subseteq DOMAIN reg
  /\ {"wr", "px", "auto"} \subseteq DOMAIN core
  /\ {"stop", "compressed_bytes"} \subseteq DOMAIN pins
  /\ "cmd" \in DOMAIN env /\ "coded" \in DOMAIN env.next

TakeCounters ==
  /\ reg.bytes \in Nat /\ reg.addr \in Nat /\ core.wr \in Nat
  /\ pins.compressed_bytes \in Nat
  /\ core.wr = 0 => core.px = 0

(* The frame of a latch the core acts on has a byte. *)
Filled(f) == Len(f.coded) \in Nat /\ Len(f.coded) > 0

FilledOK ==
  /\ env.sent > 0 => Filled(env.next)
  /\ env.sent = 0 => env.latch = env.next
  /\ env.cmd \/ core.auto \/ core.state \in {"S_Blit_Header_Lz4", "S_Blit_Lz4"}
     => Filled(env.latch)

(* The words S_Blit_Copy_Lz4 waits for are those of the zone. *)
ZoneOK ==
  At("S_Blit_Copy_Lz4") =>
    /\ ddr.what = "zone"
    /\ port.reading => port.what = "zone"
    /\ port.ready => port.dout # NoLong

(* Only S_Blit_Inflate_Lz4 lets the decoder go on from a long it has out. *)
StoppedOK == core.state # "S_Blit_Inflate_Lz4" => pins.stop \/ ~pins.run

(* A frame of which longs are taken has been written to the decoder, which     *)
(* reads none of it before the first word is written.                         *)
StartedOK ==
  /\ block_write_total = 0 \/ pins.reset => core.wr = 0
  /\ pins.reset => ~core.resume /\ (At("S_Blit_Prepare_Lz4") => block_write_total = 0)
  /\ core.state \in {"S_Blit_Inflate_Lz4", "S_Delta_Prepare", "S_Delta_Copy"} \/ core.resume
     => block_write_total > 0
  /\ At("S_Blit_End_Lz4") => block_write_total > 0 \/ core.abort
  /\ block_write_total = 0 =>
       /\ core.state \in {"S_Blit_Prepare_Lz4", "S_Blit_Copy_Lz4"} => pins.compressed_bytes > 0
       /\ core.state \in {"S_Blit_Copy_Lz4", "S_Blit_Copy_End_Lz4"} => reg.total = 0
       /\ At("S_Blit_Copy_End_Lz4") => pins.word # NoLong

(* What the decoder has put out the core has taken, but for a long that is    *)
(* valid; while it is reset nothing is out, and a frame of which all pixels   *)
(* were counted needs no more.                                                *)
TakenOK ==
  \/ pins.reset /\ At("S_Dispatcher")
  \/ pins.reset /\ (reg.bytes = 0 \/ reg.valid)
  \/ ~pins.reset /\ \/ ~(core.px < Words)
                    \/ reg.bytes <= WordBytes * core.wr
                    \/ reg.valid /\ (core.state \in Begun \/ block_write_total > 0
                                     => reg.bytes <= WordBytes * core.wr + WordBytes)

TakeInv == TakeFields /\ TakeCounters /\ FilledOK /\ ZoneOK /\ StoppedOK /\ StartedOK /\ TakenOK

(* What a clock leaves of the count of bytes put out. *)
Quietly(r) ==
  /\ {"bytes", "valid", "addr", "paused"} \subseteq DOMAIN r /\ r.addr \in Nat
  /\ r.bytes = Held.bytes /\ ~r.paused

PutsOut(r) ==
  /\ {"bytes", "valid", "addr", "paused"} \subseteq DOMAIN r /\ r.addr \in Nat /\ ~r.paused
  /\ r.valid /\ r.bytes \in Nat /\ r.bytes >= reg.bytes /\ r.bytes <= reg.bytes + WordBytes

RegTakes ==
  /\ {"bytes", "valid", "addr", "paused"} \subseteq DOMAIN reg
  /\ reg.bytes \in Nat /\ reg.addr \in Nat

LEMMA HeldQuiet ==
  ASSUME RegTakes
  PROVE  /\ Quietly(Held) /\ ~Held.valid
         /\ Quietly([Before EXCEPT !.paused = FALSE])
         /\ Held.bytes = IF pins.reset THEN 0 ELSE reg.bytes
         /\ Before.valid = IF pins.reset THEN FALSE ELSE reg.valid
BY DEF Held, Before, Cleared, PowerOn, RegTakes, Quietly

LEMMA QuietReads ==
  ASSUME NEW r, Quietly(r)
  PROVE  /\ Quietly(NextWord(r)) /\ Quietly(NextLong(r)) /\ Quietly(FetchLong(r))
BY DEF Quietly, NextWord, NextLong, FetchLong

LEMMA QuietPut ==
  ASSUME RegTakes, NEW r, Quietly(r), NEW b, PutByte(b, r) \/ PutLong(b, r)
  PROVE  Quietly(reg') \/ PutsOut(reg')
<1>0. reg.bytes \in Nat /\ reg.addr \in Nat /\ WordBytes \in Nat
  BY Constants DEF RegTakes
<1>1. ASSUME NEW word, NEW n \in Nat
      PROVE  Quietly([r EXCEPT !.window_data = word, !.addr = reg.addr + n])
  BY <1>0 DEF Quietly
<1>2. ASSUME NEW s, Quietly(s), NEW word
      PROVE  PutsOut(Valid(s, word))
  BY <1>0, <1>2, HeldQuiet DEF Quietly, PutsOut, Valid
<1>3. CASE PutByte(b, r)
  <2>1. PICK word : \/ reg' = [r EXCEPT !.window_data = word, !.addr = reg.addr + 1]
                    \/ reg' = Valid([r EXCEPT !.window_data = word, !.addr = reg.addr + 1], word)
    BY <1>3 DEF PutByte
  <2> DEFINE put == [r EXCEPT !.window_data = word, !.addr = reg.addr + 1]
  <2>2. Quietly(put)
    BY <1>1
  <2>3. reg' = put \/ reg' = Valid(put, word)
    BY <2>1
  <2> HIDE DEF put
  <2> QED
    BY <2>2, <2>3, <1>2
<1>4. CASE PutLong(b, r)
  <2>1. PICK word, long :
          reg' = Valid([r EXCEPT !.window_data = word, !.addr = reg.addr + WordBytes], long)
    BY <1>4 DEF PutLong
  <2> DEFINE put == [r EXCEPT !.window_data = word, !.addr = reg.addr + WordBytes]
  <2>2. Quietly(put)
    BY <1>0, <1>1
  <2>3. reg' = Valid(put, long)
    BY <2>1
  <2> HIDE DEF put
  <2> QED
    BY <2>2, <2>3, <1>2
<1> QED
  BY <1>3, <1>4

(* A state of the decoder puts a long out, or counts nothing. *)
LEMMA Puts ==
  ASSUME RegTakes, Decode
  PROVE  Quietly(reg') \/ PutsOut(reg')
<1> DEFINE P == Quietly(reg') \/ PutsOut(reg')
<1> SUFFICES P
  OBVIOUS
<1>1. Quietly(Held)
  BY HeldQuiet
<1>s. \A s : Quietly([Held EXCEPT !.state = s])
  BY <1>1 DEF Quietly
<1>c. ASSUME NEW l, CopyFrom(l)
      PROVE  P
  BY <1>1, <1>c DEF CopyFrom, Quietly
<1>2. CASE Idle
  BY <1>s, <1>2, QuietReads DEF Idle
<1>3. CASE ReadToken
  BY <1>1, <1>3 DEF ReadToken, NextWord, Quietly
<1>4. CASE ReadLiteralsLength
  BY <1>1, <1>4 DEF ReadLiteralsLength, NextWord, FetchLong, Quietly
<1>5. CASE LiteralsDone
  BY <1>1, <1>5 DEF LiteralsDone, NextWord, Quietly
<1>6. CASE ReadLiterals
  <2> DEFINE put  == [Held EXCEPT !.LL = reg.LL - 1, !.LL_W = reg.LL_W + 1]
             read == IF LiteralsByWord
                     THEN NextLong([put EXCEPT !.state = "S_Read_Literals_64"])
                     ELSE NextWord(put)
  <2>1. Quietly(put) /\ Quietly([put EXCEPT !.state = "S_Read_Literals_64"])
    BY <1>1 DEF Quietly
  <2>2. PutByte(reg.data, read)
    BY <1>6 DEF ReadLiterals
  <2> HIDE DEF put
  <2>3. Quietly(read)
    BY <2>1, QuietReads
  <2> HIDE DEF read
  <2> QED
    BY <2>2, <2>3, QuietPut
<1>7. CASE ReadLiterals64
  <2> DEFINE put  == [Held EXCEPT !.LL = reg.LL - WordBytes, !.LL_W = reg.LL_W + WordBytes]
             read == IF Ready64 /\ reg.LL >= 2 * WordBytes
                     THEN NextLong(put) ELSE NextWord([put EXCEPT !.state = "S_Read_Literals"])
  <2>1. Quietly(put) /\ Quietly([put EXCEPT !.state = "S_Read_Literals"])
    BY <1>1 DEF Quietly
  <2>2. PutLong(reg.data_64, read)
    BY <1>7 DEF ReadLiterals64
  <2> HIDE DEF put
  <2>3. Quietly(read)
    BY <2>1, QuietReads
  <2> HIDE DEF read
  <2> QED
    BY <2>2, <2>3, QuietPut
<1>8. CASE ReadOffset
  BY <1>1, <1>8 DEF ReadOffset, Quietly
<1>9. CASE ReadMatchOffset
  BY <1>s, <1>c, <1>9, QuietReads DEF ReadMatchOffset
<1>10. CASE ReadMatchLength
  <2>1. Quietly([Held EXCEPT !.ML = reg.ML + reg.data])
    BY <1>1 DEF Quietly
  <2> QED
    BY <2>1, <1>c, <1>10, QuietReads DEF ReadMatchLength
<1>11. CASE CopyMatches
  <2>1. PICK s, m, p, b : PutByte(b, [Held EXCEPT !.ML = m, !.MP = p, !.state = s])
    BY <1>11 DEF CopyMatches
  <2>2. Quietly([Held EXCEPT !.ML = m, !.MP = p, !.state = s])
    BY <1>1 DEF Quietly
  <2> QED
    BY <2>1, <2>2, QuietPut
<1>l. Quietly(CopiedLong)
  BY <1>1 DEF CopiedLong, Quietly
<1>12. CASE CopyMatches64
  BY <1>l, <1>12, QuietPut DEF CopyMatches64
<1>13. CASE CopyMatches64_8
  <2> DEFINE copied == [CopiedLong EXCEPT !.addr = reg.addr + WordBytes]
  <2>1. Quietly(copied)
    BY <1>l, Constants DEF Quietly, RegTakes
  <2> HIDE DEF copied
  <2>2. PutsOut(Valid(copied, reg.long))
    BY <2>1, Constants DEF Quietly, RegTakes, PutsOut, Valid
  <2>3. (\E w : PutLong(w, CopiedLong)) \/ reg' = Valid(copied, reg.long)
    BY <1>13 DEF CopyMatches64_8, copied
  <2> QED
    BY <1>l, <2>2, <2>3, QuietPut
<1>14. CASE Done
  <2>1. Quietly(Finished)
    BY <1>1 DEF Finished, Quietly
  <2>2. ASSUME reg' = [Held EXCEPT !.state = "S_Done_64", !.valid = TRUE,
                                !.long = reg.window_data, !.bytes = reg.bytes + Addr3]
        PROVE  PutsOut(reg')
    <3>1. Addr3 \in Nat /\ Addr3 <= WordBytes
      BY Constants, DivDef DEF Addr3, RegTakes
    <3> QED
      BY <3>1, <2>2, <1>1, Constants DEF PutsOut, Quietly, RegTakes
  <2> QED
    BY <2>1, <2>2, <1>14 DEF Done
<1>15. CASE Done64
  BY <1>1, <1>15 DEF Done64, Finished, Quietly
<1> QED
  BY <1>2, <1>3, <1>4, <1>5, <1>6, <1>7, <1>8, <1>9, <1>10, <1>11, <1>12, <1>13,
     <1>14, <1>15 DEF Decode

(* With nothing written and something to read, no state reads.                *)
LEMMA NothingRead ==
  ASSUME RegOK, Decode, ~Ready, ~Readed
  PROVE  reg'.total = Held.total
<1>1. Counts(Held, Held.total)
  BY HeldCounts DEF Counts
<1>c. ASSUME NEW l, CopyFrom(l)
      PROVE  reg'.total = Held.total
  BY <1>1, <1>c DEF CopyFrom, Counts
<1>2. CASE ReadOffset
  BY <1>1, <1>2 DEF ReadOffset, Counts
<1>3. CASE ReadMatchOffset
  BY <1>1, <1>c, <1>3 DEF ReadMatchOffset, Counts
<1>4. CASE ReadMatchLength
  BY <1>1, <1>c, <1>4 DEF ReadMatchLength, Counts
<1>5. CASE CopyMatches
  <2>1. PICK s, m, p, b : PutByte(b, [Held EXCEPT !.ML = m, !.MP = p, !.state = s])
    BY <1>5 DEF CopyMatches
  <2>2. Counts([Held EXCEPT !.ML = m, !.MP = p, !.state = s], Held.total)
    BY <1>1 DEF Counts
  <2>3. Counts(reg', Held.total)
    BY <2>1, <2>2, CountsPut
  <2> QED
    BY <2>3 DEF Counts
<1>l. Counts(CopiedLong, Held.total)
  BY <1>1 DEF CopiedLong, Counts
<1>6. CASE CopyMatches64
  <2>1. Counts(reg', Held.total)
    BY <1>l, <1>6, CountsPut DEF CopyMatches64
  <2> QED
    BY <2>1 DEF Counts
<1>7. CASE CopyMatches64_8
  <2>1. Counts([CopiedLong EXCEPT !.addr = reg.addr + WordBytes], Held.total)
    BY <1>l DEF Counts
  <2>2. Counts(reg', Held.total)
    BY <1>l, <1>7, <2>1, CountsPut, CountsReads DEF CopyMatches64_8
  <2> QED
    BY <2>2 DEF Counts
<1>8. CASE Done
  BY <1>1, <1>8 DEF Done, Finished, Counts
<1>9. CASE Done64
  BY <1>1, <1>9 DEF Done64, Finished, Counts
<1> QED
  BY <1>2, <1>3, <1>4, <1>5, <1>6, <1>7, <1>8, <1>9
  DEF Decode, Idle, ReadToken, ReadLiteralsLength, LiteralsDone, ReadLiterals, ReadLiterals64

(* The clock of the decoder, run or not.                                      *)
LEMMA TakesClock ==
  ASSUME RegTakes, NEW b, Decoder(b)
  PROVE  /\ RegTakes'
         /\ \/ reg'.bytes = Held.bytes /\ reg'.valid = Before.valid
            \/ /\ pins.run /\ (~reg.valid \/ ~Stop(b))
               /\ \/ reg'.bytes = Held.bytes
                  \/ reg'.valid /\ reg'.bytes <= reg.bytes + WordBytes
         /\ ~pins.reset => reg'.bytes >= reg.bytes
         /\ reg'.paused => Pause
<1>0. Held.bytes \in Nat /\ (~pins.reset => Held.bytes = reg.bytes)
  BY HeldQuiet DEF RegTakes
<1>1. CASE Quietly(reg') /\ pins.run /\ (~reg.valid \/ ~Stop(b))
  BY <1>0, <1>1 DEF Quietly, RegTakes
<1>2. CASE PutsOut(reg') /\ pins.run /\ (~reg.valid \/ ~Stop(b))
  BY <1>2 DEF PutsOut, RegTakes
<1>3. CASE reg' = [Before EXCEPT !.paused = FALSE]
  <2>1. Quietly([Before EXCEPT !.paused = FALSE])
    BY HeldQuiet
  <2>2. Quietly(reg') /\ reg'.valid = Before.valid
    BY <1>3, <2>1 DEF Quietly, Before, Cleared, PowerOn, RegTakes
  <2> QED
    BY <1>0, <2>2 DEF Quietly, RegTakes
<1>4. CASE Pause /\ pins.run /\ (~reg.valid \/ ~Stop(b))
  <2>1. Quietly(Held)
    BY HeldQuiet
  <2>2. /\ {"bytes", "valid", "addr", "paused"} \subseteq DOMAIN reg' /\ reg'.addr \in Nat
        /\ reg'.bytes = Held.bytes
    BY <2>1, <1>4 DEF Quietly, Pause
  <2> QED
    BY <1>0, <1>4, <2>2 DEF RegTakes
<1>5. Decode => Quietly(reg') \/ PutsOut(reg')
  BY Puts
<1> QED
  BY <1>1, <1>2, <1>3, <1>4, <1>5 DEF Decoder

(* Nothing was written and the frame has bytes: the decoder stays before them. *)
LEMMA StaysBefore ==
  ASSUME RegOK, NEW b, Decoder(b), block_write_total = 0, reg.total = 0,
         pins.compressed_bytes \in Nat, pins.compressed_bytes > 0
  PROVE  reg'.total = 0
<1>1. ~Ready /\ ~Readed
  BY DEF Ready, Readed
<1>2. Counts(Held, 0) /\ Counts(Before, 0)
  BY HeldCounts
<1>3. Decode => reg'.total = 0
  BY <1>1, <1>2, NothingRead DEF Counts
<1>4. Pause => reg'.total = 0
  BY <1>2 DEF Pause, Counts
<1>5. reg' = [Before EXCEPT !.paused = FALSE] => reg'.total = 0
  BY <1>2 DEF Counts
<1> QED
  BY <1>3, <1>4, <1>5 DEF Decoder

(* What is written: the word offered, when there is room.                     *)
LEMMA WriteClock ==
  ASSUME BlitInv, NEW b, Decoder(b)
  PROVE  /\ pins.reset => block_write_total' = 0
         /\ ~pins.reset => block_write_total' >= block_write_total
         /\ pins.word = NoLong /\ ~pins.reset => block_write_total' = block_write_total
         /\ pins.word # NoLong /\ block_write_total = 0 /\ reg.total = 0
            => block_write_total' > 0
         /\ block_write_total' \in Nat
<1>0. /\ WriteLong(pins.word) /\ block_write_total \in Nat
      /\ pins.reset => pins.word = NoLong
  BY DEF Decoder, BlitInv, CountersOK, PinsOK, At
<1>1. 0 < BlocksSize * WordBytes
  <2>1. WordBytes * 0 + WordBytes <= WordBytes * BlocksSize
    BY Constants, MulMono
  <2>2. WordBytes * BlocksSize = BlocksSize * WordBytes
    BY Constants
  <2> QED
    BY <2>1, <2>2, Constants
<1>2. block_write_total = 0 /\ reg.total = 0 => WriteReady
  BY <1>1 DEF WriteReady
<1>3. WriteReady \/ ~WriteReady
  OBVIOUS
<1> QED
  BY <1>0, <1>2, Constants DEF WriteLong

(* The states of the core, one clock each: what they do to the registers      *)
(* TakeInv is about.                                                          *)

KeepsTaken == core'.wr = core.wr /\ core'.px = core.px

KeepsRun ==
  pins'.run = pins.run /\ pins'.stop = pins.stop
  /\ pins'.compressed_bytes = pins.compressed_bytes

LEMMA DispatcherTakes ==
  ASSUME FieldsOK, TakeFields, NEW b, Dispatcher(b)
  PROVE  /\ KeepsTaken /\ KeepsRun /\ core'.auto = core.auto
         /\ env'.cmd => env.cmd
         /\ core'.state = "S_Blit_Header_Lz4" => env.cmd \/ core.auto
BY DEF FieldsOK, TakeFields, Dispatcher, At, KeepsTaken, KeepsRun

LEMMA AudioTakes ==
  ASSUME FieldsOK, TakeFields, NEW more, Audio(more)
  PROVE  KeepsTaken /\ KeepsRun /\ core'.auto = core.auto
BY DEF FieldsOK, TakeFields, Audio, KeepsTaken, KeepsRun

LEMMA HeaderTakes ==
  ASSUME FieldsOK, TakeFields, NEW b, NEW late, HeaderLz4(b, late)
  PROVE  KeepsTaken /\ KeepsRun
<1> DEFINE looks == [core EXCEPT !.FB = late, !.vram_reset = ~env.synced]
           found == [looks EXCEPT !.auto = core.frame_lz4 < port.dout.frame]
<1>1. looks.wr = core.wr /\ looks.px = core.px /\ {"wr", "px"} \subseteq DOMAIN looks
  BY DEF TakeFields
<1> HIDE DEF looks
<1>2. found.wr = core.wr /\ found.px = core.px /\ {"wr", "px"} \subseteq DOMAIN found
  BY <1>1
<1>3. \/ core' = looks
      \/ core' = [found EXCEPT !.state = "S_Blit_Copy_End_Lz4"]
      \/ core' = [found EXCEPT !.state = "S_Blit_Lz4", !.abort = FALSE]
      \/ core' = [found EXCEPT
              !.state = IF late \/ env.synced THEN "S_Blit_Lz4" ELSE "S_Dispatcher",
              !.frame_ddr = port.dout.frame,
              !.abort = port.dout.abort /\ port.dout.told # pins.compressed_bytes]
  BY DEF HeaderLz4, looks
<1>4. KeepsRun
  BY DEF HeaderLz4, KeepsRun
<1> HIDE DEF found
<1> QED
  BY <1>1, <1>2, <1>3, <1>4 DEF KeepsTaken

LEMMA BlitTakes ==
  ASSUME FieldsOK, TakeFields, BlitLz4
  PROVE  /\ pins'.run = pins.run /\ pins'.stop = pins.stop /\ core'.auto = core.auto
         /\ \/ /\ KeepsTaken /\ KeepsRun /\ pins'.reset = pins.reset
               /\ core'.state = "S_Dispatcher" \/ block_write_total # 0
            \/ /\ core'.wr = 0 /\ core'.px = 0 /\ pins'.reset /\ block_write_total = 0
               /\ pins'.compressed_bytes = Len(env.latch.coded)
               /\ core'.state \in {"S_Blit_Prepare_Lz4", "S_Blit_End_Lz4"}
BY DEF FieldsOK, TakeFields, BlitLz4, At, KeepsTaken, KeepsRun

LEMMA PrepareTakes ==
  ASSUME FieldsOK, TakeFields, NEW b, PrepareLz4(b)
  PROVE  /\ KeepsTaken /\ KeepsRun /\ core'.auto = core.auto
         /\ core'.state = "S_Blit_Copy_Lz4" => ddr'.what = "zone" /\ WriteReady
BY DEF FieldsOK, TakeFields, PrepareLz4, At, KeepsTaken, KeepsRun

LEMMA CopyTakes ==
  ASSUME FieldsOK, TakeFields, NEW b, CopyLz4(b)
  PROVE  /\ KeepsTaken /\ core'.auto = core.auto /\ ddr'.what = ddr.what
         /\ pins'.stop /\ pins'.compressed_bytes = pins.compressed_bytes
         /\ port.ready => pins'.word = port.dout
BY DEF FieldsOK, TakeFields, CopyLz4, At, KeepsTaken

LEMMA CopyEndTakes ==
  ASSUME FieldsOK, TakeFields, CopyEndLz4
  PROVE  /\ KeepsTaken /\ core'.auto = core.auto
         /\ pins'.stop /\ pins'.compressed_bytes = pins.compressed_bytes
BY DEF FieldsOK, TakeFields, CopyEndLz4, At, KeepsTaken

LEMMA InflateTakes ==
  ASSUME FieldsOK, TakeFields, NEW b, NEW ready, InflateLz4(b, ready)
  PROVE  /\ \/ Takes(b) /\ core'.wr = core.wr + 1
            \/ ~Takes(b) /\ KeepsTaken
         /\ core'.auto = core.auto /\ pins'.compressed_bytes = pins.compressed_bytes
         /\ core'.state # "S_Blit_Inflate_Lz4" => ~pins'.run
<1> DEFINE waits == pins.run \/ (ddr.write /\ Busy(b))
           next  == [core EXCEPT !.state = IF waits THEN @ ELSE "S_Blit_End_Lz4"]
           taken == [next EXCEPT !.wr = @ + 1,
                       !.px = IF ~core.FB /\ env.synced THEN @ + 1 ELSE @]
           delta == [taken EXCEPT !.index = (@ + 1) % BlocksSize,
                                  !.delta_req = core.index = BlocksSize - 1]
           Has(r, n) == /\ r.wr = n /\ r.auto = core.auto /\ {"wr", "auto", "state"} \subseteq DOMAIN r
                        /\ r.state # "S_Blit_Inflate_Lz4" => ~pins.run
<1>1. Has(next, core.wr) /\ next.px = core.px
  BY DEF FieldsOK, TakeFields, InflateLz4, At
<1>2. Has(taken, core.wr + 1)
  <2> HIDE DEF next
  <2> QED
    BY <1>1
<1>3. Has(delta, core.wr + 1)
  <2> HIDE DEF taken
  <2> QED
    BY <1>2
<1>4. \/ Takes(b) /\ core' \in {taken, delta}
      \/ ~Takes(b) /\ core' = next
  BY DEF InflateLz4
<1>5. /\ pins'.compressed_bytes = pins.compressed_bytes
      /\ pins'.run => pins.run
  BY DEF FieldsOK, TakeFields, InflateLz4
<1> HIDE DEF next, taken, delta
<1> QED
  BY <1>1, <1>2, <1>3, <1>4, <1>5 DEF KeepsTaken

LEMMA EndTakes ==
  ASSUME FieldsOK, TakeFields, EndLz4
  PROVE  /\ pins'.stop /\ core'.auto = core.auto
         /\ \/ /\ core'.wr = 0 /\ core'.px = 0 /\ pins'.reset /\ ~core'.resume
               /\ core'.state = "S_Dispatcher" /\ pins'.compressed_bytes = 0
            \/ /\ KeepsTaken /\ ~core.abort /\ pins'.reset = pins.reset
               /\ core'.state \in {"S_Dispatcher", "S_Delta_Prepare", "S_Blit_Prepare_Lz4"}
               /\ pins'.compressed_bytes = pins.compressed_bytes
BY DEF FieldsOK, TakeFields, EndLz4, Ends, At, KeepsTaken

LEMMA DeltaPrepareTakes ==
  ASSUME FieldsOK, TakeFields, NEW b, DeltaPrepare(b)
  PROVE  KeepsTaken /\ KeepsRun /\ core'.auto = core.auto
BY DEF FieldsOK, TakeFields, DeltaPrepare, KeepsTaken, KeepsRun

LEMMA DeltaCopyTakes ==
  ASSUME FieldsOK, TakeFields, NEW b, DeltaCopy(b)
  PROVE  KeepsTaken /\ KeepsRun /\ core'.auto = core.auto
BY DEF FieldsOK, TakeFields, DeltaCopy, KeepsTaken, KeepsRun

(* Only the dispatcher touches the command.                                   *)
LEMMA QuietTakes ==
  ASSUME FieldsOK, TakeFields, NEW b, NEW good, CoreClock(b, good)
  PROVE  "cmd" \in DOMAIN env' /\ (env'.cmd => env.cmd)
<1>1. CASE Quiet
  BY <1>1 DEF Quiet, TakeFields
<1>2. CASE Dispatcher(b)
  BY <1>2 DEF Dispatcher, TakeFields
<1>3. Quiet \/ Dispatcher(b)
  BY DEF CoreClock, Audio, HeaderLz4, BlitLz4, PrepareLz4, CopyLz4, CopyEndLz4,
         InflateLz4, EndLz4, DeltaPrepare, DeltaCopy
<1> QED
  BY <1>1, <1>2, <1>3

-----------------------------------------------------------------------------
(* A clock of everything keeps TakeInv.                                       *)

LEMMA TakeFieldsClock ==
  ASSUME BlitInv, TakeInv, NEW b \in BOOLEAN, NEW d \in BOOLEAN, NEW good, Clock(b, d, good)
  PROVE  TakeFields'
<1>0. CoreClock(b, good) /\ Decoder(b) /\ FieldsOK /\ TakeFields /\ RegTakes
  BY DEF Clock, BlitInv, TakeInv, TakeFields, TakeCounters, RegTakes
<1>1. RegTakes'
  BY <1>0, TakesClock
<1>2. DOMAIN core' = DOMAIN core /\ DOMAIN pins' = DOMAIN pins
  BY <1>0, DomainsClock
<1>3. "cmd" \in DOMAIN env' /\ env'.next = env.next
  BY <1>0, QuietTakes, EnvClock DEF KeepsEnv
<1> QED
  BY <1>0, <1>1, <1>2, <1>3 DEF TakeFields, RegTakes

LEMMA TakeCountersClock ==
  ASSUME BlitInv, TakeInv, NEW b \in BOOLEAN, NEW d \in BOOLEAN, NEW good, Clock(b, d, good)
  PROVE  TakeCounters'
<1> DEFINE P == /\ core'.wr \in Nat /\ pins'.compressed_bytes \in Nat
                /\ core'.wr = 0 => core'.px = 0
<1>0. CoreClock(b, good) /\ Decoder(b) /\ FieldsOK /\ TakeFields /\ RegTakes
  BY DEF Clock, BlitInv, TakeInv, TakeFields, TakeCounters, RegTakes
<1> SUFFICES P
  BY <1>0, TakesClock DEF TakeCounters, RegTakes
<1>q. /\ core.wr \in Nat /\ pins.compressed_bytes \in Nat
      /\ core.wr = 0 => core.px = 0
      /\ core.state = "S_Blit_Lz4" => Len(env.latch.coded) \in Nat
  BY DEF TakeInv, TakeCounters, FilledOK, Filled
<1>2. CASE Dispatcher(b)
  <2>1. core.state = "S_Dispatcher"
    BY <1>2 DEF Dispatcher, At
  <2> QED
    BY <2>1, <1>2, <1>0, <1>q, DispatcherTakes DEF KeepsTaken, KeepsRun
<1>3. ASSUME NEW more, Audio(more)
      PROVE  P
  <2>1. core.state = "S_Audio"
    BY <1>3 DEF Audio, At
  <2> QED
    BY <2>1, <1>3, <1>0, <1>q, AudioTakes DEF KeepsTaken, KeepsRun
<1>4. ASSUME NEW late, HeaderLz4(b, late)
      PROVE  P
  <2>1. core.state = "S_Blit_Header_Lz4"
    BY <1>4 DEF HeaderLz4, At
  <2> QED
    BY <2>1, <1>4, <1>0, <1>q, HeaderTakes DEF KeepsTaken, KeepsRun
<1>5. CASE BlitLz4
  <2>1. core.state = "S_Blit_Lz4"
    BY <1>5 DEF BlitLz4, At
  <2> QED
    BY <2>1, <1>5, <1>0, <1>q, BlitTakes DEF KeepsTaken, KeepsRun
<1>6. CASE PrepareLz4(b)
  <2>1. core.state = "S_Blit_Prepare_Lz4"
    BY <1>6 DEF PrepareLz4, At
  <2> QED
    BY <2>1, <1>6, <1>0, <1>q, PrepareTakes DEF KeepsTaken, KeepsRun
<1>7. CASE CopyLz4(b)
  <2>1. core.state = "S_Blit_Copy_Lz4"
    BY <1>7 DEF CopyLz4, At
  <2> QED
    BY <2>1, <1>7, <1>0, <1>q, CopyTakes DEF KeepsTaken, KeepsRun
<1>8. CASE CopyEndLz4
  <2>1. core.state = "S_Blit_Copy_End_Lz4"
    BY <1>8 DEF CopyEndLz4, At
  <2> QED
    BY <2>1, <1>8, <1>0, <1>q, CopyEndTakes DEF KeepsTaken, KeepsRun
<1>9. ASSUME NEW ready, InflateLz4(b, ready)
      PROVE  P
  <2>1. core.state = "S_Blit_Inflate_Lz4"
    BY <1>9 DEF InflateLz4, At
  <2> QED
    BY <2>1, <1>9, <1>0, <1>q, InflateTakes DEF KeepsTaken, KeepsRun
<1>10. CASE EndLz4
  <2>1. core.state = "S_Blit_End_Lz4"
    BY <1>10 DEF EndLz4, At
  <2> QED
    BY <2>1, <1>10, <1>0, <1>q, EndTakes DEF KeepsTaken, KeepsRun
<1>11. CASE DeltaPrepare(b)
  <2>1. core.state = "S_Delta_Prepare"
    BY <1>11 DEF DeltaPrepare, At
  <2> QED
    BY <2>1, <1>11, <1>0, <1>q, DeltaPrepareTakes DEF KeepsTaken, KeepsRun
<1>12. CASE DeltaCopy(b)
  <2>1. core.state = "S_Delta_Copy"
    BY <1>12 DEF DeltaCopy, At
  <2> QED
    BY <2>1, <1>12, <1>0, <1>q, DeltaCopyTakes DEF KeepsTaken, KeepsRun
<1> HIDE DEF P
<1> QED
  BY <1>0, <1>2, <1>3, <1>4, <1>5, <1>6, <1>7, <1>8, <1>9, <1>10, <1>11, <1>12 DEF CoreClock

LEMMA StoppedOKClock ==
  ASSUME BlitInv, TakeInv, NEW b \in BOOLEAN, NEW d \in BOOLEAN, NEW good, Clock(b, d, good)
  PROVE  StoppedOK'
<1> DEFINE P == core'.state # "S_Blit_Inflate_Lz4" => pins'.stop \/ ~pins'.run
<1> SUFFICES P
  BY DEF StoppedOK
<1>0. CoreClock(b, good) /\ FieldsOK /\ TakeFields
  BY DEF Clock, BlitInv, TakeInv
<1>q. core.state # "S_Blit_Inflate_Lz4" => pins.stop \/ ~pins.run
  BY DEF TakeInv, StoppedOK
<1>2. CASE Dispatcher(b)
  <2>1. core.state = "S_Dispatcher"
    BY <1>2 DEF Dispatcher, At
  <2> QED
    BY <2>1, <1>2, <1>0, <1>q, DispatcherTakes DEF KeepsRun
<1>3. ASSUME NEW more, Audio(more)
      PROVE  P
  <2>1. core.state = "S_Audio"
    BY <1>3 DEF Audio, At
  <2> QED
    BY <2>1, <1>3, <1>0, <1>q, AudioTakes DEF KeepsRun
<1>4. ASSUME NEW late, HeaderLz4(b, late)
      PROVE  P
  <2>1. core.state = "S_Blit_Header_Lz4"
    BY <1>4 DEF HeaderLz4, At
  <2> QED
    BY <2>1, <1>4, <1>0, <1>q, HeaderTakes DEF KeepsRun
<1>5. CASE BlitLz4
  <2>1. core.state = "S_Blit_Lz4"
    BY <1>5 DEF BlitLz4, At
  <2> QED
    BY <2>1, <1>5, <1>0, <1>q, BlitTakes DEF KeepsRun
<1>6. CASE PrepareLz4(b)
  <2>1. core.state = "S_Blit_Prepare_Lz4"
    BY <1>6 DEF PrepareLz4, At
  <2> QED
    BY <2>1, <1>6, <1>0, <1>q, PrepareTakes DEF KeepsRun
<1>7. CASE CopyLz4(b)
  <2>1. core.state = "S_Blit_Copy_Lz4"
    BY <1>7 DEF CopyLz4, At
  <2> QED
    BY <2>1, <1>7, <1>0, <1>q, CopyTakes DEF KeepsRun
<1>8. CASE CopyEndLz4
  <2>1. core.state = "S_Blit_Copy_End_Lz4"
    BY <1>8 DEF CopyEndLz4, At
  <2> QED
    BY <2>1, <1>8, <1>0, <1>q, CopyEndTakes DEF KeepsRun
<1>9. ASSUME NEW ready, InflateLz4(b, ready)
      PROVE  P
  <2>1. core.state = "S_Blit_Inflate_Lz4"
    BY <1>9 DEF InflateLz4, At
  <2> QED
    BY <2>1, <1>9, <1>0, <1>q, InflateTakes DEF KeepsRun
<1>10. CASE EndLz4
  <2>1. core.state = "S_Blit_End_Lz4"
    BY <1>10 DEF EndLz4, At
  <2> QED
    BY <2>1, <1>10, <1>0, <1>q, EndTakes DEF KeepsRun
<1>11. CASE DeltaPrepare(b)
  <2>1. core.state = "S_Delta_Prepare"
    BY <1>11 DEF DeltaPrepare, At
  <2> QED
    BY <2>1, <1>11, <1>0, <1>q, DeltaPrepareTakes DEF KeepsRun
<1>12. CASE DeltaCopy(b)
  <2>1. core.state = "S_Delta_Copy"
    BY <1>12 DEF DeltaCopy, At
  <2> QED
    BY <2>1, <1>12, <1>0, <1>q, DeltaCopyTakes DEF KeepsRun
<1> HIDE DEF P
<1> QED
  BY <1>0, <1>2, <1>3, <1>4, <1>5, <1>6, <1>7, <1>8, <1>9, <1>10, <1>11, <1>12 DEF CoreClock

LEMMA FilledOKClock ==
  ASSUME BlitInv, TakeInv, NEW b \in BOOLEAN, NEW d \in BOOLEAN, NEW good, Clock(b, d, good)
  PROVE  FilledOK'
<1> DEFINE P == core'.auto \/ core'.state \in {"S_Blit_Header_Lz4", "S_Blit_Lz4"}
                => \/ env.cmd \/ core.auto
                   \/ core.state \in {"S_Blit_Header_Lz4", "S_Blit_Lz4"}
<1>0. CoreClock(b, good) /\ FieldsOK /\ TakeFields /\ FilledOK
  BY DEF Clock, BlitInv, TakeInv
<1>1. KeepsEnv /\ (env'.cmd => env.cmd)
  BY <1>0, EnvClock, QuietTakes
<1> SUFFICES P
  BY <1>0, <1>1 DEF FilledOK, KeepsEnv, Filled
<1>2. CASE Dispatcher(b)
  <2>1. core.state = "S_Dispatcher"
    BY <1>2 DEF Dispatcher, At
  <2> QED
    BY <2>1, <1>2, <1>0, DispatcherTakes, DispatcherClock
<1>3. ASSUME NEW more, Audio(more)
      PROVE  P
  <2>1. core.state = "S_Audio"
    BY <1>3 DEF Audio, At
  <2> QED
    BY <2>1, <1>3, <1>0, AudioTakes, AudioClock
<1>4. ASSUME NEW late, HeaderLz4(b, late)
      PROVE  P
  <2>1. core.state = "S_Blit_Header_Lz4"
    BY <1>4 DEF HeaderLz4, At
  <2> QED
    BY <2>1, <1>4, <1>0, HeaderTakes, HeaderClock
<1>5. CASE BlitLz4
  <2>1. core.state = "S_Blit_Lz4"
    BY <1>5 DEF BlitLz4, At
  <2> QED
    BY <2>1, <1>5, <1>0, BlitTakes, BlitClock
<1>6. CASE PrepareLz4(b)
  <2>1. core.state = "S_Blit_Prepare_Lz4"
    BY <1>6 DEF PrepareLz4, At
  <2> QED
    BY <2>1, <1>6, <1>0, PrepareTakes, PrepareClock
<1>7. CASE CopyLz4(b)
  <2>1. core.state = "S_Blit_Copy_Lz4"
    BY <1>7 DEF CopyLz4, At
  <2> QED
    BY <2>1, <1>7, <1>0, CopyTakes, CopyClock
<1>8. CASE CopyEndLz4
  <2>1. core.state = "S_Blit_Copy_End_Lz4"
    BY <1>8 DEF CopyEndLz4, At
  <2> QED
    BY <2>1, <1>8, <1>0, CopyEndTakes, CopyEndClock
<1>9. ASSUME NEW ready, InflateLz4(b, ready)
      PROVE  P
  <2>1. core.state = "S_Blit_Inflate_Lz4"
    BY <1>9 DEF InflateLz4, At
  <2> QED
    BY <2>1, <1>9, <1>0, InflateTakes, InflateClock
<1>10. CASE EndLz4
  <2>1. core.state = "S_Blit_End_Lz4"
    BY <1>10 DEF EndLz4, At
  <2> QED
    BY <2>1, <1>10, <1>0, EndTakes, EndClock
<1>11. CASE DeltaPrepare(b)
  <2>1. core.state = "S_Delta_Prepare"
    BY <1>11 DEF DeltaPrepare, At
  <2> QED
    BY <2>1, <1>11, <1>0, DeltaPrepareTakes, DeltaPrepareClock
<1>12. CASE DeltaCopy(b)
  <2>1. core.state = "S_Delta_Copy"
    BY <1>12 DEF DeltaCopy, At
  <2> QED
    BY <2>1, <1>12, <1>0, DeltaCopyTakes, DeltaCopyClock
<1> HIDE DEF P
<1> QED
  BY <1>0, <1>2, <1>3, <1>4, <1>5, <1>6, <1>7, <1>8, <1>9, <1>10, <1>11, <1>12 DEF CoreClock

(* The word of a zone is one.                                                 *)
LEMMA WordIsLong ==
  ASSUME NEW n
  PROVE  Word(n) # NoLong
<1>1. DOMAIN Word(n) = 1..WordBytes
  BY DEF Word
<1>2. 1 \in 1..WordBytes
  BY Constants
<1>3. DOMAIN NoLong = {}
  BY DEF NoLong
<1> QED
  BY <1>1, <1>2, <1>3

LEMMA ZoneOKClock ==
  ASSUME BlitInv, TakeInv, NEW b \in BOOLEAN, NEW d \in BOOLEAN, NEW good, Clock(b, d, good)
  PROVE  ZoneOK'
<1>0. Port(b, d) /\ CoreClock(b, good) /\ FieldsOK /\ TakeFields /\ PortOK /\ ZoneOK
  BY DEF Clock, BlitInv, TakeInv
<1> SUFFICES ASSUME core'.state = "S_Blit_Copy_Lz4"
             PROVE  ZoneOK'
  BY DEF ZoneOK, At
<1> DEFINE P == \/ ~Busy(b) /\ ddr'.what = "zone"
                \/ core.state = "S_Blit_Copy_Lz4" /\ ddr'.what = ddr.what
<1>p. /\ d => port.reading
      /\ port'.ready = d
      /\ port'.reading => port.reading \/ port.read_req
      /\ ~port.reading /\ port'.reading => port'.what = ddr.what
      /\ port.reading => port'.what = port.what
      /\ d => port'.dout = Memory(port.what, burst.next)
  BY <1>0, PortClock
<1>1. CASE P
  <2>1. CASE ~Busy(b) /\ ddr'.what = "zone"
    BY <2>1, <1>0, <1>p DEF Busy, PortOK, ZoneOK
  <2>2. CASE core.state = "S_Blit_Copy_Lz4" /\ ddr'.what = ddr.what
    <3>1. ddr.what = "zone" /\ (port.reading => port.what = "zone")
      BY <2>2, <1>0 DEF ZoneOK, At
    <3>2. d => port'.dout # NoLong
      BY <3>1, <1>p, WordIsLong DEF Memory
    <3> QED
      BY <3>1, <3>2, <2>2, <1>p DEF ZoneOK
  <2> QED
    BY <1>1, <2>1, <2>2
<1>2. P
  <2>2. CASE Dispatcher(b)
    <3>1. core.state = "S_Dispatcher"
      BY <2>2 DEF Dispatcher, At
    <3> QED
      BY <3>1, <2>2, <1>0, DispatcherTakes, DispatcherClock
  <2>3. ASSUME NEW more, Audio(more)
        PROVE  P
    <3>1. core.state = "S_Audio"
      BY <2>3 DEF Audio, At
    <3> QED
      BY <3>1, <2>3, <1>0, AudioTakes, AudioClock
  <2>4. ASSUME NEW late, HeaderLz4(b, late)
        PROVE  P
    <3>1. core.state = "S_Blit_Header_Lz4"
      BY <2>4 DEF HeaderLz4, At
    <3> QED
      BY <3>1, <2>4, <1>0, HeaderTakes, HeaderClock
  <2>5. CASE BlitLz4
    <3>1. core.state = "S_Blit_Lz4"
      BY <2>5 DEF BlitLz4, At
    <3> QED
      BY <3>1, <2>5, <1>0, BlitTakes, BlitClock
  <2>6. CASE PrepareLz4(b)
    <3>1. core.state = "S_Blit_Prepare_Lz4"
      BY <2>6 DEF PrepareLz4, At
    <3> QED
      BY <3>1, <2>6, <1>0, PrepareTakes, PrepareClock
  <2>7. CASE CopyLz4(b)
    <3>1. core.state = "S_Blit_Copy_Lz4"
      BY <2>7 DEF CopyLz4, At
    <3> QED
      BY <3>1, <2>7, <1>0, CopyTakes, CopyClock
  <2>8. CASE CopyEndLz4
    <3>1. core.state = "S_Blit_Copy_End_Lz4"
      BY <2>8 DEF CopyEndLz4, At
    <3> QED
      BY <3>1, <2>8, <1>0, CopyEndTakes, CopyEndClock
  <2>9. ASSUME NEW ready, InflateLz4(b, ready)
        PROVE  P
    <3>1. core.state = "S_Blit_Inflate_Lz4"
      BY <2>9 DEF InflateLz4, At
    <3> QED
      BY <3>1, <2>9, <1>0, InflateTakes, InflateClock
  <2>10. CASE EndLz4
    <3>1. core.state = "S_Blit_End_Lz4"
      BY <2>10 DEF EndLz4, At
    <3> QED
      BY <3>1, <2>10, <1>0, EndTakes, EndClock
  <2>11. CASE DeltaPrepare(b)
    <3>1. core.state = "S_Delta_Prepare"
      BY <2>11 DEF DeltaPrepare, At
    <3> QED
      BY <3>1, <2>11, <1>0, DeltaPrepareTakes, DeltaPrepareClock
  <2>12. CASE DeltaCopy(b)
    <3>1. core.state = "S_Delta_Copy"
      BY <2>12 DEF DeltaCopy, At
    <3> QED
      BY <3>1, <2>12, <1>0, DeltaCopyTakes, DeltaCopyClock
  <2> HIDE DEF P
  <2> QED
    BY <1>0, <2>2, <2>3, <2>4, <2>5, <2>6, <2>7, <2>8, <2>9, <2>10, <2>11, <2>12
       DEF CoreClock
<1> QED
  BY <1>1, <1>2

LEMMA StartedOKClock ==
  ASSUME BlitInv, TakeInv, NEW b \in BOOLEAN, NEW d \in BOOLEAN, NEW good, Clock(b, d, good)
  PROVE  StartedOK'
<1> DEFINE w == block_write_total'
           P == /\ w = 0 \/ pins'.reset => core'.wr = 0
                /\ pins'.reset =>
                     ~core'.resume /\ (core'.state = "S_Blit_Prepare_Lz4" => w = 0)
                /\ \/ core'.state \in {"S_Blit_Inflate_Lz4", "S_Delta_Prepare", "S_Delta_Copy"}
                   \/ core'.resume
                   => w > 0
                /\ core'.state = "S_Blit_End_Lz4" => w > 0 \/ core'.abort
                /\ w = 0 =>
                     /\ core'.state \in {"S_Blit_Prepare_Lz4", "S_Blit_Copy_Lz4"}
                        => pins'.compressed_bytes > 0
                     /\ core'.state \in {"S_Blit_Copy_Lz4", "S_Blit_Copy_End_Lz4"}
                        => reg'.total = 0
                     /\ core'.state = "S_Blit_Copy_End_Lz4" => pins'.word # NoLong
<1> SUFFICES P
  BY DEF StartedOK, At
<1>0. CoreClock(b, good) /\ Decoder(b) /\ FieldsOK /\ TakeFields /\ RegOK
  BY DEF Clock, BlitInv, TakeInv, CountersOK
<1>q. /\ block_write_total = 0 \/ pins.reset => core.wr = 0
      /\ pins.reset =>
           ~core.resume /\ (core.state = "S_Blit_Prepare_Lz4" => block_write_total = 0)
      /\ \/ core.state \in {"S_Blit_Inflate_Lz4", "S_Delta_Prepare", "S_Delta_Copy"}
         \/ core.resume
         => block_write_total > 0
      /\ core.state = "S_Blit_End_Lz4" => block_write_total > 0 \/ core.abort
      /\ block_write_total = 0 =>
           /\ core.state \in {"S_Blit_Prepare_Lz4", "S_Blit_Copy_Lz4"}
              => pins.compressed_bytes > 0
           /\ core.state \in {"S_Blit_Copy_Lz4", "S_Blit_Copy_End_Lz4"} => reg.total = 0
           /\ core.state = "S_Blit_Copy_End_Lz4" => pins.word # NoLong
  BY DEF TakeInv, StartedOK, At
<1>r. /\ pins.reset => core.state \in {"S_Dispatcher", "S_Blit_Prepare_Lz4", "S_Blit_End_Lz4"}
      /\ pins.reset /\ core.state = "S_Blit_End_Lz4" => core.abort
      /\ pins.word # NoLong => core.state \in {"S_Blit_Copy_Lz4", "S_Blit_Copy_End_Lz4"}
  BY DEF BlitInv, PinsOK, At
<1>w. /\ pins.reset => w = 0
      /\ ~pins.reset => w >= block_write_total
      /\ pins.word = NoLong /\ ~pins.reset => w = block_write_total
      /\ pins.word # NoLong /\ block_write_total = 0 /\ reg.total = 0 => w > 0
      /\ w \in Nat
  BY <1>0, WriteClock
<1>n. block_write_total \in Nat /\ reg.total \in Nat /\ pins.compressed_bytes \in Nat
  BY <1>0 DEF BlitInv, CountersOK, RegOK, TakeInv, TakeCounters
<1>s. block_write_total = 0 /\ reg.total = 0 /\ pins.compressed_bytes > 0 => reg'.total = 0
  BY <1>0, <1>n, StaysBefore
<1>z. /\ core.state = "S_Blit_Copy_Lz4" /\ port.ready => port.dout # NoLong
      /\ core.state = "S_Blit_Lz4" => Len(env.latch.coded) > 0
  BY DEF TakeInv, ZoneOK, FilledOK, Filled, At
<1> HIDE DEF w
<1>2. CASE Dispatcher(b)
  <2>1. core.state = "S_Dispatcher"
    BY <1>2 DEF Dispatcher, At
  <2> QED
    BY <2>1, <1>2, <1>q, <1>r, <1>w, <1>n, <1>s, <1>z, <1>0, DispatcherTakes, DispatcherClock DEF Keeps, KeepsTaken, KeepsRun, KeepsPins
<1>3. ASSUME NEW more, Audio(more)
      PROVE  P
  <2>1. core.state = "S_Audio"
    BY <1>3 DEF Audio, At
  <2> QED
    BY <2>1, <1>3, <1>q, <1>r, <1>w, <1>n, <1>s, <1>z, <1>0, AudioTakes, AudioClock DEF Keeps, KeepsTaken, KeepsRun, KeepsPins
<1>4. ASSUME NEW late, HeaderLz4(b, late)
      PROVE  P
  <2>1. core.state = "S_Blit_Header_Lz4"
    BY <1>4 DEF HeaderLz4, At
  <2> QED
    BY <2>1, <1>4, <1>q, <1>r, <1>w, <1>n, <1>s, <1>z, <1>0, HeaderTakes, HeaderClock DEF Keeps, KeepsTaken, KeepsRun, KeepsPins, Resumes
<1>5. CASE BlitLz4
  <2>1. core.state = "S_Blit_Lz4"
    BY <1>5 DEF BlitLz4, At
  <2> QED
    BY <2>1, <1>5, <1>q, <1>r, <1>w, <1>n, <1>s, <1>z, <1>0, BlitTakes, BlitClock DEF Keeps, KeepsTaken, KeepsRun, KeepsPins
<1>6. CASE PrepareLz4(b)
  <2>1. core.state = "S_Blit_Prepare_Lz4"
    BY <1>6 DEF PrepareLz4, At
  <2> QED
    BY <2>1, <1>6, <1>q, <1>r, <1>w, <1>n, <1>s, <1>z, <1>0, PrepareTakes, PrepareClock DEF Keeps, KeepsTaken, KeepsRun, KeepsPins, WriteReady
<1>7. CASE CopyLz4(b)
  <2>1. core.state = "S_Blit_Copy_Lz4"
    BY <1>7 DEF CopyLz4, At
  <2> QED
    BY <2>1, <1>7, <1>q, <1>r, <1>w, <1>n, <1>s, <1>z, <1>0, CopyTakes, CopyClock DEF Keeps, KeepsTaken, KeepsRun, KeepsPins
<1>8. CASE CopyEndLz4
  <2>1. core.state = "S_Blit_Copy_End_Lz4"
    BY <1>8 DEF CopyEndLz4, At
  <2> QED
    BY <2>1, <1>8, <1>q, <1>r, <1>w, <1>n, <1>s, <1>z, <1>0, CopyEndTakes, CopyEndClock DEF Keeps, KeepsTaken, KeepsRun, KeepsPins
<1>9. ASSUME NEW ready, InflateLz4(b, ready)
      PROVE  P
  <2>1. core.state = "S_Blit_Inflate_Lz4"
    BY <1>9 DEF InflateLz4, At
  <2> QED
    BY <2>1, <1>9, <1>q, <1>r, <1>w, <1>n, <1>s, <1>z, <1>0, InflateTakes, InflateClock DEF Keeps, KeepsTaken, KeepsRun, KeepsPins
<1>10. CASE EndLz4
  <2>1. core.state = "S_Blit_End_Lz4"
    BY <1>10 DEF EndLz4, At
  <2> QED
    BY <2>1, <1>10, <1>q, <1>r, <1>w, <1>n, <1>s, <1>z, <1>0, EndTakes, EndClock DEF Keeps, KeepsTaken, KeepsRun, KeepsPins, EndLz4, FieldsOK
<1>11. CASE DeltaPrepare(b)
  <2>1. core.state = "S_Delta_Prepare"
    BY <1>11 DEF DeltaPrepare, At
  <2> QED
    BY <2>1, <1>11, <1>q, <1>r, <1>w, <1>n, <1>s, <1>z, <1>0, DeltaPrepareTakes, DeltaPrepareClock DEF Keeps, KeepsTaken, KeepsRun, KeepsPins
<1>12. CASE DeltaCopy(b)
  <2>1. core.state = "S_Delta_Copy"
    BY <1>12 DEF DeltaCopy, At
  <2> QED
    BY <2>1, <1>12, <1>q, <1>r, <1>w, <1>n, <1>s, <1>z, <1>0, DeltaCopyTakes, DeltaCopyClock DEF Keeps, KeepsTaken, KeepsRun, KeepsPins
<1> HIDE DEF P
<1> QED
  BY <1>0, <1>2, <1>3, <1>4, <1>5, <1>6, <1>7, <1>8, <1>9, <1>10, <1>11, <1>12 DEF CoreClock

(* The decoder goes on from a valid long only in a clock that takes it, or    *)
(* after the last pixel.                                                      *)
LEMMA TakenOKClock ==
  ASSUME BlitInv, TakeInv, NEW b \in BOOLEAN, NEW d \in BOOLEAN, NEW good, Clock(b, d, good),
         FrameBytes \in Nat \ {0}
  PROVE  TakenOK'
<1> DEFINE w == block_write_total'
           m == WordBytes * core.wr
           C(s, n) == s \in Begun \/ n > 0
           P == \/ pins'.reset /\ core'.state = "S_Dispatcher"
                \/ pins'.reset /\ (reg'.bytes = 0 \/ reg'.valid)
                \/ ~pins'.reset /\ \/ ~(core'.px < Words)
                                   \/ reg'.bytes <= WordBytes * core'.wr
                                   \/ /\ reg'.valid
                                      /\ C(core'.state, w)
                                         => reg'.bytes <= WordBytes * core'.wr + WordBytes
<1> SUFFICES P
  BY DEF TakenOK, At
<1>0. CoreClock(b, good) /\ Decoder(b) /\ FieldsOK /\ TakeFields /\ RegTakes
  BY DEF Clock, BlitInv, TakeInv, TakeFields, TakeCounters, RegTakes
<1>m. /\ m \in Nat /\ WordBytes \in Nat /\ WordBytes > 0 /\ core.wr * WordBytes = m
      /\ WordBytes * (core.wr + 1) = m + WordBytes
      /\ core.wr \in Nat /\ reg.bytes \in Nat
      /\ core.wr = 0 => m = 0 /\ core.px = 0
  BY Constants DEF TakeInv, TakeCounters
<1>d. /\ reg'.bytes \in Nat
      /\ \/ reg'.bytes = (IF pins.reset THEN 0 ELSE reg.bytes)
            /\ reg'.valid = (IF pins.reset THEN FALSE ELSE reg.valid)
         \/ /\ pins.run /\ (~reg.valid \/ ~Stop(b))
            /\ \/ reg'.bytes = (IF pins.reset THEN 0 ELSE reg.bytes)
               \/ reg'.valid /\ reg'.bytes <= reg.bytes + WordBytes
  BY <1>0, TakesClock, HeldQuiet DEF RegTakes
<1>q. /\ \/ pins.reset /\ core.state = "S_Dispatcher"
         \/ pins.reset /\ (reg.bytes = 0 \/ reg.valid)
         \/ ~pins.reset /\ \/ ~(core.px < Words)
                           \/ reg.bytes <= m
                           \/ reg.valid /\ (C(core.state, block_write_total)
                                            => reg.bytes <= m + WordBytes)
      /\ core.state # "S_Blit_Inflate_Lz4" => pins.stop \/ ~pins.run
      /\ block_write_total = 0 \/ pins.reset => core.wr = 0
      /\ core.resume => block_write_total > 0
  BY DEF TakeInv, TakenOK, StoppedOK, StartedOK, At
<1>r. /\ pins.reset => core.state \in {"S_Dispatcher", "S_Blit_Prepare_Lz4", "S_Blit_End_Lz4"}
      /\ pins.reset /\ core.state = "S_Blit_End_Lz4" => core.abort
      /\ pins.word # NoLong => core.state \in {"S_Blit_Copy_Lz4", "S_Blit_Copy_End_Lz4"}
  BY DEF BlitInv, PinsOK, At
<1>w. /\ pins.reset => w = 0
      /\ pins.word = NoLong /\ ~pins.reset => w = block_write_total
      /\ w \in Nat /\ block_write_total \in Nat /\ reg.total \in Nat
  BY <1>0, WriteClock DEF BlitInv, CountersOK, RegOK
<1>x. 0 < Words
  <2>1. 1 <= (FrameBytes + WordBytes - 1) \div WordBytes
    BY <1>m, DivAbove
  <2> QED
    BY <2>1, <1>m, DivDef DEF Words
<1>y. pins.stop => Stop(b)
  BY DEF Stop
<1> HIDE DEF w, m
<1>k. ASSUME ~pins.reset, ~pins'.reset, KeepsTaken,
             core.state = "S_Blit_Inflate_Lz4" => ~Takes(b),
             C(core'.state, w) => C(core.state, block_write_total)
      PROVE  P
  <2>1. CASE ~(core.px < Words)
    BY <2>1, <1>k DEF KeepsTaken
  <2>2. CASE reg.bytes <= m
    BY <2>2, <1>k, <1>d, <1>m DEF KeepsTaken, m
  <2>3. CASE /\ reg.valid
             /\ C(core.state, block_write_total) => reg.bytes <= m + WordBytes
    <3>1. CASE reg'.bytes = reg.bytes /\ reg'.valid = reg.valid
      BY <3>1, <2>3, <1>k DEF KeepsTaken, m
    <3>2. CASE pins.run /\ ~Stop(b)
      <4>1. core.state = "S_Blit_Inflate_Lz4" /\ ~Takes(b)
        BY <3>2, <1>q, <1>y, <1>k
      <4>2. ~(core.px < Words) \/ ~(reg.bytes > m)
        BY <4>1, <3>2, <2>3, <1>m DEF Takes, Stop
      <4> QED
        BY <4>2, <2>1, <2>2, <1>m
    <3> QED
      BY <3>1, <3>2, <2>3, <1>d, <1>k
  <2> QED
    BY <2>1, <2>2, <2>3, <1>q, <1>k
<1>2. CASE Dispatcher(b)
  <2>1. core.state = "S_Dispatcher"
    BY <1>2 DEF Dispatcher, At
  <2>2. /\ ~pins'.reset /\ KeepsTaken
        /\ core'.state \in {"S_Dispatcher", "S_Audio", "S_Blit_Header_Lz4"}
    BY <1>2, <1>0, DispatcherClock, DispatcherTakes
  <2>3. CASE ~pins.reset
    BY <2>1, <2>2, <2>3, <1>k, <1>r, <1>w DEF Begun
  <2>4. CASE pins.reset
    <3>1. core.wr = 0 /\ WordBytes * core'.wr = 0
      BY <2>2, <2>4, <1>q, <1>m DEF KeepsTaken, m
    <3>2. ~C(core'.state, w)
      BY <2>2, <2>4, <1>w DEF Begun
    <3>3. reg'.bytes = 0 \/ reg'.valid
      BY <2>4, <1>d
    <3>4. 0 <= WordBytes * core'.wr
      BY <3>1
    <3> HIDE DEF C
    <3> QED
      BY <3>2, <3>3, <3>4, <2>2
  <2> QED
    BY <2>3, <2>4
<1>3. ASSUME NEW more, Audio(more)
      PROVE  P
  <2>1. core.state = "S_Audio"
    BY <1>3 DEF Audio, At
  <2>2. pins'.reset = pins.reset /\ KeepsTaken /\ core'.state \in {"S_Dispatcher", "S_Audio"}
    BY <1>3, <1>0, AudioClock, AudioTakes DEF KeepsPins
  <2> QED
    BY <2>1, <2>2, <1>k, <1>r, <1>w DEF Begun
<1>4. ASSUME NEW late, HeaderLz4(b, late)
      PROVE  P
  <2>1. core.state = "S_Blit_Header_Lz4"
    BY <1>4 DEF HeaderLz4, At
  <2>2. /\ pins'.reset = pins.reset /\ KeepsTaken
        /\ \/ core'.state \in {"S_Blit_Header_Lz4", "S_Blit_Lz4", "S_Dispatcher"}
           \/ block_write_total > 0
    BY <1>4, <1>0, <1>q, <1>w, HeaderClock, HeaderTakes DEF KeepsPins, Resumes
  <2> QED
    BY <2>1, <2>2, <1>k, <1>r, <1>w DEF Begun
<1>5. CASE BlitLz4
  <2>1. core.state = "S_Blit_Lz4"
    BY <1>5 DEF BlitLz4, At
  <2>2. CASE KeepsTaken /\ pins'.reset = pins.reset
             /\ (core'.state = "S_Dispatcher" \/ block_write_total # 0)
    BY <2>1, <2>2, <1>k, <1>r, <1>w DEF Begun
  <2>3. CASE pins'.reset /\ block_write_total = 0
    <3>1. ~pins.reset /\ core.wr = 0 /\ m = 0 /\ core.px < Words
      BY <2>1, <2>3, <1>r, <1>q, <1>m, <1>x
    <3>2. CASE reg.bytes = 0
      BY <3>1, <3>2, <2>3, <1>d
    <3>3. CASE reg.valid
      BY <3>1, <3>3, <2>1, <2>3, <1>q, <1>y, <1>d
    <3> QED
      BY <3>1, <3>2, <3>3, <1>q, <1>m
  <2> QED
    BY <2>2, <2>3, <1>5, <1>0, BlitTakes
<1>6. CASE PrepareLz4(b)
  <2>1. core.state = "S_Blit_Prepare_Lz4"
    BY <1>6 DEF PrepareLz4, At
  <2>2. ~pins'.reset /\ KeepsTaken
    BY <1>6, <1>0, PrepareClock, PrepareTakes
  <2>3. CASE ~pins.reset
    BY <2>1, <2>2, <2>3, <1>k DEF Begun
  <2>4. CASE pins.reset
    <3>1. core.wr = 0 /\ WordBytes * core'.wr = 0
      BY <2>2, <2>4, <1>q, <1>m DEF KeepsTaken, m
    <3>2. reg.bytes = 0 \/ reg.valid
      BY <2>1, <2>4, <1>q
    <3>3. pins.run => Stop(b)
      BY <2>1, <1>q, <1>y
    <3>4. reg'.bytes = 0 \/ (reg'.valid /\ reg'.bytes <= WordBytes)
      <4>1. pins.run /\ (~reg.valid \/ ~Stop(b)) => reg.bytes = 0
        BY <3>2, <3>3
      <4>2. \/ reg'.bytes = 0
            \/ reg.bytes = 0 /\ reg'.valid /\ reg'.bytes <= reg.bytes + WordBytes
        BY <4>1, <2>4, <1>d
      <4> QED
        BY <4>2, <1>m
    <3>5. 0 <= WordBytes * core'.wr /\ WordBytes * core'.wr + WordBytes = WordBytes
      BY <3>1, <1>m
    <3> HIDE DEF C
    <3> QED
      BY <3>4, <3>5, <2>2
  <2> QED
    BY <2>3, <2>4
<1>7. CASE CopyLz4(b)
  <2>1. core.state = "S_Blit_Copy_Lz4"
    BY <1>7 DEF CopyLz4, At
  <2> QED
    BY <2>1, <1>7, <1>0, <1>k, <1>r, CopyClock, CopyTakes DEF Begun
<1>8. CASE CopyEndLz4
  <2>1. core.state = "S_Blit_Copy_End_Lz4"
    BY <1>8 DEF CopyEndLz4, At
  <2> QED
    BY <2>1, <1>8, <1>0, <1>k, <1>r, CopyEndClock, CopyEndTakes DEF Begun
<1>9. ASSUME NEW ready, InflateLz4(b, ready)
      PROVE  P
  <2>1. core.state = "S_Blit_Inflate_Lz4"
    BY <1>9 DEF InflateLz4, At
  <2>2. ~pins.reset /\ ~pins'.reset
    BY <2>1, <1>9, <1>0, <1>r, InflateClock DEF KeepsPins
  <2>3. CASE ~Takes(b) /\ KeepsTaken
    BY <2>1, <2>2, <2>3, <1>k DEF Begun
  <2>4. CASE Takes(b) /\ core'.wr = core.wr + 1
    <3>1. reg.bytes > m /\ core.px < Words
      BY <2>4, <1>m DEF Takes
    <3>2. reg.bytes <= m + WordBytes
      <4>1. ~(reg.bytes <= m)
        BY <3>1, <1>m
      <4>2. C(core.state, block_write_total) => reg.bytes <= m + WordBytes
        BY <4>1, <3>1, <2>2, <1>q
      <4>3. core.state \in Begun
        BY <2>1 DEF Begun
      <4> QED
        BY <4>2, <4>3
    <3>3. WordBytes * core'.wr = m + WordBytes
      BY <2>4, <1>m
    <3> QED
      BY <3>2, <3>3, <2>2, <1>d, <1>m
  <2> QED
    BY <2>3, <2>4, <1>9, <1>0, InflateTakes
<1>10. CASE EndLz4
  <2>1. core.state = "S_Blit_End_Lz4"
    BY <1>10 DEF EndLz4, At
  <2>2. CASE pins'.reset /\ core'.state = "S_Dispatcher"
    BY <2>2
  <2>3. CASE KeepsTaken /\ ~core.abort /\ pins'.reset = pins.reset
    BY <2>1, <2>3, <1>k, <1>r DEF Begun
  <2> QED
    BY <2>2, <2>3, <1>10, <1>0, EndTakes
<1>11. CASE DeltaPrepare(b)
  <2>1. core.state = "S_Delta_Prepare"
    BY <1>11 DEF DeltaPrepare, At
  <2> QED
    BY <2>1, <1>11, <1>0, <1>k, <1>r, DeltaPrepareClock, DeltaPrepareTakes DEF Begun
<1>12. CASE DeltaCopy(b)
  <2>1. core.state = "S_Delta_Copy"
    BY <1>12 DEF DeltaCopy, At
  <2> QED
    BY <2>1, <1>12, <1>0, <1>k, <1>r, DeltaCopyClock, DeltaCopyTakes DEF Begun
<1> HIDE DEF P
<1> QED
  BY <1>0, <1>2, <1>3, <1>4, <1>5, <1>6, <1>7, <1>8, <1>9, <1>10, <1>11, <1>12 DEF CoreClock

-----------------------------------------------------------------------------
(* The server, and every step.                                                *)

(* What the server and the raster leave alone of TakeInv.                     *)
LEMMA OutsideTakes ==
  ASSUME TakeInv, Outside, "cmd" \in DOMAIN env', "coded" \in DOMAIN env'.next, FilledOK'
  PROVE  TakeInv'
<1>u. UNCHANGED <<pins, block_write_total, reg, core, ddr, port>>
  BY DEF Outside, input, decoder
<1>1. TakeFields' /\ TakeCounters' /\ ZoneOK' /\ StoppedOK'
  BY <1>u DEF TakeInv, TakeFields, TakeCounters, ZoneOK, StoppedOK, At
<1>2. StartedOK' /\ TakenOK'
  BY <1>u DEF TakeInv, StartedOK, TakenOK, At
<1> QED
  BY <1>1, <1>2 DEF TakeInv

LEMMA FrameFilled ==
  ASSUME EncodesPixels, NEW s \in Frames, NEW n \in 1..MaxFrames, NEW delta
  PROVE  Filled(Frame(delta, Compress(s, n * Byte * Byte)))
         /\ "coded" \in DOMAIN Frame(delta, Compress(s, n * Byte * Byte))
<1> DEFINE c == Compress(s, n * Byte * Byte).coded
<1>1. c \in Seq(Int) /\ c # <<>>
  BY DEF EncodesPixels
<1>2. Frame(delta, Compress(s, n * Byte * Byte)).coded = c
      /\ "coded" \in DOMAIN Frame(delta, Compress(s, n * Byte * Byte))
  BY DEF Frame
<1> HIDE DEF c
<1>3. Len(c) \in Nat /\ Len(c) > 0
  BY <1>1
<1> QED
  BY <1>2, <1>3 DEF Filled

LEMMA AnnouncedTakes ==
  ASSUME BlitInv, TakeInv, EncodesPixels,
         NEW sequences \in Frames, NEW delta \in BOOLEAN, SendFrame(sequences, delta)
  PROVE  TakeInv'
<1> DEFINE f == Frame(delta, Compress(sequences, (env.sent + 1) * Byte * Byte))
<1>0. FieldsOK /\ CountersOK /\ Outside /\ FilledOK /\ TakeFields
  BY DEF BlitInv, SendFrame, TakeInv
<1>f. Filled(f) /\ "coded" \in DOMAIN f
  <2>1. env.sent + 1 \in 1..MaxFrames
    BY <1>0, FramesAssumption DEF SendFrame, CountersOK
  <2> QED
    BY <2>1, FrameFilled
<1>1. /\ env'.sent = env.sent + 1 /\ env'.next = f
      /\ env'.latch = IF env.hps THEN env.latch ELSE f
      /\ env'.cmd = (env.cmd \/ ~env.hps) /\ "cmd" \in DOMAIN env'
  <2> HIDE DEF f
  <2> QED
    BY <1>0 DEF SendFrame, FieldsOK, TakeFields, f
<1> HIDE DEF f
<1>2. core' = core
  BY <1>0 DEF Outside
<1>3. FilledOK'
  <2>1. env'.sent # 0
    BY <1>0, <1>1 DEF CountersOK
  <2>2. CASE env.hps
    <3>1. env'.latch = env.latch /\ (env'.cmd <=> env.cmd)
      BY <2>2, <1>1
    <3>2. Filled(env.latch) => Filled(env'.latch)
      BY <3>1
    <3>3. Filled(env'.next)
      BY <1>f, <1>1
    <3> HIDE DEF Filled
    <3> QED
      BY <2>1, <3>1, <3>2, <3>3, <1>0, <1>2 DEF FilledOK
  <2>3. CASE ~env.hps
    <3>1. Filled(env'.next) /\ Filled(env'.latch)
      BY <2>3, <1>f, <1>1
    <3> QED
      BY <2>1, <3>1 DEF FilledOK, Filled
  <2> QED
    BY <2>2, <2>3
<1> QED
  BY <1>0, <1>f, <1>1, <1>3, OutsideTakes

LEMMA GivenUpTakes ==
  ASSUME BlitInv, TakeInv, NEW old, GiveUp(old)
  PROVE  TakeInv'
<1> DEFINE f == [env.next EXCEPT !.coded = [i \in 1..Coded |-> IF i <= env.told THEN @[i]
                                                                            ELSE old]]
<1>0. FieldsOK /\ Outside /\ FilledOK /\ TakeFields
  BY DEF BlitInv, GiveUp, TakeInv
<1>1. "coded" \in DOMAIN f /\ (Filled(env.next) => Filled(f))
  <2> DEFINE c == [i \in 1..Coded |-> IF i <= env.told THEN env.next.coded[i] ELSE old]
  <2>1. f.coded = c /\ "coded" \in DOMAIN f
    BY <1>0 DEF TakeFields
  <2>2. Coded \in Nat => Len(c) = Coded
    <3> HIDE DEF Coded
    <3> QED
      OBVIOUS
  <2> HIDE DEF c, f
  <2> QED
    BY <2>1, <2>2 DEF Filled, Coded
<1>2. /\ env'.sent = env.sent /\ env'.next = f /\ env'.latch = f
      /\ env'.cmd = env.cmd /\ "cmd" \in DOMAIN env'
  <2> HIDE DEF f
  <2> QED
    BY <1>0 DEF GiveUp, FieldsOK, TakeFields, f
<1> HIDE DEF f
<1>3. core' = core /\ env.sent \in Nat
  BY <1>0 DEF Outside, BlitInv, CountersOK
<1>4. FilledOK'
  BY <1>0, <1>1, <1>2, <1>3 DEF FilledOK
<1> QED
  BY <1>0, <1>1, <1>2, <1>4, OutsideTakes

LEMMA CommandedTakes ==
  ASSUME BlitInv, TakeInv, Command
  PROVE  TakeInv'
<1>0. /\ FieldsOK /\ Outside /\ FilledOK /\ TakeFields /\ env.latch # env.next
      /\ env'.sent = env.sent /\ env'.next = env.next /\ env'.latch = env.next
      /\ "cmd" \in DOMAIN env'
  BY DEF BlitInv, Command, TakeInv, FieldsOK, TakeFields
<1>1. core' = core /\ env.sent \in Nat
  BY <1>0 DEF Outside, BlitInv, CountersOK
<1>2. FilledOK'
  BY <1>0, <1>1 DEF FilledOK, Filled
<1> QED
  BY <1>0, <1>2, OutsideTakes DEF TakeFields

LEMMA EnvKeptTakes ==
  ASSUME TakeInv, Outside, KeepsEnv, env'.cmd = env.cmd, "cmd" \in DOMAIN env'
  PROVE  TakeInv'
<1>1. core' = core
  BY DEF Outside
<1>2. FilledOK'
  BY <1>1 DEF TakeInv, FilledOK, KeepsEnv, Filled
<1> QED
  BY <1>2, OutsideTakes DEF TakeInv, TakeFields, KeepsEnv

LEMMA TakeInitial ==
  ASSUME BlitInit, FrameBytes \in Nat \ {0}
  PROVE  TakeInv
<1>1. TakeFields
  BY DEF BlitInit, DecoderInit, PowerOn, TakeFields, NoFrame, Frame
<1>2. TakeCounters
  BY DEF BlitInit, DecoderInit, PowerOn, TakeCounters
<1>3. FilledOK
  BY DEF BlitInit, FilledOK
<1>4. ZoneOK /\ StoppedOK
  BY DEF BlitInit, ZoneOK, StoppedOK, At
<1>5. StartedOK
  BY DEF BlitInit, DecoderInit, PowerOn, StartedOK, At
<1>6. TakenOK
  <2>1. reg.bytes = 0 /\ core.wr = 0 /\ ~pins.reset
    BY DEF BlitInit, DecoderInit, PowerOn
  <2>2. 0 <= WordBytes * 0
    BY Constants
  <2> QED
    BY <2>1, <2>2 DEF TakenOK
<1> QED
  BY <1>1, <1>2, <1>3, <1>4, <1>5, <1>6 DEF TakeInv

LEMMA TakeSteps ==
  ASSUME EncodesPixels, BlitInv, TakeInv, [BlitNext]_blitVars
  PROVE  TakeInv'
<1>1. ASSUME NEW s \in Frames, NEW delta \in BOOLEAN, SendFrame(s, delta)
      PROVE  TakeInv'
  BY <1>1, AnnouncedTakes
<1>2. CASE Command
  BY <1>2, CommandedTakes
<1>3. CASE SendChunk \/ Sound \/ Starve
  <2>1. Outside /\ KeepsEnv /\ env'.cmd = env.cmd /\ "cmd" \in DOMAIN env'
    BY <1>3 DEF SendChunk, Sound, Starve, KeepsEnv, BlitInv, FieldsOK, TakeInv, TakeFields
  <2> QED
    BY <2>1, EnvKeptTakes
<1>4. ASSUME NEW old \in {1, Ones}, GiveUp(old)
      PROVE  TakeInv'
  BY <1>4, GivenUpTakes
<1>5. ASSUME NEW b \in BOOLEAN, NEW d \in BOOLEAN, Clock(b, d, FALSE)
      PROVE  TakeInv'
  <2>1. TakeFields' /\ TakeCounters' /\ FilledOK' /\ ZoneOK'
    BY <1>5, TakeFieldsClock, TakeCountersClock, FilledOKClock, ZoneOKClock
  <2>2. StoppedOK' /\ StartedOK' /\ TakenOK'
    BY <1>5, StoppedOKClock, StartedOKClock, TakenOKClock DEF EncodesPixels
  <2> QED
    BY <2>1, <2>2 DEF TakeInv
<1>6. CASE UNCHANGED blitVars
  <2>1. Outside /\ env' = env
    BY <1>6 DEF blitVars, lz4Vars, source, input, decoder, Outside
  <2> QED
    BY <2>1, EnvKeptTakes DEF KeepsEnv, TakeInv, TakeFields
<1> QED
  BY <1>1, <1>2, <1>3, <1>4, <1>5, <1>6 DEF BlitNext

(* The core takes one long and moves on by one.                               *)
LEMMA TakenNext ==
  ASSUME BlitInv, TakeInv, [BlitNext]_blitVars, core'.wr > core.wr
  PROVE  (reg.bytes + WordBytes - 1) \div WordBytes = core.wr + 1
<1>0. FieldsOK /\ TakeFields /\ core.wr \in Nat /\ reg.bytes \in Nat
  BY DEF BlitInv, TakeInv, TakeCounters
<1>1. PICK b \in BOOLEAN : CoreClock(b, FALSE)
  <2>1. core' # core
    BY <1>0
  <2>2. ~Outside /\ ~UNCHANGED blitVars
    BY <2>1 DEF Outside, blitVars
  <2>3. BlitNext
    BY <2>2
  <2> QED
    BY <2>2, <2>3 DEF BlitNext, SendFrame, Command, SendChunk, Sound, Starve, GiveUp, Clock
<1>2. ~KeepsTaken /\ core'.wr # 0
  BY <1>0 DEF KeepsTaken
<1>3. PICK ready : InflateLz4(b, ready)
  <2>1. ~Dispatcher(b) /\ (\A more : ~Audio(more)) /\ (\A late : ~HeaderLz4(b, late))
    BY <1>0, <1>2, DispatcherTakes, AudioTakes, HeaderTakes
  <2>2. ~BlitLz4 /\ ~PrepareLz4(b) /\ ~CopyLz4(b) /\ ~CopyEndLz4
    BY <1>0, <1>2, BlitTakes, PrepareTakes, CopyTakes, CopyEndTakes
  <2>3. ~EndLz4 /\ ~DeltaPrepare(b) /\ ~DeltaCopy(b)
    BY <1>0, <1>2, EndTakes, DeltaPrepareTakes, DeltaCopyTakes
  <2> QED
    BY <1>1, <2>1, <2>2, <2>3 DEF CoreClock
<1>4. Takes(b) /\ core.state = "S_Blit_Inflate_Lz4"
  BY <1>0, <1>2, <1>3, InflateTakes DEF InflateLz4, At
<1> DEFINE m == WordBytes * core.wr
<1>m. /\ m \in Nat /\ WordBytes \in Nat /\ WordBytes > 0 /\ core.wr * WordBytes = m
      /\ WordBytes * (core.wr + 1) = m + WordBytes
      /\ WordBytes * (core.wr + 2) = m + WordBytes + WordBytes
  BY <1>0, Constants
<1>5. reg.bytes > m /\ core.px < Words
  BY <1>4, <1>m DEF Takes
<1>6. reg.bytes <= m + WordBytes
  <2>1. ~pins.reset /\ core.state \in Begun
    BY <1>4 DEF BlitInv, PinsOK, Begun, At
  <2>2. ~(reg.bytes <= m)
    BY <1>0, <1>5, <1>m
  <2> QED
    BY <2>1, <2>2, <1>5 DEF TakeInv, TakenOK
<1> HIDE DEF m
<1> DEFINE n == reg.bytes + WordBytes - 1
<1>n. /\ n \in Nat /\ core.wr + 1 \in Int /\ core.wr + 2 \in Int
      /\ WordBytes * (core.wr + 1) <= n /\ n < WordBytes * (core.wr + 2)
  BY <1>0, <1>5, <1>6, <1>m
<1> HIDE DEF n
<1>7. core.wr + 1 <= n \div WordBytes
  BY <1>n, <1>m, DivAbove
<1>8. n \div WordBytes < core.wr + 2
  BY <1>n, <1>m, DivBelow
<1>9. n \div WordBytes \in Nat
  BY <1>n, <1>m, DivDef
<1>10. n \div WordBytes = core.wr + 1
  BY <1>0, <1>7, <1>8, <1>9
<1> QED
  BY <1>10 DEF n

(* The core takes every long the decoder makes valid, once and in the order   *)
(* they came, whatever sounds, waits for the DDR port and for room in the     *)
(* video FIFO, cut frames and lost datagrams come between (Groovy.sv:1399-1402,*)
(* 1801).  For every size and any number of frames and faults.                *)
THEOREM Taken ==
  ASSUME EncodesPixels
  PROVE  BlitSpec => TakesInOrder
<1>1. BlitInit => BlitInv /\ TakeInv
  BY BlitInitial, TakeInitial DEF EncodesPixels
<1>2. BlitInv /\ TakeInv /\ [BlitNext]_blitVars => BlitInv' /\ TakeInv'
  BY BlitSteps, TakeSteps
<1>3. BlitInv /\ TakeInv /\ [BlitNext]_blitVars
      => [core'.wr > core.wr
          => (reg.bytes + WordBytes - 1) \div WordBytes = core.wr + 1]_blitVars
  BY TakenNext
<1> QED
  BY <1>1, <1>2, <1>3, PTL DEF BlitSpec, TakesInOrder

-----------------------------------------------------------------------------
(* The words of a frame that is not given up: WholeInv.                       *)

(* The fields read besides those of FieldsOK and TakeFields. *)
FeedFields ==
  /\ {"cuts", "lost", "told", "abort", "synced", "audio"} \subseteq DOMAIN env
  /\ "plain" \in DOMAIN env.next /\ "plain" \in DOMAIN env.latch /\ "coded" \in DOMAIN env.latch
  /\ "delta_req" \in DOMAIN core /\ "addr" \in DOMAIN ddr
  /\ env.cuts \in Nat /\ env.lost \in Nat

(* In the clocks between the end of a frame and the next, the decoder is reset. *)
Resetting == pins.reset /\ At("S_Dispatcher")

(* A frame is begun and not at its end. *)
InFrame == (core.state \in Begun \/ block_write_total > 0) /\ ~Resetting

(* No frame is given up: none was lost, and the raster finds pixels. *)
CalmOK ==
  /\ env.synced /\ ~env.abort /\ ~core.abort
  /\ env.told \in Nat /\ told \in Nat
  /\ At("S_Blit_Header_Lz4") /\ port.ready => ~port.dout.abort /\ port.dout.told \in Nat

(* The latches are those of a frame, but before the first. *)
LatchOK == \A f \in {env.latch, env.next} : Len(f.coded) = 0 \/ IsFrame(f)

FrameOK == InFrame => IsFrame(frame) /\ pins.compressed_bytes = Size

(* Before the first word is written the decoder waits for it. *)
IdleOK ==
  block_write_total = 0 /\ ~Resetting => Full(reg) /\ Shaped /\ In("S_Idle") /\ reg.total = 0

(* The decoder is where it should be in the frame begun; when a reset follows, *)
(* at its end.                                                                *)
DecodedOK ==
  /\ (InFrame /\ ~pins.reset) \/ Resetting => Decoded
  /\ Resetting => reg.done

(* What is written and not read is of the frame begun. *)
RingOK ==
  /\ \E n \in Nat : block_write_total = WordBytes * n
  /\ DOMAIN blocks = 0..BlocksSize - 1 /\ UnreadIntact

(* The core goes for another burst when the decoder has nothing left to read,  *)
(* so that a burst of all the room there is fits.                             *)
DryOK ==
  /\ reg.paused => ~Ready
  /\ core.state \in {"S_Blit_Prepare_Lz4", "S_Blit_Lz4"} => ~Ready
  /\ (At("S_Blit_Inflate_Lz4") /\ ~pins.run) \/ At("S_Blit_End_Lz4") =>
        ~Ready \/ reg.done \/ env.audio \/ core.delta_req

(* There is room for n words of the frame. *)
Fits(n) == WordBytes * n <= reg.total + WordBytes * BlocksSize

(* The next word to write. *)
NextOf == block_write_total \div WordBytes

(* The word after that which is offered, and after that which the port has. *)
Offered == NextOf + IF pins.word # NoLong THEN 1 ELSE 0

Due == Offered + IF port.ready THEN 1 ELSE 0

(* The word offered is the next one, unless the decoder has read past it: then *)
(* the frame is done.                                                         *)
WordOK ==
  core.state \in {"S_Blit_Copy_Lz4", "S_Blit_Copy_End_Lz4"} /\ pins.word # NoLong =>
    \/ block_write_total < reg.total
    \/ /\ pins.word = Word(NextOf) /\ Fits(NextOf + 1)
       /\ pins.run => reg.total + WordBytes <= block_write_total

(* The burst brings the words that follow, and no more than there is room for. *)
BurstOK ==
  At("S_Blit_Copy_Lz4") =>
    \/ block_write_total < reg.total
    \/ /\ pins.run /\ pins.word = NoLong => ~Ready
       /\ port.ready => port.dout = Word(Offered) /\ Fits(Due)
       /\ port.reading => /\ burst.next = Due /\ burst.left \in Nat /\ burst.left > 0
                          /\ Fits(Due + burst.left)
       /\ ~port.reading /\ (ddr.req \/ port.read_req) =>
            /\ ~port.ready /\ pins.word = NoLong /\ ddr.addr = NextOf
            /\ ddr.burst \in Nat /\ ddr.burst > 0 /\ Fits(NextOf + ddr.burst)

(* The core takes no long before the decoder put a byte of it out. *)
UpperOK ==
  ~pins.reset => core.px \in 0..core.wr /\ (core.wr > 0 => WordBytes * core.wr < reg.bytes + WordBytes)

(* What holds while no frame was given up. *)
CalmInv ==
  CalmOK /\ LatchOK /\ FrameOK /\ IdleOK /\ DecodedOK /\ RingOK /\ DryOK /\ WordOK /\ BurstOK

(* The inductive invariant of the words of a frame, with BlitInv and TakeInv. *)
WholeInv == FeedFields /\ UpperOK /\ (Calm => CalmInv)

-----------------------------------------------------------------------------
(* What a clock of the core does, by its state, to the registers WholeInv is   *)
(* about.                                                                     *)

(* A clock that goes on with the frame it finds. *)
SameFrame ==
  /\ frame' = frame /\ pins'.compressed_bytes = pins.compressed_bytes
  /\ told' = told /\ core'.abort = core.abort /\ KeepsTaken

SameFeed == pins'.run = pins.run /\ pins'.word = pins.word

Idles(b) ==
  /\ core.state \in {"S_Dispatcher", "S_Audio"} /\ SameFrame /\ SameFeed
  /\ pins'.reset => pins.reset /\ ~At("S_Dispatcher")
  /\ core'.state \in {"S_Dispatcher", "S_Audio"} \/ (core'.state = "S_Blit_Header_Lz4" /\ ~Busy(b))

Looks(b) ==
  /\ At("S_Blit_Header_Lz4") /\ frame' = frame /\ KeepsTaken /\ KeepsPins /\ KeepsRun
  /\ \/ SameFrame /\ core'.state = "S_Blit_Header_Lz4"
     \/ SameFrame /\ core'.state = "S_Blit_Copy_End_Lz4" /\ Resumes
     \/ /\ core'.state \in {"S_Blit_Lz4", "S_Dispatcher"} /\ ~Resumes /\ port.ready
        /\ \/ ~core'.abort /\ told' = pins.compressed_bytes
           \/ (core'.abort => port.dout.abort) /\ told' = port.dout.told

Begins ==
  /\ At("S_Blit_Lz4") /\ SameFeed /\ told' = told /\ core'.abort = core.abort
  /\ \/ SameFrame /\ core'.state = "S_Dispatcher" /\ pins'.reset = pins.reset
     \/ /\ core'.state = IF core.abort THEN "S_Blit_End_Lz4" ELSE "S_Blit_Prepare_Lz4"
        /\ \/ SameFrame /\ block_write_total # 0 /\ pins'.reset = pins.reset
           \/ /\ block_write_total = 0 /\ pins'.reset /\ core'.wr = 0 /\ core'.px = 0
              /\ frame' = env.latch /\ pins'.compressed_bytes = Len(env.latch.coded)

Asks(b) ==
  /\ At("S_Blit_Prepare_Lz4") /\ SameFrame /\ SameFeed /\ ~pins'.reset
  /\ \/ core'.state \in {"S_Dispatcher", "S_Blit_Prepare_Lz4"}
     \/ /\ core'.state = "S_Blit_Copy_Lz4" /\ ~Busy(b) /\ MoreInput /\ WriteReady
        /\ ddr'.addr = NextOf /\ ddr'.burst = BurstWords

Fills(b) ==
  /\ At("S_Blit_Copy_Lz4") /\ SameFrame /\ pins'.reset = pins.reset
  /\ pins'.run <=> port.ready /\ pins.word # NoLong
  /\ pins'.word = IF port.ready THEN port.dout ELSE NoLong
  /\ ddr'.addr = ddr.addr /\ ddr'.burst = ddr.burst /\ Answers(b)
  /\ \/ core'.state = "S_Blit_Copy_Lz4"
     \/ core'.state = "S_Blit_Copy_End_Lz4" /\ port.ready /\ ~Busy(b)

CopyEnds ==
  /\ At("S_Blit_Copy_End_Lz4") /\ SameFrame /\ pins'.reset = pins.reset
  /\ pins'.run /\ pins'.word = NoLong
  /\ core'.state \in {"S_Delta_Prepare", "S_Blit_Inflate_Lz4"}

Inflating(b) ==
  /\ At("S_Blit_Inflate_Lz4") /\ frame' = frame /\ KeepsPins
  /\ pins'.compressed_bytes = pins.compressed_bytes /\ told' = told /\ core'.abort = core.abort
  /\ \/ KeepsTaken
     \/ Takes(b) /\ core'.wr = core.wr + 1 /\ core'.px \in {core.px, core.px + 1}
  /\ core.delta_req => core'.delta_req
  /\ ~pins'.run => ~pins.run \/ reg.paused \/ reg.done \/ env.audio \/ ~env.synced \/ core.delta_req
  /\ \/ core'.state = "S_Blit_Inflate_Lz4"
     \/ core'.state = "S_Blit_End_Lz4" /\ ~pins.run

EndsFrame ==
  /\ At("S_Blit_End_Lz4") /\ frame' = frame /\ pins'.word = pins.word
  /\ \/ /\ Ends /\ core'.state = "S_Dispatcher" /\ pins'.reset /\ told' = 0 /\ ~core'.abort
        /\ core'.wr = 0 /\ core'.px = 0
     \/ /\ ~reg.done /\ SameFrame /\ pins'.reset = pins.reset
        /\ core'.state \in {"S_Dispatcher", "S_Delta_Prepare", "S_Blit_Prepare_Lz4"}
        /\ core'.state = "S_Blit_Prepare_Lz4" => ~env.audio /\ ~core.delta_req

Refills ==
  /\ core.state \in {"S_Delta_Prepare", "S_Delta_Copy"} /\ SameFrame /\ pins' = pins
  /\ core'.state \in {"S_Delta_Prepare", "S_Delta_Copy", "S_Blit_Copy_End_Lz4"}

Moves(b) ==
  \/ Idles(b) \/ Looks(b) \/ Begins \/ Asks(b) \/ Fills(b) \/ CopyEnds
  \/ Inflating(b) \/ EndsFrame \/ Refills

LEMMA IdlesMove ==
  ASSUME FieldsOK, TakeFields, PinsOK, NEW b, Dispatcher(b) \/ \E more : Audio(more)
  PROVE  Idles(b)
<1>1. CASE Dispatcher(b)
  <2>1. /\ Keeps /\ ~pins'.reset /\ pins'.word = pins.word /\ frame' = frame
        /\ \/ core'.state \in {"S_Dispatcher", "S_Audio"} /\ ~ddr'.req
           \/ /\ core'.state = "S_Blit_Header_Lz4" /\ ~Busy(b)
              /\ ddr'.what = "header" /\ ddr'.burst = 1
    BY <1>1, DispatcherClock
  <2>2. KeepsTaken /\ KeepsRun
    BY <1>1, DispatcherTakes
  <2> QED BY <1>1, <2>1, <2>2 DEF Dispatcher, Idles, SameFrame, SameFeed, KeepsRun, Keeps, At
<1>2. ASSUME NEW more, Audio(more)
      PROVE  Idles(b)
  BY <1>2, AudioClock, AudioTakes
     DEF Audio, Idles, SameFrame, SameFeed, KeepsRun, Keeps, KeepsPins, At
<1> QED BY <1>1, <1>2

LEMMA LooksMove ==
  ASSUME FieldsOK, TakeFields, NEW b, NEW late, HeaderLz4(b, late)
  PROVE  Looks(b)
<1> DEFINE looks == [core EXCEPT !.FB = late, !.vram_reset = ~env.synced]
           found == [looks EXCEPT !.auto = core.frame_lz4 < port.dout.frame]
<1>1. looks.abort = core.abort /\ {"abort", "state"} \subseteq DOMAIN looks
  BY DEF FieldsOK
<1> HIDE DEF looks
<1>2. found.abort = core.abort /\ {"abort", "state"} \subseteq DOMAIN found
  BY <1>1
<1>3. At("S_Blit_Header_Lz4") /\ frame' = frame /\ KeepsTaken /\ KeepsPins /\ KeepsRun
  BY HeaderTakes, HeaderClock DEF HeaderLz4
<1>4. \/ ~port.ready /\ core' = looks /\ told' = told
      \/ /\ port.ready /\ Resumes /\ core' = [found EXCEPT !.state = "S_Blit_Copy_End_Lz4"]
         /\ told' = told
      \/ /\ port.ready /\ ~Resumes
         /\ core' = [found EXCEPT !.state = "S_Blit_Lz4", !.abort = FALSE]
         /\ told' = pins.compressed_bytes
      \/ /\ port.ready /\ ~Resumes
         /\ core' = [found EXCEPT
              !.state = IF late \/ env.synced THEN "S_Blit_Lz4" ELSE "S_Dispatcher",
              !.frame_ddr = port.dout.frame,
              !.abort = port.dout.abort /\ port.dout.told # pins.compressed_bytes]
         /\ told' = port.dout.told
  BY DEF HeaderLz4, looks
<1>5. looks.state = "S_Blit_Header_Lz4"
  BY <1>3 DEF looks, At, FieldsOK
<1> HIDE DEF found
<1>6. CASE ~port.ready /\ core' = looks /\ told' = told
  BY <1>1, <1>3, <1>5, <1>6 DEF Looks, SameFrame, KeepsRun
<1>7. CASE /\ port.ready /\ Resumes /\ core' = [found EXCEPT !.state = "S_Blit_Copy_End_Lz4"]
           /\ told' = told
  BY <1>2, <1>3, <1>7 DEF Looks, SameFrame, KeepsRun
<1>8. CASE /\ port.ready /\ ~Resumes
           /\ core' = [found EXCEPT !.state = "S_Blit_Lz4", !.abort = FALSE]
           /\ told' = pins.compressed_bytes
  BY <1>2, <1>3, <1>8 DEF Looks
<1>9. CASE /\ port.ready /\ ~Resumes
           /\ core' = [found EXCEPT
                !.state = IF late \/ env.synced THEN "S_Blit_Lz4" ELSE "S_Dispatcher",
                !.frame_ddr = port.dout.frame,
                !.abort = port.dout.abort /\ port.dout.told # pins.compressed_bytes]
           /\ told' = port.dout.told
  BY <1>2, <1>3, <1>9 DEF Looks
<1> QED BY <1>4, <1>6, <1>7, <1>8, <1>9

LEMMA BeginsMove ==
  ASSUME FieldsOK, TakeFields, BlitLz4
  PROVE  Begins
BY BlitClock, BlitTakes DEF BlitLz4, Begins, SameFrame, SameFeed, FieldsOK, TakeFields, At, Keeps,
                            KeepsTaken, KeepsRun

LEMMA AsksMove ==
  ASSUME FieldsOK, TakeFields, "addr" \in DOMAIN ddr, NEW b, PrepareLz4(b)
  PROVE  Asks(b)
<1>1. Keeps /\ frame' = frame /\ ~pins'.reset /\ pins'.word = pins.word /\ KeepsTaken /\ KeepsRun
  BY PrepareClock, PrepareTakes
<1> QED BY <1>1 DEF PrepareLz4, Asks, SameFrame, SameFeed, FieldsOK, At, Keeps, KeepsRun, NextOf

LEMMA CopiesMove ==
  ASSUME FieldsOK, TakeFields, NEW b, CopyLz4(b)
  PROVE  Fills(b)
<1>1. Keeps /\ frame' = frame /\ pins'.reset = pins.reset /\ KeepsTaken /\ Answers(b)
      /\ pins'.compressed_bytes = pins.compressed_bytes
  BY CopyClock, CopyTakes
<1>2. ddr'.addr = ddr.addr /\ ddr'.burst = ddr.burst
  BY DEF CopyLz4
<1>3. \/ core'.state = "S_Blit_Copy_Lz4"
      \/ core'.state = "S_Blit_Copy_End_Lz4" /\ port.ready /\ ~Busy(b)
  BY CopyClock
<1>4. /\ pins'.run = (port.ready /\ pins.word # NoLong)
      /\ pins'.word = IF port.ready THEN port.dout ELSE NoLong
  BY DEF CopyLz4, FieldsOK
<1> QED BY <1>1, <1>2, <1>3, <1>4 DEF CopyLz4, Fills, SameFrame, At, Keeps

LEMMA CopyEndsMove ==
  ASSUME FieldsOK, TakeFields, CopyEndLz4
  PROVE  CopyEnds
BY CopyEndClock, CopyEndTakes DEF CopyEndLz4, CopyEnds, SameFrame, FieldsOK, At, Keeps

LEMMA EndsMove ==
  ASSUME FieldsOK, TakeFields, EndLz4
  PROVE  EndsFrame
BY EndClock, EndTakes, ZenonT(60) DEF EndLz4, Ends, EndsFrame, SameFrame, FieldsOK, TakeFields, At, KeepsTaken

LEMMA RefillsMove ==
  ASSUME FieldsOK, TakeFields, NEW b, DeltaPrepare(b) \/ DeltaCopy(b)
  PROVE  Refills
<1>1. CASE DeltaPrepare(b)
  BY <1>1, DeltaPrepareClock, DeltaPrepareTakes
     DEF DeltaPrepare, Refills, SameFrame, At, Keeps, KeepsRun
<1>2. CASE DeltaCopy(b)
  BY <1>2, DeltaCopyClock, DeltaCopyTakes DEF DeltaCopy, Refills, SameFrame, At, Keeps, KeepsRun
<1> QED BY <1>1, <1>2

LEMMA InflatesMove ==
  ASSUME FieldsOK, TakeFields, "delta_req" \in DOMAIN core, NEW b, NEW ready, InflateLz4(b, ready)
  PROVE  Inflating(b)
<1> DEFINE waits == pins.run \/ (ddr.write /\ Busy(b))
           next  == [core EXCEPT !.state = IF waits THEN @ ELSE "S_Blit_End_Lz4"]
           taken == [next EXCEPT !.wr = @ + 1,
                       !.px = IF ~core.FB /\ env.synced THEN @ + 1 ELSE @]
           delta == [taken EXCEPT !.index = (@ + 1) % BlocksSize,
                                  !.delta_req = core.index = BlocksSize - 1]
           Inflated(r) == /\ {"wr", "px", "state", "abort", "delta_req"} \subseteq DOMAIN r
                          /\ r.abort = core.abort
                          /\ \/ r.state = "S_Blit_Inflate_Lz4"
                             \/ r.state = "S_Blit_End_Lz4" /\ ~pins.run
           Took(r) == r.wr = core.wr + 1 /\ r.px \in {core.px, core.px + 1}
<1>1. Inflated(next) /\ next.wr = core.wr /\ next.px = core.px /\ next.delta_req = core.delta_req
  BY DEF FieldsOK, TakeFields, InflateLz4, At
<1>2. Inflated(taken) /\ Took(taken) /\ taken.delta_req = core.delta_req
  <2> HIDE DEF next
  <2> QED BY <1>1
<1>3. Inflated(delta) /\ Took(delta)
  <2> HIDE DEF taken
  <2> QED BY <1>2
<1>4. \/ Takes(b) /\ core' \in {taken, delta}
      \/ ~Takes(b) /\ core' = next
  BY DEF InflateLz4
<1>5. pins'.run = (/\ pins.run /\ ~reg.paused /\ ~reg.done /\ ~env.audio
                   /\ env.synced /\ ~core.delta_req)
      /\ pins'.compressed_bytes = pins.compressed_bytes /\ KeepsPins
      /\ frame' = frame /\ told' = told
  BY DEF FieldsOK, TakeFields, InflateLz4, KeepsPins
<1>6. Takes(b) => ~core.delta_req
  BY DEF Takes
<1>7. At("S_Blit_Inflate_Lz4")
  BY DEF InflateLz4
<1>8. Inflated(core') /\ (KeepsTaken \/ (Takes(b) /\ Took(core'))) /\ (core.delta_req => core'.delta_req)
  <2> HIDE DEF next, taken, delta
  <2> QED BY <1>1, <1>2, <1>3, <1>4, <1>6 DEF KeepsTaken
<1> HIDE DEF next, taken, delta
<1> QED BY <1>5, <1>7, <1>8 DEF Inflating

LEMMA CoreMoves ==
  ASSUME BlitInv, TakeInv, FeedFields, NEW b, NEW good, CoreClock(b, good)
  PROVE  Moves(b)
<1>0. FieldsOK /\ TakeFields /\ PinsOK /\ "addr" \in DOMAIN ddr /\ "delta_req" \in DOMAIN core
  BY DEF BlitInv, TakeInv, FeedFields
<1>1. Dispatcher(b) \/ (\E more : Audio(more)) => Moves(b)
  BY <1>0, IdlesMove DEF Moves
<1>2. (\E late : HeaderLz4(b, late)) => Moves(b)
  BY <1>0, LooksMove DEF Moves
<1>3. BlitLz4 \/ PrepareLz4(b) => Moves(b)
  BY <1>0, BeginsMove, AsksMove DEF Moves
<1>4. CopyLz4(b) \/ CopyEndLz4 => Moves(b)
  BY <1>0, CopiesMove, CopyEndsMove DEF Moves
<1>5. (\E ready : InflateLz4(b, ready)) => Moves(b)
  BY <1>0, InflatesMove DEF Moves
<1>6. EndLz4 \/ DeltaPrepare(b) \/ DeltaCopy(b) => Moves(b)
  BY <1>0, EndsMove, RefillsMove DEF Moves
<1> QED BY <1>1, <1>2, <1>3, <1>4, <1>5, <1>6 DEF CoreClock

-----------------------------------------------------------------------------
(* A clock of everything keeps WholeInv.                                      *)

(* What a clock leaves of the side of the server and the raster. *)
LEMMA EnvMoves ==
  ASSUME FieldsOK, FeedFields, NEW b, NEW good, CoreClock(b, good)
  PROVE  /\ KeepsEnv /\ env'.cuts = env.cuts /\ env'.lost = env.lost /\ env'.told = env.told
         /\ env'.abort = env.abort /\ (env.synced => env'.synced)
         /\ ~At("S_Dispatcher") => env'.audio = env.audio
         /\ {"cuts", "lost", "told", "abort", "synced", "audio"} \subseteq DOMAIN env'
<1>1. CASE Quiet
  BY <1>1 DEF Quiet, FieldsOK, FeedFields, KeepsEnv
<1>2. CASE Dispatcher(b)
  BY <1>2 DEF Dispatcher, FieldsOK, FeedFields, KeepsEnv
<1>3. Quiet \/ Dispatcher(b)
  BY DEF CoreClock, Audio, HeaderLz4, BlitLz4, PrepareLz4, CopyLz4, CopyEndLz4,
         InflateLz4, EndLz4, DeltaPrepare, DeltaCopy
<1> QED BY <1>1, <1>2, <1>3

LEMMA CoreDomains ==
  ASSUME FieldsOK, FeedFields, NEW b, NEW good, CoreClock(b, good)
  PROVE  "delta_req" \in DOMAIN core' /\ "addr" \in DOMAIN ddr'
BY DomainsClock DEF FeedFields

(* What a clock of the decoder reads. *)
LEMMA ReadsClock ==
  ASSUME BlitInv, TakeInv, NEW b, Decoder(b)
  PROVE  /\ RegOK'
         /\ ~pins.reset => reg'.total >= reg.total /\ reg'.total <= reg.total + WordBytes
         /\ ~pins.reset /\ ~pins.run => reg'.total = reg.total
         /\ reg'.paused => ~Ready /\ reg'.total = IF pins.reset THEN 0 ELSE reg.total
<1>0. RegOK /\ RegTakes /\ block_write_total \in Nat
  BY DEF BlitInv, CountersOK, TakeInv, TakeFields, TakeCounters, RegTakes
<1>1. RegOK'
  BY <1>0, DecoderClock
<1>2. /\ Counts(Held, IF pins.reset THEN 0 ELSE reg.total)
      /\ Counts(Before, IF pins.reset THEN 0 ELSE reg.total)
  BY <1>0, HeldCounts
<1>3. Pause => reg'.total = IF pins.reset THEN 0 ELSE reg.total
  BY <1>2 DEF Pause, Counts
<1>4. reg' = [Before EXCEPT !.paused = FALSE] => reg'.total = IF pins.reset THEN 0 ELSE reg.total
  BY <1>2 DEF Counts
<1>5. reg'.paused => Pause
  BY <1>0, TakesClock
<1>6. Decode /\ ~pins.reset => reg'.total >= reg.total /\ reg'.total <= reg.total + WordBytes
  BY <1>0, Reads
<1>7. reg.total \in Nat /\ WordBytes \in Nat
  BY <1>0, Constants DEF RegOK
<1>8. \/ pins.run /\ (Decode \/ Pause)
      \/ reg' = [Before EXCEPT !.paused = FALSE]
  BY DEF Decoder
<1> QED BY <1>1, <1>3, <1>4, <1>5, <1>6, <1>7, <1>8 DEF Pause

LEMMA DecoderRuns ==
  ASSUME NEW b, Decoder(b)
  PROVE  \/ pins.run /\ Decode
         \/ Pause
         \/ reg' = [Before EXCEPT !.paused = FALSE] /\ NoOutput
BY DEF Decoder

(* A decoder in a frame goes on in it. *)
LEMMA DecodedClock ==
  ASSUME Decoded, Fed, NEW b, Decoder(b), frame' = frame
  PROVE  Decoded' /\ (reg.done => reg'.done)
<1>0. Full(reg) /\ ~pins.reset /\ DoneOK /\ reg.offset \in Nat
  BY DEF Decoded, Fed
<1>1. CASE Decode
  <2>1. Decoded'
    BY <1>1, DecodedSteps
  <2>2. ASSUME reg.done
        PROVE  reg'.done
    <3>1. Done \/ Done64
      BY <1>0, <1>1, <2>2, StateRuns DEF DoneOK
    <3>2. Held.done /\ Full(Held)
      BY <1>0, <2>2 DEF Held, Before, Full, Fields
    <3> QED BY <3>1, <3>2 DEF Done, Done64, Finished, Full, Fields
  <2> QED BY <2>1, <2>2
<1>2. CASE Pause
  <2>1. Rest(reg', reg, {"paused", "valid"}) /\ ~reg'.valid
    BY <1>0, <1>2 DEF Pause, Held, Before, Rest, Full, Fields
  <2>2. window' = window /\ out' = out
    BY <1>0, <1>2 DEF Pause, NoOutput, Kept
  <2>3. Decoded'
    BY <2>1, <2>2, DecodedRests
  <2> QED BY <2>1, <2>3 DEF Rest, Fields
<1>3. CASE reg' = [Before EXCEPT !.paused = FALSE] /\ NoOutput
  <2>1. Rest(reg', reg, {"paused", "valid"}) /\ reg'.valid = reg.valid
    BY <1>0, <1>3 DEF Before, Rest, Full, Fields
  <2>2. window' = window /\ out' = out
    BY <1>0, <1>3 DEF NoOutput, Kept
  <2>3. Decoded'
    BY <2>1, <2>2, DecodedRests
  <2> QED BY <2>1, <2>3 DEF Rest, Fields
<1> QED BY <1>1, <1>2, <1>3, DecoderRuns

(* A decoder that is idle and has nothing to read stays so. *)
LEMMA IdleClock ==
  ASSUME NEW b, Decoder(b), RegOK, block_write_total = 0, Full(reg), Shaped, In("S_Idle"), reg.total = 0
  PROVE  /\ Full(reg') /\ Shaped' /\ reg'.state = "S_Idle" /\ reg'.total = 0
         /\ pins.reset => /\ reg'.addr = 0 /\ reg'.bytes = 0 /\ ~reg'.done /\ out' = <<>>
                          /\ reg'.offset \in Nat
<1>1. ~Decode
  <2>1. ~Idle
    BY DEF Idle, Ready
  <2> QED BY <2>1, StateRuns
<1>2. \/ reg' = [Before EXCEPT !.paused = FALSE]
      \/ reg' = [Held EXCEPT !.paused = TRUE]
  BY <1>1, DecoderRuns DEF Pause
<1>3. window' = window /\ (pins.reset => out' = <<>>)
  BY <1>1, DecoderRuns DEF Pause, NoOutput, Kept
<1>4. /\ Full(Before) /\ Before.window_data = reg.window_data
      /\ Before.state = "S_Idle" /\ Before.total = 0
      /\ pins.reset => Before.addr = 0 /\ Before.bytes = 0 /\ ~Before.done /\ Before.offset = 0
  BY DEF Before, Cleared, PowerOn, Full, Fields, In
<1> HIDE DEF Before
<1>5. /\ Full(Held) /\ Held.window_data = reg.window_data
      /\ Held.state = "S_Idle" /\ Held.total = 0
      /\ pins.reset => Held.addr = 0 /\ Held.bytes = 0 /\ ~Held.done /\ Held.offset = 0
  BY <1>4 DEF Held, Full, Fields
<1> HIDE DEF Held
<1>6. /\ Full(reg') /\ reg'.window_data = reg.window_data
      /\ reg'.state = "S_Idle" /\ reg'.total = 0
      /\ pins.reset => reg'.addr = 0 /\ reg'.bytes = 0 /\ ~reg'.done /\ reg'.offset = 0
  BY <1>2, <1>4, <1>5 DEF Full, Fields
<1> QED BY <1>3, <1>6 DEF Shaped

(* A decoder that is done and reset is idle. *)
LEMMA ResetClock ==
  ASSUME NEW b, Decoder(b), pins.reset, Shaped, DoneOK, reg.done
  PROVE  Full(reg') /\ Shaped' /\ reg'.state = "S_Idle" /\ reg'.total = 0
<1>1. /\ Full(Before) /\ Before.window_data = reg.window_data
      /\ Before.state = "S_Idle" /\ Before.total = 0
  BY DEF Before, Cleared, PowerOn, Full, Fields
<1>2. Decode => reg' = Finished /\ NoOutput
  BY StateRuns DEF DoneOK, Done, Done64, Addr3
<1>3. \/ reg' = [Before EXCEPT !.paused = FALSE] /\ NoOutput
      \/ reg' = [Held EXCEPT !.paused = TRUE] /\ NoOutput
      \/ reg' = Finished /\ NoOutput
  BY <1>2, DecoderRuns DEF Pause
<1>4. window' = window
  BY <1>3 DEF NoOutput
<1> HIDE DEF Before
<1>5. /\ Full(Held) /\ Held.window_data = reg.window_data
      /\ Held.state = "S_Idle" /\ Held.total = 0
  BY <1>1 DEF Held, Full, Fields
<1> HIDE DEF Held
<1>6. Full(reg') /\ reg'.window_data = reg.window_data /\ reg'.state = "S_Idle" /\ reg'.total = 0
  BY <1>1, <1>3, <1>5 DEF Full, Fields, Finished
<1> QED BY <1>4, <1>6 DEF Shaped

LEMMA CalmClock ==
  ASSUME BlitInv, TakeInv, FeedFields, CalmInv,
         NEW b \in BOOLEAN, NEW d \in BOOLEAN, NEW good, Clock(b, d, good)
  PROVE  CalmOK' /\ LatchOK'
<1>0. /\ CalmOK /\ LatchOK /\ FieldsOK /\ PortOK /\ HeaderOK /\ TakeCounters
      /\ CoreClock(b, good) /\ Port(b, d)
  BY DEF Clock, CalmInv, BlitInv, TakeInv
<1>1. /\ KeepsEnv /\ env'.told = env.told /\ env'.abort = env.abort /\ env'.synced
  BY <1>0, EnvMoves DEF CalmOK
<1>2. LatchOK'
  BY <1>0, <1>1 DEF LatchOK, KeepsEnv
<1>3. Moves(b)
  BY <1>0, CoreMoves
<1>4. ~core'.abort /\ told' \in Nat
  <2>1. /\ ~core.abort /\ told \in Nat /\ pins.compressed_bytes \in Nat
        /\ At("S_Blit_Header_Lz4") /\ port.ready => ~port.dout.abort /\ port.dout.told \in Nat
    BY <1>0 DEF CalmOK, TakeCounters
  <2> QED
    BY <1>3, <2>1 DEF Moves, Idles, Looks, Begins, Asks, Fills, CopyEnds, Inflating, EndsFrame,
                      Refills, SameFrame
<1>5. core'.state = "S_Blit_Header_Lz4" => At("S_Blit_Header_Lz4") \/ ~Busy(b)
  BY <1>3 DEF Moves, Idles, Looks, Begins, Asks, Fills, CopyEnds, Inflating, EndsFrame,
              Refills, SameFrame
<1>6. /\ d => port.reading /\ port'.dout = Memory(port.what, burst.next)
      /\ port'.ready = d
  BY <1>0, PortClock
<1>7. core'.state = "S_Blit_Header_Lz4" /\ port'.ready
      => ~port'.dout.abort /\ port'.dout.told \in Nat
  <2> SUFFICES ASSUME core'.state = "S_Blit_Header_Lz4", d
               PROVE  ~port'.dout.abort /\ port'.dout.told \in Nat
    BY <1>6
  <2>1. At("S_Blit_Header_Lz4") /\ port.what = "header"
    BY <1>0, <1>5, <1>6 DEF Busy, PortOK, HeaderOK
  <2>2. port'.dout.abort = env.abort /\ port'.dout.told = env.told
    BY <1>6, <2>1 DEF Memory
  <2> QED BY <1>0, <2>2 DEF CalmOK
<1> QED BY <1>0, <1>1, <1>2, <1>4, <1>7 DEF CalmOK, At

(* What is in a frame after a clock was, or begins.                           *)
LEMMA FrameClock ==
  ASSUME BlitInv, TakeInv, FeedFields, CalmInv,
         NEW b \in BOOLEAN, NEW d \in BOOLEAN, NEW good, Clock(b, d, good)
  PROVE  /\ FrameOK'
         /\ InFrame' => \/ frame' = frame /\ InFrame
                        \/ pins'.reset /\ block_write_total' = 0
         /\ \/ frame' = frame /\ (InFrame' => InFrame)
            \/ pins'.reset /\ block_write_total = 0 /\ At("S_Blit_Lz4")
<1>0. /\ CalmOK /\ LatchOK /\ FrameOK /\ FieldsOK /\ PinsOK /\ StartedOK /\ FilledOK
      /\ CoreClock(b, good) /\ Decoder(b)
  BY DEF Clock, CalmInv, BlitInv, TakeInv
<1>1. Moves(b)
  BY <1>0, CoreMoves
<1>2. /\ pins.reset => block_write_total' = 0
      /\ pins.word = NoLong /\ ~pins.reset => block_write_total' = block_write_total
      /\ block_write_total' \in Nat /\ block_write_total \in Nat
  BY <1>0, WriteClock DEF BlitInv, CountersOK
<1>3. \/ frame' = frame /\ (InFrame' => InFrame /\ pins'.compressed_bytes = pins.compressed_bytes)
      \/ /\ frame' = env.latch /\ pins'.compressed_bytes = Len(env.latch.coded)
         /\ pins'.reset /\ block_write_total = 0 /\ At("S_Blit_Lz4")
  <2>1. CASE Idles(b)
    BY <2>1, <1>0, <1>2 DEF Idles, InFrame, Resetting, At, SameFrame, PinsOK, Begun
  <2>2. CASE Looks(b)
    BY <2>2, <1>0, <1>2 DEF Looks, InFrame, Resetting, At, SameFrame, PinsOK, Begun, Resumes,
                            StartedOK, KeepsRun, BlitInv, CountersOK, RegOK
  <2>3. CASE Begins
    BY <2>3, <1>0, <1>2 DEF Begins, InFrame, Resetting, At, SameFrame, PinsOK, Begun
  <2>4. CASE Asks(b) \/ Fills(b) \/ CopyEnds
    BY <2>4, <1>0 DEF Asks, Fills, CopyEnds, InFrame, Resetting, At, SameFrame, PinsOK, Begun
  <2>5. CASE Inflating(b)
    BY <2>5, <1>0 DEF Inflating, InFrame, Resetting, At, PinsOK, Begun
  <2>6. CASE EndsFrame
    BY <2>6, <1>0 DEF EndsFrame, InFrame, Resetting, At, SameFrame, PinsOK, Begun
  <2>7. CASE Refills
    BY <2>7, <1>0 DEF Refills, InFrame, Resetting, At, SameFrame, PinsOK, Begun
  <2> QED BY <1>1, <2>1, <2>2, <2>3, <2>4, <2>5, <2>6, <2>7 DEF Moves
<1>4. CASE frame' = frame /\ (InFrame' => InFrame /\ pins'.compressed_bytes = pins.compressed_bytes)
  BY <1>0, <1>4 DEF FrameOK, Size
<1>5. CASE /\ frame' = env.latch /\ pins'.compressed_bytes = Len(env.latch.coded)
           /\ pins'.reset /\ block_write_total = 0 /\ At("S_Blit_Lz4")
  <2>1. Len(env.latch.coded) \in Nat /\ Len(env.latch.coded) > 0
    BY <1>0, <1>5 DEF FilledOK, Filled, At
  <2>2. IsFrame(env.latch)
    BY <1>0, <2>1 DEF LatchOK
  <2>3. IsFrame(frame)'
    BY <1>5, <2>2
  <2>4. pins.word = NoLong
    BY <1>0, <1>5 DEF PinsOK, At
  <2> QED BY <1>2, <1>5, <2>3, <2>4 DEF FrameOK, Size
<1> QED BY <1>3, <1>4, <1>5

(* The decoder waits for the first word, and after a reset again. *)
LEMMA IdleOKClock ==
  ASSUME BlitInv, TakeInv, FeedFields, CalmInv,
         NEW b \in BOOLEAN, NEW d \in BOOLEAN, NEW good, Clock(b, d, good)
  PROVE  IdleOK'
<1>0. /\ CalmOK /\ IdleOK /\ DecodedOK /\ RegOK /\ Decoder(b) /\ block_write_total \in Nat
  BY DEF Clock, CalmInv, BlitInv, CountersOK
<1>1. CASE block_write_total = 0 /\ ~Resetting
  BY <1>0, <1>1, IdleClock DEF IdleOK, In
<1>2. CASE Resetting
  <2>1. Shaped /\ DoneOK /\ reg.done /\ pins.reset
    BY <1>0, <1>2, DecodedPromises DEF DecodedOK, Decoded, Resetting
  <2> QED BY <1>0, <2>1, ResetClock DEF IdleOK, In
<1>3. CASE block_write_total # 0 /\ ~Resetting
  <2>1. ~pins.reset
    BY <1>0, <1>3 DEF CalmOK, Resetting, BlitInv, PinsOK, TakeInv, StartedOK, At
  <2>2. block_write_total' # 0
    BY <1>0, <1>3, <2>1, WriteClock
  <2> QED BY <2>2 DEF IdleOK
<1> QED BY <1>1, <1>2, <1>3

(* A decoder that was reset begins the frame. *)
LEMMA DecodedBegun ==
  ASSUME Full(reg'), reg'.offset \in Nat, reg'.state = "S_Idle", reg'.total = 0, reg'.addr = 0,
         reg'.bytes = 0, ~reg'.done, Shaped', out' = <<>>, frame' = frame,
         NEW seq, NEW shade, InBlocks(frame, seq, shade)
  PROVE  Decoded'
<1>1. /\ frame.plain \in Seq(Int) /\ Len(seq) \in Nat \ {0}
      /\ CodedTo(seq, shade, 1) = 0 /\ PlainTo(seq, shade, 1) = 0
  BY DEF InBlocks
<1>2. AtBlock(seq, shade, 1)' /\ 1 \in 1..Len(seq)
  BY <1>1 DEF AtBlock, Where, AtIdle, In
<1>3. OutOK'
  <2>1. WordBytes * 0 = 0 /\ 0 \in 0..WordBytes - 1
    BY Numbers
  <2>2. out' = [i \in 1..WordBytes * 0 |-> frame.plain[i]]
    BY <2>1
  <2>3. Len(frame.plain) \in Nat
    BY <1>1
  <2>4. OutAt(0, 0)'
    BY <2>1, <2>2, <2>3 DEF OutAt, Shaped
  <2> QED BY <2>1, <2>4 DEF OutOK
<1> QED BY <1>2, <1>3 DEF Decoded, DoneOK

(* Where a reset comes from. *)
LEMMA ResetComes ==
  ASSUME BlitInv, CalmOK, NEW b, Moves(b), Resetting'
  PROVE  At("S_Blit_End_Lz4") /\ Ends /\ frame' = frame
<1>0. PinsOK /\ ~core.abort
  BY DEF BlitInv, CalmOK
<1>1. pins'.reset /\ core'.state = "S_Dispatcher"
  BY DEF Resetting, At
<1>2. ~Idles(b) /\ ~Looks(b) /\ ~Begins /\ ~Asks(b)
  BY <1>0, <1>1 DEF PinsOK, At, Idles, Looks, Begins, Asks, KeepsPins
<1>3. ~Fills(b) /\ ~CopyEnds /\ ~Inflating(b) /\ ~Refills
  BY <1>0, <1>1 DEF Fills, CopyEnds, Inflating, Refills
<1> QED BY <1>0, <1>1, <1>2, <1>3 DEF Moves, EndsFrame, PinsOK, At

(* In a frame the decoder goes on where it is. *)
LEMMA GoesOn ==
  ASSUME BlitInv, TakeInv, FeedFields, CalmInv, InFrame, ~pins.reset, frame' = frame,
         NEW b, Decoder(b)
  PROVE  Decoded' /\ (reg.done => reg'.done)
<1>0. DecodedOK /\ FrameOK /\ RingOK /\ RegOK /\ block_write_total \in Nat
  BY DEF CalmInv, BlitInv, CountersOK
<1>1. Decoded
  BY <1>0 DEF DecodedOK
<1>2. Fed
  BY <1>0, <1>1 DEF Fed, RingOK, FrameOK, IsFrame, Size, Decoded
<1> QED BY <1>0, <1>1, <1>2, DecodedClock

LEMMA DecodedOKClock ==
  ASSUME BlitInv, TakeInv, FeedFields, CalmInv,
         NEW b \in BOOLEAN, NEW d \in BOOLEAN, NEW good, Clock(b, d, good)
  PROVE  DecodedOK'
<1>0. /\ CalmOK /\ IdleOK /\ DecodedOK /\ FrameOK /\ RingOK /\ RegOK /\ PinsOK /\ StartedOK
      /\ Decoder(b) /\ CoreClock(b, good) /\ block_write_total \in Nat
  BY DEF Clock, CalmInv, BlitInv, CountersOK, TakeInv
<1>1. Moves(b)
  BY <1>0, CoreMoves
<1>2. ASSUME InFrame, ~pins.reset, frame' = frame
      PROVE  Decoded' /\ (reg.done => reg'.done)
  BY <1>0, <1>2, GoesOn
<1>3. ASSUME InFrame, pins.reset, frame' = frame
      PROVE  Decoded'
  <2>1. block_write_total = 0 /\ ~Resetting
    BY <1>0, <1>3 DEF InFrame, Resetting, PinsOK, StartedOK, CalmOK, At
  <2>2. /\ Full(reg') /\ Shaped' /\ reg'.state = "S_Idle" /\ reg'.total = 0
        /\ reg'.addr = 0 /\ reg'.bytes = 0 /\ ~reg'.done /\ out' = <<>> /\ reg'.offset \in Nat
    BY <1>0, <1>3, <2>1, IdleClock DEF IdleOK
  <2>3. PICK s \in Frames, n \in 1..MaxFrames : InBlocks(frame, s, n * Byte * Byte)
    BY <1>0, <1>3 DEF FrameOK, IsFrame
  <2> QED BY <1>3, <2>2, <2>3, DecodedBegun
<1>4. InFrame' /\ ~pins'.reset => InFrame /\ frame' = frame
  BY FrameClock
<1>5. Resetting' => Decoded' /\ reg'.done
  <2> SUFFICES ASSUME Resetting'
               PROVE  Decoded' /\ reg'.done
    OBVIOUS
  <2>1. At("S_Blit_End_Lz4") /\ Ends /\ frame' = frame
    BY <1>0, <1>1, ResetComes
  <2>2. InFrame /\ ~pins.reset /\ reg.done
    BY <1>0, <2>1 DEF InFrame, Resetting, Begun, At, PinsOK, CalmOK, Ends
  <2> QED BY <1>2, <2>1, <2>2
<1> QED BY <1>2, <1>3, <1>4, <1>5 DEF DecodedOK

(* The decoder is fed the words of the frame. *)
LEMMA RingOKClock ==
  ASSUME BlitInv, TakeInv, FeedFields, CalmInv,
         NEW b \in BOOLEAN, NEW d \in BOOLEAN, NEW good, Clock(b, d, good)
  PROVE  RingOK'
<1>0. /\ WordOK /\ IdleOK /\ RingOK /\ RegOK /\ PinsOK /\ CalmOK
      /\ Decoder(b) /\ CoreClock(b, good) /\ block_write_total \in Nat /\ WriteLong(pins.word)
  BY DEF Clock, CalmInv, BlitInv, CountersOK, Decoder
<1>1. Moves(b)
  BY <1>0, CoreMoves
<1>2. /\ RegOK' /\ (~pins.reset => reg'.total >= reg.total)
      /\ pins.reset => block_write_total' = 0
  BY <1>0, ReadsClock, WriteClock
<1>3. frame' = frame \/ (block_write_total = 0 /\ At("S_Blit_Lz4"))
  BY <1>1 DEF Moves, Idles, Looks, Begins, Asks, Fills, CopyEnds, Inflating, EndsFrame, Refills, SameFrame
<1>4. reg.total \in Nat /\ reg'.total \in Nat /\ WordBytes \in Nat /\ WordBytes > 0
  BY <1>0, <1>2, Constants DEF RegOK
<1>5. CASE pins.word # NoLong /\ WriteReady
  <2>1. PICK k \in Nat : block_write_total = WordBytes * k
    BY <1>0 DEF RingOK
  <2>2. NextOf = k
    BY <1>4, <2>1, DivUnique, WordBytes * k + 0 = WordBytes * k DEF NextOf
  <2>3. /\ core.state \in {"S_Blit_Copy_Lz4", "S_Blit_Copy_End_Lz4"} /\ ~pins.reset
        /\ frame' = frame
    BY <1>0, <1>3, <1>5 DEF PinsOK, At
  <2>4. ~(block_write_total < reg.total)
    BY <1>0, <1>4, <1>5 DEF WriteReady
  <2>5. pins.word = Word(k) /\ Fits(k + 1)
    BY <1>0, <1>5, <2>2, <2>3, <2>4 DEF WordOK
  <2>6. block_write_total + WordBytes <= reg.total + WordBytes * BlocksSize
    <3>1. WordBytes * (k + 1) = WordBytes * k + WordBytes
      BY <1>4, <2>1
    <3> QED BY <2>1, <2>5, <3>1 DEF Fits
  <2>7. /\ block_write_total' = block_write_total + WordBytes
        /\ DOMAIN blocks' = 0..BlocksSize - 1
        /\ \A n \in reg.total .. block_write_total' - 1 :
             blocks'[(n \div WordBytes) % BlocksSize] = Word(n \div WordBytes)
    <3>1. WriteLong(Word(k)) /\ reg.total <= block_write_total
      BY <1>0, <1>4, <2>4, <2>5
    <3> QED BY <1>0, <2>1, <2>6, <3>1, WordKeeps DEF RingOK
  <2>8. \A n : Word(n)' = Word(n)
    BY <2>3 DEF Word, Size
  <2>9. UnreadIntact'
    <3>1. block_write_total' \in Nat /\ reg'.total >= reg.total
      BY <1>0, <1>2, <1>4, <2>3, <2>7
    <3>2. reg'.total .. block_write_total' - 1 \subseteq reg.total .. block_write_total' - 1
      BY <1>4, <3>1
    <3> QED BY <2>7, <2>8, <3>2 DEF UnreadIntact
  <2>10. block_write_total' = WordBytes * (k + 1) /\ k + 1 \in Nat
    BY <1>4, <2>1, <2>7
  <2> QED BY <2>7, <2>9, <2>10 DEF RingOK
<1>6. CASE ~(pins.word # NoLong /\ WriteReady)
  <2>1. blocks' = blocks /\ block_write_total' = IF pins.reset THEN 0 ELSE block_write_total
    BY <1>0, <1>6 DEF WriteLong
  <2>2. \E n \in Nat : block_write_total' = WordBytes * n
    BY <1>0, <1>4, <2>1, WordBytes * 0 = 0 DEF RingOK
  <2>3. CASE block_write_total' = 0
    <3>1. reg'.total .. block_write_total' - 1 = {}
      BY <1>4, <2>3
    <3> QED BY <1>0, <2>1, <2>2, <3>1 DEF RingOK, UnreadIntact
  <2>4. CASE block_write_total' # 0
    <3>1. frame' = frame /\ ~pins.reset /\ block_write_total' = block_write_total
      BY <1>3, <2>1, <2>4
    <3>2. \A n : Word(n)' = Word(n)
      BY <3>1 DEF Word, Size
    <3>3. UnreadIntact'
      BY <1>0, <1>2, <1>4, <2>1, <3>1, <3>2 DEF UnreadIntact, RingOK
    <3> QED BY <1>0, <2>1, <2>2, <3>3 DEF RingOK
  <2> QED BY <2>3, <2>4
<1> QED BY <1>5, <1>6

(* Without a word written there is no more to read. *)
LEMMA StaysDry ==
  ASSUME BlitInv, TakeInv, NEW b, Decoder(b), ~Ready, pins.word = NoLong
  PROVE  ~Ready'
<1>1. /\ RegOK' /\ RegOK /\ (~pins.reset => reg'.total >= reg.total) /\ block_write_total \in Nat
      /\ pins.reset => block_write_total' = 0
      /\ ~pins.reset => block_write_total' = block_write_total
  BY ReadsClock, WriteClock DEF BlitInv, CountersOK
<1> QED BY <1>1 DEF Ready, RegOK

(* Only a decoder that runs is paused. *)
LEMMA PausedRuns ==
  ASSUME TakeInv, NEW b, Decoder(b), reg'.paused
  PROVE  pins.run
<1>1. {"bytes", "valid", "addr", "paused"} \subseteq DOMAIN [Before EXCEPT !.paused = FALSE]
      /\ ~[Before EXCEPT !.paused = FALSE].paused
  BY HeldQuiet DEF TakeInv, TakeFields, TakeCounters, RegTakes, Quietly
<1> QED BY <1>1 DEF Decoder

LEMMA DryOKClock ==
  ASSUME BlitInv, TakeInv, FeedFields, CalmInv,
         NEW b \in BOOLEAN, NEW d \in BOOLEAN, NEW good, Clock(b, d, good)
  PROVE  DryOK'
<1>0. /\ CalmOK /\ DryOK /\ WordOK /\ RegOK /\ PinsOK /\ FieldsOK
      /\ Decoder(b) /\ CoreClock(b, good) /\ block_write_total \in Nat /\ WriteLong(pins.word)
  BY DEF Clock, CalmInv, BlitInv, CountersOK, Decoder
<1>1. Moves(b)
  BY <1>0, CoreMoves
<1>2. /\ RegOK' /\ WordBytes \in Nat
      /\ reg'.paused => ~Ready /\ reg'.total = IF pins.reset THEN 0 ELSE reg.total
  BY <1>0, ReadsClock, Constants
<1>3. reg'.paused => ~Ready'
  <2> SUFFICES ASSUME reg'.paused
               PROVE  ~Ready'
    OBVIOUS
  <2>1. ~Ready /\ pins.run
    BY <1>0, <1>2, PausedRuns
  <2>2. CASE pins.word = NoLong
    BY <1>0, <2>1, <2>2, StaysDry
  <2>3. CASE pins.word # NoLong
    <3>1. core.state \in {"S_Blit_Copy_Lz4", "S_Blit_Copy_End_Lz4"} /\ ~pins.reset
      BY <1>0, <2>3 DEF PinsOK, At
    <3>2. block_write_total < reg.total
      BY <1>0, <1>2, <2>1, <2>3, <3>1, Constants DEF WordOK, Ready, RegOK
    <3>3. block_write_total' = block_write_total
      BY <1>0, <3>1, <3>2 DEF WriteLong, WriteReady, RegOK
    <3> QED BY <1>2, <2>1, <3>1, <3>3 DEF Ready
  <2> QED BY <2>2, <2>3
<1>4. core'.state \in {"S_Blit_Prepare_Lz4", "S_Blit_Lz4"} => ~Ready'
  <2> SUFFICES ASSUME core'.state \in {"S_Blit_Prepare_Lz4", "S_Blit_Lz4"}
               PROVE  ~Ready'
    OBVIOUS
  <2>1. CASE Looks(b)
    BY <2>1, <1>0, StaysDry DEF Looks, Resumes, Ready, At, PinsOK
  <2>2. CASE Begins \/ Asks(b)
    BY <2>2, <1>0, StaysDry DEF Begins, Asks, DryOK, At, PinsOK
  <2>3. CASE EndsFrame
    BY <2>3, <1>0, StaysDry DEF EndsFrame, DryOK, At, PinsOK
  <2>4. Looks(b) \/ Begins \/ Asks(b) \/ EndsFrame
    BY <1>1 DEF Moves, Idles, Fills, CopyEnds, Inflating, Refills
  <2> QED BY <2>1, <2>2, <2>3, <2>4
<1>5. (core'.state = "S_Blit_Inflate_Lz4" /\ ~pins'.run) \/ core'.state = "S_Blit_End_Lz4"
      => ~Ready' \/ reg'.done \/ env'.audio \/ core'.delta_req
  <2> SUFFICES ASSUME (core'.state = "S_Blit_Inflate_Lz4" /\ ~pins'.run)
                        \/ core'.state = "S_Blit_End_Lz4"
               PROVE  ~Ready' \/ reg'.done \/ env'.audio \/ core'.delta_req
    OBVIOUS
  <2>1. Inflating(b)
    BY <1>0, <1>1 DEF Moves, Idles, Looks, Begins, Asks, Fills, CopyEnds, EndsFrame, Refills, CalmOK
  <2>2. ~Ready \/ reg.done \/ env.audio \/ core.delta_req
    BY <2>1, <1>0 DEF Inflating, DryOK, CalmOK, At
  <2>3. InFrame /\ ~pins.reset /\ pins.word = NoLong /\ frame' = frame
    BY <2>1, <1>0 DEF Inflating, InFrame, Resetting, Begun, At, PinsOK
  <2>4. ~Ready => ~Ready'
    BY <1>0, <2>3, StaysDry
  <2>5. reg.done => reg'.done
    BY <1>0, <2>3, GoesOn
  <2>6. env'.audio = env.audio /\ (core.delta_req => core'.delta_req)
    BY <2>1, <1>0, EnvMoves DEF Inflating, At
  <2> QED BY <2>2, <2>4, <2>5, <2>6
<1> QED BY <1>3, <1>4, <1>5 DEF DryOK, At

(* In S_Blit_Copy_Lz4 the word offered is written. *)
LEMMA Writes ==
  ASSUME BlitInv, TakeInv, CalmInv, NEW b, Decoder(b), At("S_Blit_Copy_Lz4"),
         ~(block_write_total < reg.total)
  PROVE  /\ NextOf \in Nat /\ block_write_total = WordBytes * NextOf
         /\ block_write_total' = WordBytes * Offered /\ NextOf' = Offered
         /\ ~pins.reset /\ reg'.total \in Nat /\ reg.total \in Nat
         /\ reg'.total >= reg.total /\ reg'.total <= reg.total + WordBytes
         /\ ~pins.run => reg'.total = reg.total
<1>0. /\ WordOK /\ RingOK /\ RegOK /\ PinsOK /\ WriteLong(pins.word) /\ block_write_total \in Nat
      /\ WordBytes \in Nat /\ WordBytes > 0 /\ BlocksSize \in Nat
  BY Constants DEF CalmInv, BlitInv, CountersOK, Decoder
<1>1. PICK k \in Nat : block_write_total = WordBytes * k
  BY <1>0 DEF RingOK
<1>2. NextOf = k
  BY <1>0, <1>1, DivUnique, WordBytes * k + 0 = WordBytes * k DEF NextOf
<1>3. ~pins.reset
  BY <1>0 DEF PinsOK, At
<1>4. /\ reg'.total \in Nat /\ reg.total \in Nat
      /\ reg'.total >= reg.total /\ reg'.total <= reg.total + WordBytes
      /\ ~pins.run => reg'.total = reg.total
  BY <1>0, <1>3, ReadsClock DEF RegOK
<1>5. block_write_total' = WordBytes * Offered
  <2>1. CASE pins.word # NoLong
    <3>1. Fits(k + 1) /\ WordBytes * (k + 1) = WordBytes * k + WordBytes
      BY <1>0, <1>1, <1>2, <2>1 DEF WordOK, At
    <3>2. WriteReady
      <4>1. block_write_total + WordBytes <= reg.total + BlocksSize * WordBytes
        BY <1>0, <1>1, <3>1 DEF Fits
      <4>2. BlocksSize * WordBytes \in Nat
        BY <1>0
      <4> QED BY <1>0, <1>4, <4>1, <4>2 DEF WriteReady
    <3>3. block_write_total' = block_write_total + WordBytes
      BY <1>0, <2>1, <3>2 DEF WriteLong
    <3> QED BY <1>1, <1>2, <2>1, <3>1, <3>3 DEF Offered
  <2>2. CASE pins.word = NoLong
    BY <1>0, <1>1, <1>2, <1>3, <2>2 DEF WriteLong, Offered
  <2> QED BY <2>1, <2>2
<1>6. NextOf' = Offered
  <2>1. Offered \in Nat
    BY <1>1, <1>2 DEF Offered
  <2>2. (WordBytes * Offered + 0) \div WordBytes = Offered
    BY <1>0, <2>1, DivUnique
  <2>3. WordBytes * Offered \in Nat
    BY <1>0, <2>1
  <2> QED BY <1>5, <2>2, <2>3 DEF NextOf
<1> QED BY <1>1, <1>2, <1>3, <1>4, <1>5, <1>6

(* Reading makes room. *)
LEMMA FitsOn ==
  ASSUME reg'.total \in Nat, reg.total \in Nat, reg'.total >= reg.total, NEW n \in Nat, Fits(n)
  PROVE  WordBytes * n <= reg'.total + WordBytes * BlocksSize
<1>1. WordBytes * n \in Nat /\ WordBytes * BlocksSize \in Nat
  BY Constants
<1> HIDE DEF Fits
<1> QED BY <1>1 DEF Fits

(* Once the decoder has read past what was written nothing is written.        *)
LEMMA PastEnd ==
  ASSUME BlitInv, TakeInv, NEW b, Decoder(b), At("S_Blit_Copy_Lz4"), block_write_total < reg.total
  PROVE  block_write_total' < reg'.total
<1>1. /\ ~pins.reset /\ RegOK /\ RegOK' /\ reg'.total >= reg.total /\ block_write_total \in Nat
      /\ WriteLong(pins.word)
  BY ReadsClock DEF BlitInv, PinsOK, CountersOK, At, Decoder
<1>2. block_write_total' = block_write_total
  BY <1>1 DEF WriteLong, WriteReady, RegOK
<1> QED BY <1>1, <1>2 DEF RegOK

(* The word offered after a clock is the one the port had. *)
LEMMA WordOKClock ==
  ASSUME BlitInv, TakeInv, FeedFields, CalmInv,
         NEW b \in BOOLEAN, NEW d \in BOOLEAN, NEW good, Clock(b, d, good)
  PROVE  WordOK'
<1>0. /\ BurstOK /\ WordOK /\ PinsOK /\ ZoneOK /\ Decoder(b) /\ CoreClock(b, good)
  BY DEF Clock, CalmInv, BlitInv, TakeInv
<1>1. Moves(b)
  BY <1>0, CoreMoves
<1> SUFFICES ASSUME core'.state \in {"S_Blit_Copy_Lz4", "S_Blit_Copy_End_Lz4"}, pins'.word # NoLong
             PROVE  WordOK'
  BY DEF WordOK
<1>2. Fills(b)
  BY <1>0, <1>1 DEF Moves, Idles, Looks, Begins, Asks, CopyEnds, Inflating, EndsFrame, Refills,
                    PinsOK, SameFeed, KeepsPins, At
<1>3. At("S_Blit_Copy_Lz4") /\ port.ready /\ pins'.word = port.dout /\ frame' = frame
      /\ (pins'.run <=> pins.word # NoLong)
  BY <1>2 DEF Fills, SameFrame
<1>4. CASE block_write_total < reg.total
  <2>1. block_write_total' < reg'.total
    BY <1>0, <1>3, <1>4, PastEnd
  <2> QED BY <2>1 DEF WordOK
<1>5. CASE ~(block_write_total < reg.total)
  <2>1. /\ NextOf \in Nat /\ block_write_total = WordBytes * NextOf
        /\ block_write_total' = WordBytes * Offered /\ NextOf' = Offered
        /\ reg'.total \in Nat /\ reg.total \in Nat
        /\ reg'.total >= reg.total /\ reg'.total <= reg.total + WordBytes
        /\ ~pins.run => reg'.total = reg.total
    BY <1>0, <1>3, <1>5, Writes
  <2>2. port.dout = Word(Offered) /\ Fits(Due) /\ Due = Offered + 1
    BY <1>0, <1>3, <1>5 DEF BurstOK, Due
  <2>3. Offered \in Nat
    BY <2>1 DEF Offered
  <2>4. pins'.word = Word(NextOf)'
    <3>1. Word(NextOf)' = Word(Offered)
      <4> HIDE DEF NextOf, Offered
      <4> QED BY <1>3, <2>1 DEF Word, Size
    <3> QED BY <1>3, <2>2, <3>1
  <2>5. Fits(NextOf + 1)'
    <3>1. WordBytes * (Offered + 1) <= reg'.total + WordBytes * BlocksSize
      BY <2>1, <2>2, <2>3, FitsOn
    <3> QED BY <2>1, <3>1 DEF Fits
  <2>6. pins'.run => reg'.total + WordBytes <= block_write_total'
    <3> SUFFICES ASSUME pins'.run
                 PROVE  reg'.total + WordBytes <= block_write_total'
      OBVIOUS
    <3>1. pins.word # NoLong /\ Offered = NextOf + 1
      BY <1>3 DEF Offered
    <3>2. block_write_total' = block_write_total + WordBytes /\ block_write_total \in Nat
          /\ WordBytes \in Nat
      BY <2>1, <3>1, Constants
    <3>3. pins.run => reg.total + WordBytes <= block_write_total
      BY <1>0, <1>3, <1>5, <3>1 DEF WordOK, At
    <3> QED BY <1>5, <2>1, <3>2, <3>3
  <2> QED BY <2>4, <2>5, <2>6 DEF WordOK
<1> QED BY <1>4, <1>5

(* A burst is asked for when there is room for all of it, and counted down    *)
(* as its words are written.                                                  *)
LEMMA BurstOKClock ==
  ASSUME BlitInv, TakeInv, FeedFields, CalmInv,
         NEW b \in BOOLEAN, NEW d \in BOOLEAN, NEW good, Clock(b, d, good)
  PROVE  BurstOK'
<1>0. /\ BurstOK /\ WordOK /\ PinsOK /\ ZoneOK /\ DryOK /\ PortOK /\ Decoder(b) /\ CoreClock(b, good)
      /\ RingOK /\ RegOK /\ CalmOK /\ block_write_total \in Nat /\ Port(b, d)
      /\ WordBytes \in Nat /\ WordBytes > 0 /\ BlocksSize \in Nat
  BY Constants DEF Clock, CalmInv, BlitInv, TakeInv, CountersOK
<1>1. Moves(b)
  BY <1>0, CoreMoves
<1>2. /\ d => port.reading
      /\ port'.ready = d
      /\ port'.read_req => port.read_req \/ (ddr.req /\ ~port.old_rd)
      /\ port'.read_req => ~(d /\ burst.left = 1)
      /\ port'.reading => \/ port.reading /\ ~(d /\ burst.left = 1)
                          \/ port.read_req /\ ~port.reading
      /\ d => port'.dout = Memory(port.what, burst.next)
  BY <1>0, PortClock
<1> SUFFICES ASSUME core'.state = "S_Blit_Copy_Lz4"
             PROVE  BurstOK'
  BY DEF BurstOK, At
<1>3. Asks(b) \/ Fills(b)
  BY <1>1 DEF Moves, Idles, Looks, Begins, CopyEnds, Inflating, EndsFrame, Refills
<1>4. CASE Asks(b)
  <2>1. /\ At("S_Blit_Prepare_Lz4") /\ ~Busy(b) /\ MoreInput /\ WriteReady
        /\ ddr'.addr = NextOf /\ ddr'.burst = BurstWords /\ pins'.word = NoLong /\ pins.word = NoLong
    BY <1>0, <1>4 DEF Asks, SameFeed, PinsOK, At
  <2>2. ~port.reading /\ ~port.read_req /\ ~port'.ready /\ ~port'.reading
    BY <1>0, <1>2, <2>1 DEF Busy, PortOK
  <2>3. ~Ready /\ ~Ready'
    BY <1>0, <2>1, StaysDry DEF DryOK, At
  <2>4. block_write_total = reg.total
    BY <1>0, <2>1, <2>3 DEF WriteReady, Ready, RegOK
  <2>5. CASE block_write_total' < reg'.total
    BY <2>5 DEF BurstOK
  <2>6. CASE ~(block_write_total' < reg'.total)
    <3>1. PICK k \in Nat : block_write_total = WordBytes * k
      BY <1>0 DEF RingOK
    <3>2. NextOf = k
      BY <1>0, <3>1, DivUnique, WordBytes * k + 0 = WordBytes * k DEF NextOf
    <3>3. block_write_total' = block_write_total /\ reg'.total = reg.total
      <4>1. CASE pins.reset
        <5>1. block_write_total = 0 /\ block_write_total' = 0
          BY <1>0, <2>1, <4>1, WriteClock DEF TakeInv, StartedOK, At
        <5>2. RegOK' /\ ~(block_write_total' > reg'.total)
          BY <1>0, <2>3, ReadsClock DEF Ready
        <5> QED BY <1>0, <2>4, <2>6, <5>1, <5>2 DEF RegOK
      <4>2. CASE ~pins.reset
        <5>1. block_write_total' = block_write_total /\ RegOK' /\ reg'.total >= reg.total
          BY <1>0, <2>1, <4>2, WriteClock, ReadsClock
        <5> QED BY <1>0, <2>4, <2>6, <5>1 DEF RegOK
      <4> QED BY <4>1, <4>2
    <3>4. NextOf' = k
      BY <3>2, <3>3 DEF NextOf
    <3>5. BurstWords \in Nat /\ BurstWords <= BlocksSize
      BY <1>0, <2>1, BurstBound DEF MoreInput, CalmOK
    <3>6. BurstWords > 0
      <4> DEFINE left == told - block_write_total
      <4>1. left \in Nat /\ told \in Nat /\ BlocksSize > 0
        BY <1>0, <2>1, Constants DEF MoreInput, CalmOK
      <4>2. left \div WordBytes \in Nat
        BY <1>0, <4>1, DivDef
      <4>3. told = Size \/ left \div WordBytes > 0
        BY <2>1 DEF MoreInput
      <4> HIDE DEF left
      <4> QED BY <4>1, <4>2, <4>3 DEF BurstWords, left
    <3>7. WordBytes * (k + BurstWords) <= reg'.total + WordBytes * BlocksSize
      <4>1. WordBytes * BurstWords <= WordBytes * BlocksSize
        <5>1. CASE BurstWords = BlocksSize
          BY <1>0, <5>1
        <5>2. CASE BurstWords < BlocksSize
          <6>1. WordBytes * BurstWords + WordBytes <= WordBytes * BlocksSize
            BY <1>0, <3>5, <5>2, MulMono
          <6> QED BY <1>0, <3>5, <6>1
        <5> QED BY <1>0, <3>5, <5>1, <5>2
      <4>2. WordBytes * (k + BurstWords) = WordBytes * k + WordBytes * BurstWords
        BY <1>0, <3>1, <3>5
      <4>3. WordBytes * k \in Nat /\ WordBytes * BurstWords \in Nat /\ WordBytes * BlocksSize \in Nat
        BY <1>0, <3>1, <3>5
      <4>4. reg'.total = WordBytes * k
        BY <2>4, <3>1, <3>3
      <4> DEFINE x == WordBytes * k
                 y == WordBytes * BurstWords
                 z == WordBytes * BlocksSize
                 s == WordBytes * (k + BurstWords)
      <4>5. x \in Nat /\ y \in Nat /\ z \in Nat /\ y <= z /\ s = x + y /\ reg'.total = x
        BY <4>1, <4>2, <4>3, <4>4
      <4> HIDE DEF x, y, z, s
      <4>6. s <= reg'.total + z
        BY <4>5
      <4> QED BY <4>6 DEF s, z
    <3>8. /\ ~port'.ready /\ pins'.word = NoLong /\ ddr'.addr = NextOf'
          /\ ddr'.burst \in Nat /\ ddr'.burst > 0
          /\ WordBytes * (NextOf' + ddr'.burst) <= reg'.total + WordBytes * BlocksSize
      BY <2>1, <2>2, <3>2, <3>4, <3>5, <3>6, <3>7
    <3> QED BY <2>2, <2>3, <3>8 DEF BurstOK, Fits
  <2> QED BY <2>5, <2>6
<1>5. CASE Fills(b)
  <2>0. /\ At("S_Blit_Copy_Lz4") /\ frame' = frame
        /\ pins'.run <=> port.ready /\ pins.word # NoLong
        /\ pins'.word = IF port.ready THEN port.dout ELSE NoLong
        /\ ddr'.addr = ddr.addr /\ ddr'.burst = ddr.burst /\ Answers(b)
        /\ port.ready => port.dout # NoLong
    BY <1>0, <1>5 DEF Fills, SameFrame, ZoneOK
  <2>1. CASE block_write_total < reg.total
    <3>1. block_write_total' < reg'.total
      BY <1>0, <2>0, <2>1, PastEnd
    <3> QED BY <3>1 DEF BurstOK
  <2>2. CASE ~(block_write_total < reg.total)
    <3>1. /\ NextOf \in Nat /\ block_write_total = WordBytes * NextOf
          /\ block_write_total' = WordBytes * Offered /\ NextOf' = Offered
          /\ reg'.total \in Nat /\ reg.total \in Nat
          /\ reg'.total >= reg.total /\ reg'.total <= reg.total + WordBytes
          /\ ~pins.run => reg'.total = reg.total
      BY <1>0, <2>0, <2>2, Writes
    <3>2. /\ pins.run /\ pins.word = NoLong => ~Ready
          /\ port.ready => port.dout = Word(Offered) /\ Fits(Due)
          /\ port.reading => /\ burst.next = Due /\ burst.left \in Nat /\ burst.left > 0
                             /\ Fits(Due + burst.left)
          /\ ~port.reading /\ (ddr.req \/ port.read_req) =>
               /\ ~port.ready /\ pins.word = NoLong /\ ddr.addr = NextOf
               /\ ddr.burst \in Nat /\ ddr.burst > 0 /\ Fits(NextOf + ddr.burst)
      BY <1>0, <2>0, <2>2 DEF BurstOK
    <3>3. Offered' = Due /\ Due \in Nat /\ Offered \in Nat
      <4>1. pins'.word # NoLong <=> port.ready
        BY <2>0
      <4> QED BY <3>1, <4>1 DEF Offered, Due
    <3>4. Due' = Due + IF d THEN 1 ELSE 0
      BY <1>2, <3>3 DEF Due
    <3>5. pins'.run /\ pins'.word = NoLong => ~Ready'
      BY <2>0
    <3>6. port'.ready => port'.dout = Word(Due) /\ WordBytes * (Due + 1) <= reg'.total + WordBytes * BlocksSize
      <4> SUFFICES ASSUME d
                   PROVE  /\ port'.dout = Word(Due)
                          /\ WordBytes * (Due + 1) <= reg'.total + WordBytes * BlocksSize
        BY <1>2
      <4>1. port.reading /\ burst.next = Due /\ burst.left \in Nat /\ burst.left > 0
            /\ Fits(Due + burst.left)
        BY <1>2, <3>2
      <4>2. port'.dout = Word(Due)
        BY <1>0, <1>2, <2>0, <4>1 DEF ZoneOK, Memory
      <4>3. WordBytes * (Due + burst.left) <= reg'.total + WordBytes * BlocksSize
        BY <3>1, <3>3, <4>1, FitsOn
      <4>4. WordBytes * (Due + 1) <= WordBytes * (Due + burst.left)
        <5>1. CASE burst.left = 1
          BY <1>0, <3>3, <5>1
        <5>2. CASE burst.left > 1
          <6>1. WordBytes * (Due + 1) + WordBytes <= WordBytes * (Due + burst.left)
            BY <1>0, <3>3, <4>1, <5>2, MulMono
          <6>2. WordBytes * (Due + 1) \in Nat /\ WordBytes * (Due + burst.left) \in Nat
            BY <1>0, <3>3, <4>1
          <6> QED BY <1>0, <6>1, <6>2
        <5> QED BY <4>1, <5>1, <5>2
      <4>5. /\ WordBytes * (Due + 1) \in Nat /\ WordBytes * (Due + burst.left) \in Nat
            /\ WordBytes * BlocksSize \in Nat
        BY <1>0, <3>3, <4>1
      <4> QED BY <3>1, <4>2, <4>3, <4>4, <4>5
    <3>7. port'.reading => /\ burst'.next = Due' /\ burst'.left \in Nat /\ burst'.left > 0
                           /\ Fits(Due + burst.left)'
      <4> SUFFICES ASSUME port'.reading
                   PROVE  /\ burst'.next = Due' /\ burst'.left \in Nat /\ burst'.left > 0
                          /\ WordBytes * (Due' + burst'.left) <= reg'.total + WordBytes * BlocksSize
        BY DEF Fits
      <4>1. CASE port.reading
        <5>1. burst.next = Due /\ burst.left \in Nat /\ burst.left > 0 /\ Fits(Due + burst.left)
              /\ ~(d /\ burst.left = 1)
          BY <1>2, <3>2, <4>1
        <5>2. burst' = IF d THEN [next |-> burst.next + 1, left |-> burst.left - 1] ELSE burst
          BY <1>0, <4>1 DEF Port
        <5>3. burst'.next = Due' /\ burst'.left \in Nat /\ burst'.left > 0
              /\ Due' + burst'.left = Due + burst.left
          BY <3>3, <3>4, <5>1, <5>2
        <5>4. WordBytes * (Due + burst.left) <= reg'.total + WordBytes * BlocksSize
          BY <3>1, <3>3, <5>1, FitsOn
        <5> QED BY <5>3, <5>4
      <4>2. CASE ~port.reading
        <5>1. port.read_req /\ ~d
          BY <1>2, <4>2
        <5>2. /\ ~port.ready /\ pins.word = NoLong /\ ddr.addr = NextOf
              /\ ddr.burst \in Nat /\ ddr.burst > 0 /\ Fits(NextOf + ddr.burst)
          BY <3>2, <4>2, <5>1
        <5>3. burst' = [next |-> ddr.addr, left |-> ddr.burst]
          BY <1>0, <4>2 DEF Port
        <5>4. Due' = NextOf
          BY <3>1, <3>4, <5>1, <5>2 DEF Due, Offered
        <5>5. WordBytes * (NextOf + ddr.burst) <= reg'.total + WordBytes * BlocksSize
          BY <3>1, <5>2, FitsOn
        <5> QED BY <5>2, <5>3, <5>4, <5>5
      <4> QED BY <4>1, <4>2
    <3>8. ~port'.reading /\ (ddr'.req \/ port'.read_req) =>
             /\ ~port'.ready /\ pins'.word = NoLong /\ ddr'.addr = NextOf'
             /\ ddr'.burst \in Nat /\ ddr'.burst > 0 /\ Fits(NextOf + ddr.burst)'
      <4> SUFFICES ASSUME ~port'.reading, ddr'.req \/ port'.read_req
                   PROVE  /\ ~port'.ready /\ pins'.word = NoLong /\ ddr'.addr = NextOf'
                          /\ ddr'.burst \in Nat /\ ddr'.burst > 0
                          /\ WordBytes * (NextOf' + ddr'.burst) <= reg'.total + WordBytes * BlocksSize
        BY DEF Fits
      <4>1. ~port.reading
        <5>1. port'.reading = (\/ ~b /\ ~port.reading /\ port.read_req /\ ~ddr.write
                               \/ port.reading /\ ~(d /\ burst.left = 1))
          BY <1>0 DEF Port
        <5> QED BY <1>0, <1>2, <2>0, <5>1 DEF Answers, PortOK
      <4>2. ddr.req \/ port.read_req
        BY <1>2, <2>0 DEF Answers
      <4>3. /\ ~port.ready /\ pins.word = NoLong /\ ddr.addr = NextOf
            /\ ddr.burst \in Nat /\ ddr.burst > 0 /\ Fits(NextOf + ddr.burst)
        BY <3>2, <4>1, <4>2
      <4>4. NextOf' = NextOf
        BY <3>1, <4>3 DEF Offered
      <4>5. WordBytes * (NextOf + ddr.burst) <= reg'.total + WordBytes * BlocksSize
        BY <3>1, <4>3, FitsOn
      <4> QED BY <1>2, <2>0, <4>1, <4>3, <4>4, <4>5
    <3>9. Word(Offered)' = Word(Due)
      <4> HIDE DEF Offered, Due
      <4> QED BY <2>0, <3>3 DEF Word, Size
    <3>10. port'.ready => port'.dout = Word(Offered)' /\ Fits(Due)'
      <4> SUFFICES ASSUME port'.ready
                   PROVE  port'.dout = Word(Offered)' /\ Fits(Due)'
        OBVIOUS
      <4>1. port'.dout = Word(Offered)'
        BY <3>6, <3>9
      <4>2. Due' = Due + 1
        BY <1>2, <3>4
      <4>3. WordBytes * Due' <= reg'.total + WordBytes * BlocksSize
        BY <3>6, <4>2
      <4> QED BY <4>1, <4>3 DEF Fits
    <3> QED BY <3>5, <3>7, <3>8, <3>10 DEF BurstOK
  <2> QED BY <2>1, <2>2
<1> QED BY <1>3, <1>4, <1>5

(* Taking a long, the core has seen a byte of it. *)
LEMMA UpperOKClock ==
  ASSUME BlitInv, TakeInv, FeedFields, UpperOK,
         NEW b \in BOOLEAN, NEW d \in BOOLEAN, NEW good, Clock(b, d, good)
  PROVE  UpperOK'
<1>0. /\ PinsOK /\ StartedOK /\ CoreClock(b, good) /\ Decoder(b) /\ RegTakes
      /\ core.wr \in Nat /\ reg.bytes \in Nat /\ (core.wr = 0 => core.px = 0)
      /\ WordBytes \in Nat
  BY Constants DEF Clock, BlitInv, TakeInv, TakeFields, TakeCounters, RegTakes
<1>1. Moves(b)
  BY <1>0, CoreMoves
<1>2. RegTakes' /\ (~pins.reset => reg'.bytes >= reg.bytes)
  BY <1>0, TakesClock
<1>3. \/ KeepsTaken
      \/ core'.wr = 0 /\ core'.px = 0
      \/ ~pins.reset /\ Takes(b) /\ core'.wr = core.wr + 1 /\ core'.px \in {core.px, core.px + 1}
  BY <1>0, <1>1 DEF Moves, Idles, Looks, Begins, Asks, Fills, CopyEnds, Inflating, EndsFrame,
                    Refills, SameFrame, PinsOK, At
<1> SUFFICES ASSUME ~pins'.reset
             PROVE  /\ core'.px \in 0..core'.wr
                    /\ core'.wr > 0 => WordBytes * core'.wr < reg'.bytes + WordBytes
  BY DEF UpperOK
<1>4. CASE core'.wr = 0 /\ core'.px = 0
  BY <1>4
<1>5. CASE KeepsTaken
  <2>1. CASE pins.reset
    BY <1>0, <1>5, <2>1 DEF StartedOK, KeepsTaken
  <2>2. CASE ~pins.reset
    <3>1. core.px \in 0..core.wr /\ (core.wr > 0 => WordBytes * core.wr < reg.bytes + WordBytes)
      BY <2>2 DEF UpperOK
    <3>2. WordBytes * core.wr \in Nat /\ reg'.bytes \in Nat
      BY <1>0, <1>2 DEF RegTakes
    <3> QED BY <1>0, <1>2, <1>5, <2>2, <3>1, <3>2 DEF KeepsTaken
  <2> QED BY <2>1, <2>2
<1>6. CASE ~pins.reset /\ Takes(b) /\ core'.wr = core.wr + 1 /\ core'.px \in {core.px, core.px + 1}
  <2>1. core.px \in 0..core.wr
    BY <1>6 DEF UpperOK
  <2>2. /\ WordBytes * core.wr \in Nat /\ reg'.bytes \in Nat /\ core.wr * WordBytes = WordBytes * core.wr
        /\ WordBytes * (core.wr + 1) = WordBytes * core.wr + WordBytes
    BY <1>0, <1>2 DEF RegTakes
  <2>3. reg.bytes > WordBytes * core.wr
    BY <1>6, <2>2 DEF Takes
  <2>4. WordBytes * core'.wr < reg'.bytes + WordBytes
    BY <1>0, <1>2, <1>6, <2>2, <2>3
  <2> QED BY <1>0, <1>6, <2>1, <2>4
<1> QED BY <1>3, <1>4, <1>5, <1>6

LEMMA WholeClock ==
  ASSUME BlitInv, TakeInv, WholeInv,
         NEW b \in BOOLEAN, NEW d \in BOOLEAN, NEW good, Clock(b, d, good)
  PROVE  WholeInv'
<1>0. FeedFields /\ UpperOK /\ FieldsOK /\ CoreClock(b, good)
  BY DEF WholeInv, Clock, BlitInv
<1>1. FeedFields' /\ env'.cuts = env.cuts /\ env'.lost = env.lost
  BY <1>0, EnvMoves, CoreDomains DEF FeedFields, KeepsEnv
<1>2. UpperOK'
  BY <1>0, UpperOKClock
<1>3. ASSUME Calm'
      PROVE  CalmInv'
  <2>1. CalmInv
    BY <1>1, <1>3 DEF Calm, WholeInv
  <2>2. CalmOK' /\ LatchOK' /\ FrameOK' /\ IdleOK' /\ DecodedOK'
    BY <1>0, <2>1, CalmClock, FrameClock, IdleOKClock, DecodedOKClock
  <2>3. RingOK' /\ DryOK' /\ WordOK' /\ BurstOK'
    BY <1>0, <2>1, RingOKClock, DryOKClock, WordOKClock, BurstOKClock
  <2> QED BY <2>2, <2>3 DEF CalmInv
<1> QED BY <1>1, <1>2, <1>3 DEF WholeInv

-----------------------------------------------------------------------------
(* The steps of the server and the raster keep WholeInv.                      *)

(* A delta is a frame as its encoding is. *)
LEMMA FrameIs ==
  ASSUME NEW f, NEW c, f.plain = c.plain, f.coded = c.coded, IsFrame(c)
  PROVE  IsFrame(f)
<1>1. PICK s \in Frames, n \in 1..MaxFrames : InBlocks(c, s, n * Byte * Byte)
  BY DEF IsFrame
<1>2. InBlocks(f, s, n * Byte * Byte)
  BY <1>1 DEF InBlocks, IsBlock, IsMatch, IsLast
<1> QED BY <1>1, <1>2 DEF IsFrame

(* A step of the server or the raster that leaves the frame as it is.         *)
LEMMA OutsideWhole ==
  ASSUME WholeInv, Outside, frame' = frame, FeedFields', Calm' => Calm,
         Calm' => /\ LatchOK' /\ env'.synced /\ ~env'.abort /\ env'.told \in Nat
                  /\ (env.audio => env'.audio)
  PROVE  WholeInv'
<1>u. /\ UNCHANGED <<pins, block_write_total, reg, blocks, window, out>>
      /\ UNCHANGED <<burst, core, ddr, port, told, frame>>
  BY DEF Outside, input, decoder
<1>1. UpperOK'
  BY <1>u DEF WholeInv, UpperOK
<1>2. ASSUME Calm'
      PROVE  CalmInv'
  <2>0. CalmInv
    BY <1>2 DEF WholeInv
  <2>1. CalmOK' /\ LatchOK'
    BY <1>u, <1>2, <2>0 DEF CalmInv, CalmOK, At
  <2>2. Word(NextOf)' = Word(NextOf) /\ Word(Offered)' = Word(Offered)
    BY <1>u DEF NextOf, Offered, Word, Size
  <2>3. InFrame' = InFrame /\ Resetting' = Resetting
    BY <1>u DEF InFrame, Resetting, At
  <2>4. FrameOK' /\ IdleOK'
    BY <1>u, <2>0, <2>3 DEF CalmInv, FrameOK, IdleOK, Size, Shaped, In
  <2>5. DecodedOK'
    <3>1. ASSUME Decoded
          PROVE  Decoded'
      <4>1. Rest(reg', reg, {"paused", "valid"}) /\ reg'.valid = reg.valid
        BY <1>u, <3>1 DEF Rest, Decoded
      <4> QED BY <1>u, <3>1, <4>1, DecodedRests
    <3> QED BY <1>u, <2>0, <2>3, <3>1 DEF CalmInv, DecodedOK
  <2>6. RingOK'
    <3>1. \A n : Word(n)' = Word(n)
      BY <1>u DEF Word, Size
    <3> QED BY <1>u, <2>0, <3>1 DEF CalmInv, RingOK, UnreadIntact
  <2>7. DryOK'
    BY <1>u, <1>2, <2>0 DEF CalmInv, DryOK, Ready, At
  <2>8. WordOK' /\ BurstOK'
    BY <1>u, <2>0, <2>2 DEF CalmInv, WordOK, BurstOK, Fits, NextOf, Offered, Due, Ready, At
  <2> QED BY <2>1, <2>4, <2>5, <2>6, <2>7, <2>8 DEF CalmInv
<1> QED BY <1>1, <1>2 DEF WholeInv

LEMMA AnnouncedWhole ==
  ASSUME BlitInv, TakeInv, WholeInv, EncodesPixels, EncodesEach,
         NEW sequences \in Frames, NEW delta \in BOOLEAN, SendFrame(sequences, delta)
  PROVE  WholeInv'
<1> DEFINE c == Compress(sequences, (env.sent + 1) * Byte * Byte)
           f == Frame(delta, c)
<1>0. FieldsOK /\ CountersOK /\ FeedFields /\ Outside /\ frame' = frame
  BY DEF BlitInv, WholeInv, SendFrame
<1>1. IsFrame(f) /\ Len(f.coded) \in Nat
  <2>1. env.sent + 1 \in 1..MaxFrames
    BY <1>0, FramesAssumption DEF SendFrame, CountersOK
  <2>2. IsFrame(c)
    BY <2>1 DEF EncodesEach
  <2>3. f.plain = c.plain /\ f.coded = c.coded
    BY DEF Frame
  <2> HIDE DEF c, f
  <2>4. IsFrame(f)
    BY <2>2, <2>3, FrameIs
  <2> QED BY <2>4 DEF IsFrame
<1>2. "plain" \in DOMAIN f /\ "coded" \in DOMAIN f
  BY DEF Frame
<1>3. /\ env'.next = f /\ env'.latch = IF env.hps THEN env.latch ELSE f
      /\ env'.cuts = env.cuts /\ env'.lost = env.lost /\ env'.synced = env.synced
      /\ env'.audio = env.audio /\ ~env'.abort
      /\ env'.told \in {Len(f.coded), ChunkBytes} /\ DOMAIN env' = DOMAIN env
  <2> HIDE DEF f
  <2> QED BY <1>0 DEF SendFrame, FieldsOK, FeedFields, f, c
<1> HIDE DEF c, f
<1>4. core' = core /\ ddr' = ddr
  BY <1>0 DEF Outside
<1>5. FeedFields'
  BY <1>0, <1>2, <1>3, <1>4 DEF FeedFields
<1>6. ASSUME Calm'
      PROVE  /\ Calm /\ LatchOK' /\ env'.synced /\ ~env'.abort /\ env'.told \in Nat
             /\ (env.audio => env'.audio)
  <2>1. Calm
    BY <1>3, <1>6 DEF Calm
  <2>2. CalmOK /\ LatchOK
    BY <2>1 DEF WholeInv, CalmInv
  <2>3. LatchOK'
    <3>1. \A g \in {f, env.latch} : Len(g.coded) = 0 \/ IsFrame(g)
      BY <1>1, <2>2 DEF LatchOK
    <3>2. {env.latch, env.next}' \subseteq {f, env.latch}
      BY <1>3
    <3> HIDE DEF IsFrame
    <3>3. \A g \in {env'.latch, env'.next} : Len(g.coded) = 0 \/ IsFrame(g)
      BY <3>1, <3>2
    <3> QED BY <3>3 DEF LatchOK, IsFrame
  <2> QED BY <1>1, <1>3, <2>1, <2>2, <2>3, Constants DEF CalmOK
<1> QED BY <1>0, <1>5, <1>6, OutsideWhole

LEMMA CommandedWhole ==
  ASSUME BlitInv, TakeInv, WholeInv, Command
  PROVE  WholeInv'
<1>0. FieldsOK /\ FeedFields /\ Outside /\ frame' = frame
  BY DEF BlitInv, WholeInv, Command
<1>1. /\ env'.next = env.next /\ env'.latch = env.next /\ DOMAIN env' = DOMAIN env
      /\ env'.cuts = env.cuts /\ env'.lost = env.lost /\ env'.synced = env.synced
      /\ env'.audio = env.audio /\ env'.abort = env.abort /\ env'.told = env.told
  BY <1>0 DEF Command, FieldsOK, FeedFields
<1>2. "coded" \in DOMAIN env.next
  BY DEF TakeInv, TakeFields
<1>3. core' = core /\ ddr' = ddr
  BY <1>0 DEF Outside
<1>4. Calm' => Calm /\ LatchOK' /\ env'.synced /\ ~env'.abort /\ env'.told \in Nat
  BY <1>1 DEF Calm, WholeInv, CalmInv, CalmOK, LatchOK
<1> QED BY <1>0, <1>1, <1>2, <1>3, <1>4, OutsideWhole DEF FeedFields

(* A chunk, a sound, a raster without a pixel, or no step.                    *)
LEMMA EnvKeptWhole ==
  ASSUME BlitInv, WholeInv, SendChunk \/ Sound \/ Starve \/ UNCHANGED blitVars
  PROVE  WholeInv'
<1>0. FieldsOK /\ FeedFields
  BY DEF BlitInv, WholeInv
<1>1. Outside /\ frame' = frame
  BY DEF SendChunk, Sound, Starve, blitVars, lz4Vars, source, input, decoder, Outside
<1>2. /\ env'.next = env.next /\ env'.latch = env.latch /\ DOMAIN env' = DOMAIN env
      /\ env'.lost = env.lost /\ env'.abort = env.abort /\ (env.audio => env'.audio)
      /\ env'.told \in {env.told, env.told + ChunkBytes, Coded}
      /\ \/ env'.cuts = env.cuts /\ env'.synced = env.synced
         \/ env'.cuts = env.cuts + 1
  BY <1>0 DEF SendChunk, Sound, Starve, blitVars, FieldsOK, FeedFields
<1>3. FeedFields'
  BY <1>0, <1>1, <1>2 DEF FeedFields, Outside
<1>4. ASSUME Calm'
      PROVE  /\ Calm /\ LatchOK' /\ env'.synced /\ ~env'.abort /\ env'.told \in Nat
             /\ (env.audio => env'.audio)
  <2>1. Calm /\ env'.synced = env.synced
    BY <1>0, <1>2, <1>4 DEF Calm, FeedFields
  <2>2. CalmOK /\ LatchOK
    BY <2>1 DEF WholeInv, CalmInv
  <2>3. Coded \in Nat
    <3>1. Len(env.next.coded) = 0 \/ IsFrame(env.next)
      BY <2>2 DEF LatchOK
    <3> QED BY <3>1 DEF IsFrame, Coded
  <2> QED BY <1>2, <2>1, <2>2, <2>3, Constants DEF CalmOK, LatchOK
<1> QED BY <1>1, <1>3, <1>4, OutsideWhole

LEMMA GivenUpWhole ==
  ASSUME BlitInv, TakeInv, WholeInv, NEW old, GiveUp(old)
  PROVE  WholeInv'
<1> DEFINE f == [env.next EXCEPT !.coded = [i \in 1..Coded |-> IF i <= env.told THEN @[i]
                                                                            ELSE old]]
<1>0. FieldsOK /\ FeedFields /\ TakeFields /\ Outside
  BY DEF BlitInv, TakeInv, WholeInv, GiveUp
<1>1. "plain" \in DOMAIN f /\ "coded" \in DOMAIN f
  BY <1>0 DEF TakeFields, FeedFields
<1>2. /\ env'.next = f /\ env'.latch = f /\ DOMAIN env' = DOMAIN env
      /\ env'.cuts = env.cuts /\ env'.lost = env.lost + 1
  <2> HIDE DEF f
  <2> QED BY <1>0 DEF GiveUp, FieldsOK, FeedFields, f
<1> HIDE DEF f
<1>u. UNCHANGED <<pins, reg, core, ddr>>
  BY <1>0 DEF Outside, input, decoder
<1>3. FeedFields' /\ ~Calm'
  BY <1>0, <1>1, <1>2, <1>u DEF FeedFields, Calm
<1>4. UpperOK'
  BY <1>u DEF WholeInv, UpperOK
<1> QED BY <1>3, <1>4 DEF WholeInv

LEMMA WholeInitial ==
  ASSUME BlitInit, EncodesEach
  PROVE  WholeInv
<1>1. NoFrame.coded = <<>> /\ {"plain", "coded"} \subseteq DOMAIN NoFrame
  BY DEF NoFrame, Frame, EncodesEach
<1>2. /\ env.latch = NoFrame /\ env.next = NoFrame /\ env.synced /\ ~env.abort /\ env.told = 0
      /\ env.cuts = 0 /\ env.lost = 0
      /\ {"cuts", "lost", "told", "abort", "synced", "audio"} \subseteq DOMAIN env
  BY DEF BlitInit
<1>3. /\ core.state = "S_Dispatcher" /\ ~core.abort /\ core.wr = 0 /\ core.px = 0
      /\ "delta_req" \in DOMAIN core /\ "addr" \in DOMAIN ddr
      /\ ~pins.reset /\ told = 0 /\ block_write_total = 0
      /\ reg = PowerOn /\ DOMAIN window = 0..WindowSize - 1 /\ DOMAIN blocks = 0..BlocksSize - 1
  BY DEF BlitInit, DecoderInit
<1>4. /\ Full(reg) /\ reg.state = "S_Idle" /\ reg.total = 0 /\ ~reg.paused
      /\ reg.window_data = Empty
  BY <1>3 DEF PowerOn, Full, Fields
<1>5. FeedFields
  BY <1>1, <1>2, <1>3 DEF FeedFields
<1>6. UpperOK
  BY <1>3 DEF UpperOK
<1>7. CalmOK /\ LatchOK
  BY <1>1, <1>2, <1>3 DEF CalmOK, LatchOK, At
<1>8. FrameOK /\ DecodedOK
  BY <1>3 DEF FrameOK, DecodedOK, InFrame, Resetting, Begun
<1>9. IdleOK
  BY <1>3, <1>4 DEF IdleOK, Shaped, In, IsWord, Empty
<1>10. RingOK
  <2>1. block_write_total = WordBytes * 0
    BY <1>3, Constants
  <2>2. reg.total .. block_write_total - 1 = {}
    BY <1>3, <1>4
  <2> QED BY <1>3, <2>1, <2>2 DEF RingOK, UnreadIntact
<1>11. DryOK /\ WordOK /\ BurstOK
  BY <1>3, <1>4 DEF DryOK, WordOK, BurstOK, At
<1> QED BY <1>5, <1>6, <1>7, <1>8, <1>9, <1>10, <1>11 DEF WholeInv, CalmInv

LEMMA WholeSteps ==
  ASSUME EncodesPixels, EncodesEach, BlitInv, TakeInv, WholeInv, [BlitNext]_blitVars
  PROVE  WholeInv'
<1>1. ASSUME NEW s \in Frames, NEW delta \in BOOLEAN, SendFrame(s, delta)
      PROVE  WholeInv'
  BY <1>1, AnnouncedWhole
<1>2. CASE Command
  BY <1>2, CommandedWhole
<1>3. CASE SendChunk \/ Sound \/ Starve \/ UNCHANGED blitVars
  BY <1>3, EnvKeptWhole
<1>4. ASSUME NEW old \in {1, Ones}, GiveUp(old)
      PROVE  WholeInv'
  BY <1>4, GivenUpWhole
<1>5. ASSUME NEW b \in BOOLEAN, NEW d \in BOOLEAN, Clock(b, d, FALSE)
      PROVE  WholeInv'
  BY <1>5, WholeClock
<1> QED BY <1>1, <1>2, <1>3, <1>4, <1>5 DEF BlitNext

(* A clock that takes a frame for inflated finds the decoder done with it.    *)
LEMMA EndIsDone ==
  ASSUME BlitInv, WholeInv, Calm, [BlitNext]_blitVars, Ending
  PROVE  reg.done /\ Decoded /\ IsFrame(frame) /\ ~pins.reset
<1>0. FieldsOK /\ PinsOK /\ CalmInv /\ core.frame_lz4 \in Nat /\ At("S_Blit_End_Lz4")
  BY DEF BlitInv, CountersOK, WholeInv, Ending
<1>1. PICK b \in BOOLEAN : CoreClock(b, FALSE)
  <2>1. core' # core
    BY <1>0 DEF Ending
  <2>2. ~Outside /\ ~UNCHANGED blitVars
    BY <2>1 DEF Outside, blitVars
  <2>3. BlitNext
    BY <2>2
  <2> QED
    BY <2>2, <2>3 DEF BlitNext, SendFrame, Command, SendChunk, Sound, Starve, GiveUp, Clock
<1>2. EndLz4
  BY <1>0, <1>1 DEF CoreClock, At, Dispatcher, Audio, HeaderLz4, BlitLz4, PrepareLz4, CopyLz4,
                    CopyEndLz4, InflateLz4, DeltaPrepare, DeltaCopy
<1>3. Ends
  <2>1. core'.frame_lz4 # core.frame_lz4
    BY <1>0 DEF Ending
  <2>2. ~Ends => core'.frame_lz4 = core.frame_lz4
    <3>1. ~Ends => \E r, s : core' = [core EXCEPT !.resume = r, !.state = s]
      BY <1>2 DEF EndLz4
    <3> HIDE DEF Ends
    <3> QED BY <1>0, <3>1 DEF FieldsOK
  <2> QED BY <2>1, <2>2
<1>4. reg.done /\ ~pins.reset
  BY <1>0, <1>3 DEF Ends, CalmInv, CalmOK, PinsOK
<1>5. InFrame
  BY <1>0 DEF InFrame, Begun, Resetting, At
<1> QED BY <1>0, <1>4, <1>5 DEF CalmInv, DecodedOK, FrameOK

(* It has put all of the frame out, and what is out the core has taken. *)
LEMMA WholeAtEnd ==
  ASSUME EncodesPixels, BlitInv, TakeInv, WholeInv, [BlitNext]_blitVars, Ending, Calm
  PROVE  core.wr = Words
<1>0. /\ reg.bytes = FrameBytes /\ ~reg.valid /\ FrameBytes \in Nat /\ ~pins.reset
      /\ core.wr \in Nat /\ WordBytes \in Nat /\ WordBytes > 0
  BY EndIsDone, DecodedPromises, Constants DEF IsFrame, EncodesPixels, TakeInv, TakeCounters
<1>1. /\ core.px \in 0..core.wr
      /\ core.wr > 0 => WordBytes * core.wr < FrameBytes + WordBytes
  BY <1>0 DEF WholeInv, UpperOK
<1>2. ~(core.px < Words) \/ FrameBytes <= WordBytes * core.wr
  BY <1>0 DEF TakeInv, TakenOK
<1> DEFINE n == FrameBytes + WordBytes - 1
<1>3. n \in Nat /\ WordBytes * core.wr \in Nat
  BY <1>0
<1>4. Words = n \div WordBytes /\ Words \in Nat
  BY <1>0, <1>3, DivDef DEF Words
<1>5. core.wr <= Words
  <2>1. CASE core.wr = 0
    BY <1>4, <2>1
  <2>2. CASE core.wr > 0
    <3>1. WordBytes * core.wr <= n
      BY <1>0, <1>1, <1>3, <2>2
    <3> HIDE DEF n
    <3> QED BY <1>0, <1>3, <1>4, <3>1, DivAbove
  <2> QED BY <1>0, <2>1, <2>2
<1>6. Words <= core.wr
  <2>1. CASE ~(core.px < Words)
    BY <1>0, <1>1, <1>4, <2>1
  <2>2. CASE FrameBytes <= WordBytes * core.wr
    <3>1. WordBytes * (core.wr + 1) = WordBytes * core.wr + WordBytes
      BY <1>0
    <3>2. n < WordBytes * (core.wr + 1)
      BY <1>0, <1>3, <2>2, <3>1
    <3> HIDE DEF n
    <3>3. n \div WordBytes < core.wr + 1
      BY <1>0, <1>3, <3>2, DivBelow
    <3> QED BY <1>0, <1>4, <3>3
  <2> QED BY <1>2, <2>1, <2>2
<1> QED BY <1>0, <1>4, <1>5, <1>6

(* A frame the core takes for inflated has had every one of its longs taken:   *)
(* over sounds, waits, deltas, headers of frames that follow and the resets    *)
(* between frames, as long as the raster finds pixels and no datagram is lost  *)
(* (Groovy.sv:1427-1463).  For every size and any number of frames of LZ4 that *)
(* fill the modeline.                                                         *)
THEOREM EndWhole ==
  ASSUME EncodesPixels, EncodesEach
  PROVE  BlitSpec => EndIsWhole
<1>1. BlitInit => BlitInv /\ TakeInv /\ WholeInv
  BY BlitInitial, TakeInitial, WholeInitial DEF EncodesPixels
<1>2. BlitInv /\ TakeInv /\ WholeInv /\ [BlitNext]_blitVars => BlitInv' /\ TakeInv' /\ WholeInv'
  BY BlitSteps, TakeSteps, WholeSteps
<1>3. BlitInv /\ TakeInv /\ WholeInv /\ [BlitNext]_blitVars
      => [Ending /\ Calm => core.wr = Words]_blitVars
  BY WholeAtEnd
<1> QED
  BY <1>1, <1>2, <1>3, PTL DEF BlitSpec, EndIsWhole

-----------------------------------------------------------------------------
(* The longs the decoder puts out: LongIs.                                    *)

(* The long that is valid is the word of the frame that ends what is out. *)
LongIs ==
  reg.valid => \E a \in Nat :
    /\ reg.bytes \in WordBytes * a + 1 .. WordBytes * a + WordBytes
    /\ \A i \in 1..WordBytes : WordBytes * a + i <= Len(frame.plain)
         => reg.long[i] = frame.plain[WordBytes * a + i]

(* A clock that puts a word out, which is not the last. *)
Emits ==
  \E w : /\ DOMAIN w = 1..WordBytes /\ IsWord(w) /\ out' = out \o w
         /\ reg'.long = w /\ reg'.bytes = reg.bytes + WordBytes /\ reg'.state # "S_Done_64"

Mute(r) == Full(r) /\ ~r.valid /\ r.state # "S_Done_64"

LEMMA MuteReads ==
  ASSUME NEW r, Mute(r)
  PROVE  Mute(NextWord(r)) /\ Mute(NextLong(r)) /\ Mute(FetchLong(r))
BY DEF NextWord, NextLong, FetchLong, Mute, Full, Fields

LEMMA MutePuts ==
  ASSUME Shaped, ~pins.reset, NEW r, Mute(r), NEW b, PutByte(b, r) \/ PutLong(b, r)
  PROVE  ~reg'.valid \/ Emits
<1>1. DOMAIN reg.window_data = 1..WordBytes
  BY DEF Shaped
<1>2. CASE PutByte(b, r)
  <2> DEFINE word == [reg.window_data EXCEPT ![Addr3 + 1] = b]
             put  == [r EXCEPT !.window_data = word, !.addr = reg.addr + 1]
  <2>1. DOMAIN word = 1..WordBytes /\ IsWord(word)
    BY <1>1 DEF IsWord
  <2> HIDE DEF word
  <2>2. Full(put) /\ ~put.valid /\ put.state # "S_Done_64"
    BY DEF Mute, Full, Fields
  <2>3. \/ reg' = Valid(put, word) /\ out' = out \o word
        \/ reg' = put
    BY <1>2 DEF PutByte, Output, Kept, word
  <2> HIDE DEF put
  <2>4. Valid(put, word).long = word /\ Valid(put, word).bytes = reg.bytes + WordBytes
        /\ Valid(put, word).state = put.state
    BY <2>2 DEF Valid, Full, Fields
  <2> QED BY <2>1, <2>2, <2>3, <2>4 DEF Emits
<1>3. CASE PutLong(b, r)
  <2> DEFINE long == [i \in 1..WordBytes |-> IF i <= Addr3 THEN reg.window_data[i]
                                                           ELSE b[i - Addr3]]
             kept == [i \in 1..WordBytes |-> IF i <= Addr3 THEN b[WordBytes - Addr3 + i]
                                                           ELSE reg.window_data[i]]
             put  == [r EXCEPT !.window_data = IF Addr3 = 0 THEN b ELSE kept,
                               !.addr = reg.addr + WordBytes]
  <2>1. DOMAIN long = 1..WordBytes /\ IsWord(long)
    BY DEF IsWord
  <2>2. Full(put) /\ put.state # "S_Done_64"
    BY DEF Mute, Full, Fields
  <2>3. reg' = Valid(put, long) /\ out' = out \o long
    BY <1>3 DEF PutLong, Output, Kept
  <2> HIDE DEF put, long
  <2>4. Valid(put, long).long = long /\ Valid(put, long).bytes = reg.bytes + WordBytes
        /\ Valid(put, long).state = put.state
    BY <2>2 DEF Valid, Full, Fields
  <2> QED BY <2>1, <2>2, <2>3, <2>4 DEF Emits
<1> QED BY <1>2, <1>3

(* The two longs that are put out otherwise: the last one, and one no frame of *)
(* the encoder asks for.                                                      *)
LEMMA DecodePuts ==
  ASSUME Full(reg), Shaped, ~pins.reset, ~In("S_Done_64"), Decode
  PROVE  \/ ~reg'.valid \/ Emits
         \/ In("S_Done") /\ Done /\ Addr3 # 0
         \/ In("S_Copy_Matches_64_8") /\ reg.offset = 0
<1>1. Mute(Held)
  BY DEF Held, Before, Mute, Full, Fields, In
<1>h. \A r : Mute(r) => Mute(NextWord(r)) /\ Mute(NextLong(r)) /\ Mute(FetchLong(r))
  BY MuteReads
<1> HIDE DEF Held
<1>2. ASSUME Idle \/ ReadToken \/ ReadLiteralsLength \/ LiteralsDone \/ ReadOffset
             \/ ReadMatchOffset \/ ReadMatchLength
      PROVE  ~reg'.valid
  <2>1. CASE Idle \/ ReadToken
    <3>1. \E r : Mute(r) /\ reg' = NextWord(r)
      BY <1>1, <2>1 DEF Idle, ReadToken, Mute, Full, Fields
    <3> QED BY <1>h, <3>1 DEF Mute
  <2>2. CASE ReadLiteralsLength
    <3>1. \E r : Mute(r) /\ reg' \in {NextWord(r), FetchLong(r)}
      BY <1>1, <2>2 DEF ReadLiteralsLength, Mute, Full, Fields
    <3> QED BY <1>h, <3>1 DEF Mute
  <2>3. CASE LiteralsDone
    <3>1. \E r : Mute(r) /\ reg' = NextWord(r)
      BY <1>1, <2>3 DEF LiteralsDone, Mute, Full, Fields
    <3> QED BY <1>h, <3>1 DEF Mute
  <2>4. CASE ReadOffset
    BY <1>1, <2>4 DEF ReadOffset, Mute, Full, Fields
  <2>5. CASE ReadMatchOffset
    <3>1. \/ \E r : Mute(r) /\ reg' = NextWord(r)
          \/ ~reg'.valid
      BY <1>1, <2>5 DEF ReadMatchOffset, CopyFrom, Mute, Full, Fields
    <3> QED BY <1>h, <3>1 DEF Mute
  <2>6. CASE ReadMatchLength
    <3>1. \/ \E r : Mute(r) /\ reg' = NextWord(r)
          \/ ~reg'.valid
      BY <1>1, <2>6 DEF ReadMatchLength, CopyFrom, Mute, Full, Fields
    <3> QED BY <1>h, <3>1 DEF Mute
  <2> QED BY <1>2, <2>1, <2>2, <2>3, <2>4, <2>5, <2>6
<1>3. CASE ReadLiterals
  <2> DEFINE put == [Held EXCEPT !.LL = reg.LL - 1, !.LL_W = reg.LL_W + 1]
             next == IF LiteralsByWord THEN NextLong([put EXCEPT !.state = "S_Read_Literals_64"])
                                       ELSE NextWord(put)
  <2>1. Mute(put) /\ Mute([put EXCEPT !.state = "S_Read_Literals_64"])
    BY <1>1 DEF Mute, Full, Fields
  <2>2. PutByte(reg.data, next)
    BY <1>3 DEF ReadLiterals
  <2> HIDE DEF put
  <2>3. Mute(next)
    BY <1>h, <2>1
  <2> HIDE DEF next
  <2> QED BY <2>2, <2>3, MutePuts
<1>4. CASE ReadLiterals64
  <2> DEFINE put == [Held EXCEPT !.LL = reg.LL - WordBytes, !.LL_W = reg.LL_W + WordBytes]
             next == IF Ready64 /\ reg.LL >= 2 * WordBytes
                     THEN NextLong(put) ELSE NextWord([put EXCEPT !.state = "S_Read_Literals"])
  <2>1. Mute(put) /\ Mute([put EXCEPT !.state = "S_Read_Literals"])
    BY <1>1 DEF Mute, Full, Fields
  <2>2. PutLong(reg.data_64, next)
    BY <1>4 DEF ReadLiterals64
  <2> HIDE DEF put
  <2>3. Mute(next)
    BY <1>h, <2>1
  <2> HIDE DEF next
  <2> QED BY <2>2, <2>3, MutePuts
<1>5. CASE CopyMatches
  <2>1. \E r, b : Mute(r) /\ PutByte(b, r)
    BY <1>1, <1>5 DEF CopyMatches, Mute, Full, Fields
  <2> QED BY <2>1, MutePuts
<1>6. CASE CopyMatches64 \/ (CopyMatches64_8 /\ reg.offset # 0)
  <2>1. Mute(CopiedLong)
    BY <1>1 DEF CopiedLong, Mute, Full, Fields
  <2>2. \E w : PutLong(w, CopiedLong)
    BY <1>6 DEF CopyMatches64, CopyMatches64_8
  <2> QED BY <2>1, <2>2, MutePuts
<1>7. CASE CopyMatches64_8 /\ reg.offset = 0
  BY <1>7 DEF CopyMatches64_8
<1>8. CASE Done \/ Done64
  <2>1. ~Finished.valid
    BY <1>1 DEF Finished, Mute, Full, Fields
  <2> QED BY <1>8, <2>1 DEF Done, Done64
<1> QED BY <1>2, <1>3, <1>4, <1>5, <1>6, <1>7, <1>8 DEF Decode

(* A word put out is the next one of the frame. *)
LEMMA EmitsLong ==
  ASSUME ~pins.reset, frame' = frame, NEW a \in Nat, NEW x \in 0..WordBytes - 1, OutAt(a, x),
         OutOK', Emits
  PROVE  LongIs'
<1>1. PICK w : /\ DOMAIN w = 1..WordBytes /\ IsWord(w) /\ out' = out \o w
               /\ reg'.long = w /\ reg'.bytes = reg.bytes + WordBytes
  BY DEF Emits
<1>2. PICK c \in Nat, y \in 0..WordBytes - 1 : OutAt(c, y)'
  BY DEF OutOK
<1> DEFINE n == WordBytes * a
           f == frame.plain
           S == {w[i] : i \in 1..WordBytes} \cup {f[i] : i \in Nat}
<1>3. n \in Nat /\ WordBytes \in Nat /\ WordBytes > 0
  BY Numbers
<1>4. /\ reg.bytes = n /\ out = [i \in 1..n |-> f[i]]
      /\ reg'.bytes = WordBytes * c /\ out' = [i \in 1..WordBytes * c |-> f[i]]
  BY <1>2 DEF OutAt
<1>5. WordBytes * c = n + WordBytes
  BY <1>1, <1>4
<1>w. w = [i \in 1..WordBytes |-> w[i]]
  BY <1>1 DEF IsWord
<1> HIDE DEF n, f
<1>6. out \in Seq(S) /\ Len(out) = n
  BY <1>3, <1>4
<1>7. w \in Seq(S) /\ Len(w) = WordBytes
  BY <1>3, <1>w, SMTT(40)
<1> HIDE DEF S
<1>8. \A i \in 1..n + WordBytes : (out \o w)[i] = IF i <= n THEN out[i] ELSE w[i - n]
  BY <1>6, <1>7, ConcatProperties
<1>9. ASSUME NEW i \in 1..WordBytes
      PROVE  w[i] = f[n + i]
  <2>1. n + i \in 1..n + WordBytes /\ ~(n + i <= n) /\ (n + i) - n = i
    BY <1>3
  <2>2. (out \o w)[n + i] = w[i]
    BY <1>8, <2>1
  <2>3. out'[n + i] = f[n + i]
    BY <1>4, <1>5, <2>1
  <2> QED BY <1>1, <2>2, <2>3
<1>10. reg'.bytes \in n + 1 .. n + WordBytes
  BY <1>3, <1>4, <1>5
<1>11. \A i \in 1..WordBytes : reg'.long[i] = frame'.plain[n + i]
  BY <1>1, <1>9 DEF f
<1> QED BY <1>10, <1>11 DEF LongIs, n

(* The long that is valid is a word of the frame, also the last one.          *)
LEMMA LongClock ==
  ASSUME Decoded, Fed, LongIs, NEW b, Decoder(b), frame' = frame
  PROVE  LongIs'
<1>0. Full(reg) /\ ~pins.reset /\ DoneOK /\ reg.offset \in Nat /\ Shaped
  BY DecodedPromises DEF Decoded, Fed
<1>1. CASE Decode
  <2>1. Decoded'
    BY <1>1, DecodedSteps
  <2>2. CASE ~reg'.valid
    BY <2>2 DEF LongIs
  <2>p. PICK seq, shade : InBlocks(frame, seq, shade) /\ \E k \in 1..Len(seq) : AtBlock(seq, shade, k)
    BY DEF Decoded
  <2>k. PICK k \in 1..Len(seq) : AtBlock(seq, shade, k)
    BY <2>p
  <2> DEFINE s    == seq[k]
             at   == CodedTo(seq, shade, k)
             from == PlainTo(seq, shade, k)
  <2>l. Located(s, at, from) /\ Where(s, at, from)
    BY <2>p, <2>k, Block DEF AtBlock
  <2> HIDE DEF s, at, from
  <2>3. CASE In("S_Copy_Matches_64_8") /\ reg.offset = 0
    <3>1. AtCopy(s, at, from)
      BY <2>3, <2>l DEF Where, In, FrameDone, AtIdle, AtToken, AtLiteralsLength, AtLiterals,
             AtLiterals64, AtOffset, AtMatchOffset, AtMatchLength, LastCopied
    <3>2. reg.offset = s.offset /\ s.match # 0
      BY <3>1 DEF AtCopy
    <3>3. s.offset >= 1
      BY <2>l, <3>2 DEF Located, IsMatch
    <3> QED BY <2>3, <3>2, <3>3
  <2>4. CASE In("S_Done") /\ Done /\ Addr3 # 0
    <3>1. OutOK /\ LastCopied(s, from)
      BY <2>4, <2>l DEF Decoded, Where, In, FrameDone, AtIdle, AtToken, AtLiteralsLength, AtLiterals,
             AtLiterals64, AtOffset, AtMatchOffset, AtMatchLength, AtCopy
    <3>2. PICK a \in Nat, x \in 0..WordBytes - 1 : OutAt(a, x)
      BY <3>1 DEF OutOK
    <3>x. x \in Nat /\ x < WordBytes /\ WordBytes \in Nat /\ WordBytes * a \in Nat
      BY Numbers
    <3>a. reg.addr = WordBytes * a + x /\ reg.bytes = WordBytes * a
      BY <3>2 DEF OutAt
    <3>b. Addr3 = x
      BY <3>x, <3>a, WordBounds
    <3>3. Addr3 = x /\ x \in 1..WordBytes - 1 /\ WordBytes * a \in Nat
      BY <2>4, <3>x, <3>b
    <3>4. reg.addr = Len(frame.plain)
      BY <2>l, <3>1 DEF LastCopied, Ended, Located, IsLast
    <3>5. /\ reg'.bytes = WordBytes * a + x /\ reg'.long = reg.window_data
      <4>1. reg'.bytes = reg.bytes + Addr3 /\ reg'.long = reg.window_data
        BY <1>0, <2>4 DEF Done, Held, Before, Full, Fields
      <4> QED BY <3>a, <3>b, <4>1
    <3>6. \A i \in 1..WordBytes : WordBytes * a + i <= Len(frame.plain)
            => reg'.long[i] = frame.plain[WordBytes * a + i]
      <4> SUFFICES ASSUME NEW i \in 1..WordBytes, WordBytes * a + i <= Len(frame.plain)
                   PROVE  reg'.long[i] = frame.plain[WordBytes * a + i]
        OBVIOUS
      <4>1. i \in 1..x
        BY <3>2, <3>3, <3>4 DEF OutAt
      <4> QED BY <3>2, <3>5, <4>1 DEF OutAt
    <3>7. reg'.bytes \in WordBytes * a + 1 .. WordBytes * a + WordBytes
      BY <3>3, <3>5, Numbers
    <3> QED BY <3>6, <3>7 DEF LongIs
  <2>5. CASE Emits /\ ~In("S_Done_64")
    <3>1. PICK a \in Nat, x \in 0..WordBytes - 1 : OutAt(a, x)
      BY <2>5 DEF Decoded, OutOK
    <3>2. reg'.state # "S_Done_64"
      BY <2>5 DEF Emits
    <3>3. OutOK'
      BY <2>1, <3>2 DEF Decoded, In
    <3> QED BY <1>0, <2>5, <3>1, <3>3, EmitsLong
  <2>6. CASE In("S_Done_64")
    <3>1. ~reg'.valid
      BY <1>0, <1>1, <2>6, StateRuns DEF Done64, Finished, Held, Before, Full, Fields
    <3> QED BY <2>2, <3>1
  <2> QED BY <1>0, <1>1, <2>2, <2>3, <2>4, <2>5, <2>6, DecodePuts
<1>2. CASE Pause
  <2>1. ~reg'.valid
    BY <1>0, <1>2 DEF Pause, Held, Before, Full, Fields
  <2> QED BY <2>1 DEF LongIs
<1>3. CASE reg' = [Before EXCEPT !.paused = FALSE]
  <2>1. reg'.valid = reg.valid /\ reg'.long = reg.long /\ reg'.bytes = reg.bytes
    BY <1>0, <1>3 DEF Before, Full, Fields
  <2> QED BY <2>1 DEF LongIs
<1> QED BY <1>1, <1>2, <1>3, DecoderRuns

-----------------------------------------------------------------------------
(* The frame buffer: BufferInv.                                               *)

(* The fields read besides those of FieldsOK, TakeFields and FeedFields. *)
BufferFields ==
  /\ "sounds" \in DOMAIN env /\ env.sounds \in Nat
  /\ {"delta", "index"} \subseteq DOMAIN core
  /\ {"write", "data"} \subseteq DOMAIN ddr

(* What FramebufferWhole is about: no fault, and frames told as they come. *)
Clear == Calm /\ env.sounds = 0 /\ ~env.hps

(* No sound stops a frame. *)
QuietOK == ~env.audio /\ ~core.resume /\ ~At("S_Audio")

(* The frame begun is the one sent under its number. *)
OwnOK ==
  InFrame => core.frame_lz4 < core.frame_ddr /\ frame = Named /\ core.delta = frame.delta

LongOK == InFrame /\ ~pins.reset => LongIs

(* What the decoder waits for when it pauses. *)
Wants ==
  \/ reg.state \in {"S_Idle", "S_Read_Token", "S_Read_Literals_Length"}
  \/ reg.state \in {"S_Read_Literals", "S_Read_Literals_64"} /\ ~Readed
  \/ In("S_Read_Match_Offset") /\ ~LastBlock /\ reg.ML >= Nibble - 1
  \/ In("S_Read_Match_Length") /\ reg.data >= Ones

(* A decoder that is stopped has no long to take, or must wait for a delta.   *)
RunsOK ==
  At("S_Blit_Inflate_Lz4") =>
    /\ reg.paused => Wants /\ ~reg.valid
    /\ ~pins.run => core.delta_req \/ ~reg.valid

(* A write is ordered only while a frame is inflated, and is over when the    *)
(* frame buffer is read.                                                      *)
WritesOK ==
  /\ ddr.write => At("S_Blit_Inflate_Lz4")
  /\ At("S_Delta_Copy") => port.cmd # "write"
  /\ port.ready => port.cmd = "none"

(* What the frame before left of a byte, and what the frame makes of it. *)
Was(k) == IF k \in DOMAIN image THEN image[k] ELSE 0

Target(k) == frame.plain[k] + IF frame.delta THEN Was(k) ELSE 0

(* Byte i of word n is in the frame. *)
Reaches(n, i) == WordBytes * n + i <= FrameBytes

(* A word on its way to the frame buffer, or in it. *)
Passed(n) == (port.cmd = "write" /\ port.at = n) \/ n \in DOMAIN fb

Present(n) == (ddr.write /\ ddr.addr = n) \/ Passed(n)

Behind(n) == IF port.cmd = "write" /\ port.at = n THEN port.data ELSE Memory("FB", n)

Stored(n) == IF ddr.write /\ ddr.addr = n THEN ddr.data ELSE Behind(n)

(* The words taken are of the frame begun, the others of the one before it.   *)
MemoryOK ==
  /\ image = <<>> \/ DOMAIN image = 1..FrameBytes
  /\ \A n \in Nat, i \in 1..WordBytes : Reaches(n, i) =>
       /\ n < core.wr \/ image # <<>> => Present(n)
       /\ Stored(n)[i] = IF n < core.wr THEN Target(WordBytes * n + i)
                                        ELSE Was(WordBytes * n + i)

(* Word j of delta_FB is what word n of the frame buffer was. *)
Holds64(j, n) ==
  \A i \in 1..WordBytes : Reaches(n, i) => delta_FB[j][i] = Was(WordBytes * n + i)

Deltas == {"S_Delta_Prepare", "S_Delta_Copy"}

(* A frame that is no delta is added to nothing; one that is, to the words    *)
(* that follow those taken.                                                   *)
AddedOK ==
  /\ DOMAIN delta_FB = 0..BlocksSize - 1 /\ core.index \in 0..BlocksSize - 1
  /\ InFrame /\ ~core.delta =>
       core.index = 0 /\ ~core.delta_req /\ delta_FB[0] = Empty /\ core.state \notin Deltas
  /\ InFrame /\ core.delta /\ ~core.delta_req /\ core.state \notin Deltas =>
       \A j \in core.index..BlocksSize - 1 : Holds64(j, core.wr + (j - core.index))

(* The burst brings the words that follow those taken. *)
RefillOK ==
  At("S_Delta_Copy") =>
    /\ ~core.delta_req /\ \A j \in 0..core.index - 1 : Holds64(j, core.wr + j)
    /\ port.ready => /\ port.dout = Memory("FB", core.wr + core.index)
                     /\ port.reading \/ core.index + 1 = DeltaWords
    /\ port.reading => /\ port.what = "FB" /\ burst.left \in Nat /\ burst.left > 0
                       /\ burst.next = core.wr + core.index + IF port.ready THEN 1 ELSE 0
                       /\ burst.next + burst.left = core.wr + DeltaWords
    /\ ~port.reading /\ ~port.ready =>
         core.index = 0 /\ ddr.what = "FB" /\ ddr.addr = core.wr /\ ddr.burst = DeltaWords
    /\ ~port.reading /\ port.ready => ~port.read_req

ClearInv == QuietOK /\ OwnOK /\ LongOK /\ RunsOK /\ WritesOK /\ MemoryOK /\ AddedOK /\ RefillOK

(* The inductive invariant of the frame buffer, with those before. *)
BufferInv == BufferFields /\ (Clear => ClearInv)

-----------------------------------------------------------------------------
(* What a clock of the core does to the frame buffer and to delta_FB.         *)

KeepsDelta ==
  /\ image' = image /\ delta_FB' = delta_FB
  /\ core'.delta = core.delta /\ core'.delta_req = core.delta_req /\ core'.index = core.index

(* No write is ordered in these states. *)
Stands ==
  /\ core.state \in {"S_Dispatcher", "S_Audio", "S_Blit_Header_Lz4", "S_Blit_Prepare_Lz4",
                     "S_Blit_Copy_Lz4", "S_Blit_Copy_End_Lz4"}
  /\ KeepsDelta /\ (ddr'.write => ddr.write)
  /\ core'.state \in Deltas => core.delta_req

Opens ==
  /\ At("S_Blit_Lz4") /\ ddr' = ddr
  /\ \/ KeepsDelta /\ (core'.state = "S_Dispatcher" \/ block_write_total # 0)
     \/ /\ block_write_total = 0 /\ core.frame_lz4 < core.frame_ddr /\ frame' = env.latch
        /\ image' = image /\ delta_FB' = ClearedFB /\ core'.index = 0 /\ core'.wr = 0
        /\ core'.delta = env.latch.delta /\ core'.delta_req = env.latch.delta

TakesOne(b) ==
  /\ Takes(b) /\ core'.wr = core.wr + 1
  /\ ddr'.write /\ ddr'.addr = core.wr /\ ddr'.data = Uncompressed
  /\ core'.delta = core.delta
  /\ IF core.delta THEN /\ core'.index = (core.index + 1) % BlocksSize
                        /\ core'.delta_req = (core.index = BlocksSize - 1)
                   ELSE core'.index = core.index /\ core'.delta_req = core.delta_req

TakesNone(b) ==
  /\ ~Takes(b) /\ core'.wr = core.wr /\ KeepsDelta
  /\ ddr'.write = (ddr.write /\ Busy(b)) /\ ddr'.addr = ddr.addr /\ ddr'.data = ddr.data

Draws(b) ==
  /\ At("S_Blit_Inflate_Lz4") /\ image' = image /\ delta_FB' = delta_FB
  /\ core'.state = IF pins.run \/ (ddr.write /\ Busy(b)) THEN core.state ELSE "S_Blit_End_Lz4"
  /\ pins'.run = (pins.run /\ ~reg.paused /\ ~reg.done /\ ~env.audio /\ env.synced /\ ~core.delta_req)
  /\ TakesOne(b) \/ TakesNone(b)

Closes ==
  /\ At("S_Blit_End_Lz4") /\ ~ddr'.write /\ delta_FB' = delta_FB
  /\ core'.delta = core.delta /\ core'.delta_req = core.delta_req /\ core'.index = core.index
  /\ core'.resume => env.audio
  /\ \/ /\ Ends /\ core'.wr = 0 /\ core'.frame_lz4 = core.frame_ddr
        /\ image' = IF Named.delta THEN Sum(image, Named.plain) ELSE Named.plain
     \/ /\ ~Ends /\ core'.wr = core.wr /\ image' = image
        /\ core'.state = "S_Blit_Prepare_Lz4" => ~core.delta_req
        /\ core'.state = "S_Delta_Prepare" => core.delta_req

Reads64(b) ==
  /\ At("S_Delta_Prepare") /\ image' = image /\ delta_FB' = delta_FB
  /\ core'.delta = core.delta /\ ~core'.delta_req /\ ddr'.write = ddr.write
  /\ IF ~Busy(b)
     THEN /\ core'.state = "S_Delta_Copy" /\ core'.index = 0
          /\ ddr'.what = "FB" /\ ddr'.addr = core.wr /\ ddr'.burst = DeltaWords
     ELSE core'.state = core.state /\ core'.index = core.index

Copies64(b) ==
  /\ At("S_Delta_Copy") /\ image' = image /\ ddr'.write = ddr.write
  /\ ddr'.what = ddr.what /\ ddr'.addr = ddr.addr /\ ddr'.burst = ddr.burst
  /\ core'.delta = core.delta /\ core'.delta_req = core.delta_req
  /\ IF port.ready
     THEN /\ delta_FB' = [delta_FB EXCEPT ![core.index] = port.dout]
          /\ IF Busy(b) THEN core'.index = (core.index + 1) % BlocksSize /\ core'.state = core.state
             ELSE core'.index = 0 /\ core'.state = "S_Blit_Copy_End_Lz4"
     ELSE core' = core /\ delta_FB' = delta_FB

BufferMoves(b) == Stands \/ Opens \/ Draws(b) \/ Closes \/ Reads64(b) \/ Copies64(b)

LEMMA StandsMove ==
  ASSUME FieldsOK, FeedFields, BufferFields, NEW b,
         \/ Dispatcher(b) \/ (\E more : Audio(more)) \/ (\E late : HeaderLz4(b, late))
         \/ PrepareLz4(b) \/ CopyLz4(b) \/ CopyEndLz4
  PROVE  Stands
<1>0. {"state", "delta", "delta_req", "index"} \subseteq DOMAIN core /\ "write" \in DOMAIN ddr
  BY DEF FieldsOK, FeedFields, BufferFields
<1>1. CASE Dispatcher(b)
  BY <1>0, <1>1 DEF Dispatcher, Stands, KeepsDelta, Deltas, At
<1>2. ASSUME NEW more, Audio(more)
      PROVE  Stands
  BY <1>0, <1>2 DEF Audio, Stands, KeepsDelta, Deltas, At
<1>3. ASSUME NEW late, HeaderLz4(b, late)
      PROVE  Stands
  <2>1. /\ core.state = "S_Blit_Header_Lz4" /\ image' = image /\ delta_FB' = delta_FB
        /\ ddr'.write = ddr.write
    BY <1>0, <1>3 DEF HeaderLz4, At
  <2> DEFINE looks == [core EXCEPT !.FB = late, !.vram_reset = ~env.synced]
             found == [looks EXCEPT !.auto = core.frame_lz4 < port.dout.frame]
             Alike(r) == /\ {"delta", "delta_req", "index"} \subseteq DOMAIN r
                         /\ r.delta = core.delta /\ r.delta_req = core.delta_req
                         /\ r.index = core.index
  <2>2. Alike(looks)
    BY <1>0
  <2>3. \/ core' = looks
        \/ core' = [found EXCEPT !.state = "S_Blit_Copy_End_Lz4"]
        \/ core' = [found EXCEPT !.state = "S_Blit_Lz4", !.abort = FALSE]
        \/ core' = [found EXCEPT
             !.state = IF late \/ env.synced THEN "S_Blit_Lz4" ELSE "S_Dispatcher",
             !.frame_ddr = port.dout.frame,
             !.abort = port.dout.abort /\ port.dout.told # pins.compressed_bytes]
    BY <1>3 DEF HeaderLz4, looks
  <2> HIDE DEF looks
  <2>4. Alike(found)
    BY <2>2
  <2> HIDE DEF found
  <2>5. Alike(core')
    BY <2>2, <2>3, <2>4
  <2>6. core'.state \notin Deltas
    BY <1>3, HeaderClock DEF Deltas
  <2> QED BY <2>1, <2>5, <2>6 DEF Stands, KeepsDelta
<1>4. CASE PrepareLz4(b)
  BY <1>0, <1>4 DEF PrepareLz4, Stands, KeepsDelta, Deltas, At
<1>5. CASE CopyLz4(b)
  BY <1>0, <1>5 DEF CopyLz4, Stands, KeepsDelta, Deltas, At
<1>6. CASE CopyEndLz4
  BY <1>0, <1>6 DEF CopyEndLz4, Stands, KeepsDelta, Deltas, At
<1> QED BY <1>1, <1>2, <1>3, <1>4, <1>5, <1>6

LEMMA OpensMove ==
  ASSUME FieldsOK, TakeFields, FeedFields, BufferFields, CountersOK, BlitLz4
  PROVE  Opens
<1> DEFINE blit  == core.frame_ddr > core.frame_lz4 /\ told > block_write_total
           next  == [core EXCEPT !.vram_reset = FALSE,
                     !.state = IF ~blit THEN "S_Dispatcher"
                               ELSE IF core.abort THEN "S_Blit_End_Lz4"
                                                  ELSE "S_Blit_Prepare_Lz4"]
           first == [next EXCEPT !.px = 0, !.wr = 0, !.index = 0,
                                 !.delta = env.latch.delta, !.delta_req = env.latch.delta]
<1>1. /\ next.delta = core.delta /\ next.delta_req = core.delta_req /\ next.index = core.index
      /\ DOMAIN next = DOMAIN core /\ (~blit => next.state = "S_Dispatcher")
  BY DEF FieldsOK
<1>2. /\ first.delta = env.latch.delta /\ first.delta_req = env.latch.delta
      /\ first.index = 0 /\ first.wr = 0
  <2> HIDE DEF next
  <2> QED BY <1>1 DEF TakeFields, FeedFields, BufferFields
<1>3. /\ At("S_Blit_Lz4") /\ ddr' = ddr /\ image' = image
      /\ core' = IF blit /\ block_write_total = 0 THEN first ELSE next
      /\ frame' = IF blit /\ block_write_total = 0 THEN env.latch ELSE frame
      /\ delta_FB' = IF blit /\ block_write_total = 0 THEN ClearedFB ELSE delta_FB
  BY DEF BlitLz4
<1>4. blit => core.frame_lz4 < core.frame_ddr
  BY DEF CountersOK
<1> HIDE DEF next, first, blit
<1> QED BY <1>1, <1>2, <1>3, <1>4 DEF Opens, KeepsDelta

LEMMA DrawsMove ==
  ASSUME FieldsOK, TakeFields, FeedFields, BufferFields, NEW b, NEW ready, InflateLz4(b, ready)
  PROVE  Draws(b)
<1> DEFINE waits == pins.run \/ (ddr.write /\ Busy(b))
           next  == [core EXCEPT !.state = IF waits THEN @ ELSE "S_Blit_End_Lz4"]
           taken == [next EXCEPT !.wr = @ + 1,
                       !.px = IF ~core.FB /\ env.synced THEN @ + 1 ELSE @]
           delta == [taken EXCEPT !.index = (@ + 1) % BlocksSize,
                                  !.delta_req = core.index = BlocksSize - 1]
           Has(r) == {"wr", "px", "state", "delta", "delta_req", "index"} \subseteq DOMAIN r
                     /\ r.delta = core.delta /\ r.state = next.state
<1>1. /\ Has(next) /\ next.wr = core.wr /\ next.delta_req = core.delta_req /\ next.index = core.index
      /\ next.state = IF waits THEN core.state ELSE "S_Blit_End_Lz4"
  BY DEF FieldsOK, TakeFields, FeedFields, BufferFields
<1> HIDE DEF next
<1>2. Has(taken) /\ taken.wr = core.wr + 1 /\ taken.delta_req = core.delta_req
      /\ taken.index = core.index
  BY <1>1
<1> HIDE DEF taken
<1>3. /\ Has(delta) /\ delta.wr = core.wr + 1 /\ delta.index = (core.index + 1) % BlocksSize
      /\ delta.delta_req = (core.index = BlocksSize - 1)
  BY <1>2
<1> HIDE DEF delta
<1>4. IF Takes(b) THEN core' = IF core.delta THEN delta ELSE taken ELSE core' = next
  BY DEF InflateLz4, next, taken, delta
<1>5. /\ At("S_Blit_Inflate_Lz4") /\ image' = image /\ delta_FB' = delta_FB
      /\ pins'.run = (pins.run /\ ~reg.paused /\ ~reg.done /\ ~env.audio /\ env.synced
                      /\ ~core.delta_req)
  BY DEF InflateLz4, FieldsOK
<1>6. IF Takes(b)
      THEN ddr'.write /\ ddr'.addr = core.wr /\ ddr'.data = Uncompressed
      ELSE ddr'.write = (ddr.write /\ Busy(b)) /\ ddr'.addr = ddr.addr /\ ddr'.data = ddr.data
  <2>1. IF Takes(b)
        THEN ddr' = [ddr EXCEPT !.write = TRUE, !.addr = core.wr, !.burst = 1, !.data = Uncompressed]
        ELSE ddr' = [ddr EXCEPT !.write = @ /\ Busy(b)]
    BY DEF InflateLz4
  <2> HIDE DEF Takes
  <2> QED BY <2>1 DEF FeedFields, BufferFields
<1>7. core'.state = IF waits THEN core.state ELSE "S_Blit_End_Lz4"
  BY <1>1, <1>2, <1>3, <1>4
<1>8. TakesOne(b) \/ TakesNone(b)
  <2>1. CASE Takes(b)
    BY <1>2, <1>3, <1>4, <1>6, <2>1 DEF TakesOne
  <2>2. CASE ~Takes(b)
    BY <1>1, <1>4, <1>5, <1>6, <2>2 DEF TakesNone, KeepsDelta
  <2> QED BY <2>1, <2>2
<1> QED BY <1>5, <1>7, <1>8 DEF Draws

LEMMA ClosesMove ==
  ASSUME FieldsOK, TakeFields, FeedFields, BufferFields, EndLz4
  PROVE  Closes
<1>1. At("S_Blit_End_Lz4") /\ ~ddr'.write /\ delta_FB' = delta_FB
  BY DEF EndLz4, BufferFields
<1>2. CASE Ends
  <2>1. core' = [core EXCEPT !.state = "S_Dispatcher", !.frame_lz4 = core.frame_ddr,
                       !.wr = 0, !.px = 0, !.resume = FALSE, !.abort = FALSE,
                       !.vram_reset = core.px > 0 /\ (~env.synced \/ core.px # Words)]
    BY <1>2 DEF EndLz4
  <2>2. /\ core'.delta = core.delta /\ core'.delta_req = core.delta_req
        /\ core'.index = core.index /\ ~core'.resume /\ core'.wr = 0
        /\ core'.frame_lz4 = core.frame_ddr
    BY <2>1 DEF FieldsOK, TakeFields, FeedFields, BufferFields
  <2> QED BY <1>1, <1>2, <2>2 DEF Closes, EndLz4
<1>3. CASE ~Ends
  <2>1. /\ core' = [core EXCEPT !.resume = env.audio,
                       !.state = IF env.audio THEN "S_Dispatcher"
                                 ELSE IF core.delta_req THEN "S_Delta_Prepare"
                                                        ELSE "S_Blit_Prepare_Lz4"]
        /\ image' = image
    BY <1>3 DEF EndLz4
  <2>2. /\ core'.delta = core.delta /\ core'.delta_req = core.delta_req
        /\ core'.index = core.index /\ core'.resume = env.audio /\ core'.wr = core.wr
        /\ core'.state = IF env.audio THEN "S_Dispatcher"
                                 ELSE IF core.delta_req THEN "S_Delta_Prepare"
                                                        ELSE "S_Blit_Prepare_Lz4"
    BY <2>1 DEF FieldsOK, TakeFields, FeedFields, BufferFields
  <2> QED BY <1>1, <1>3, <2>1, <2>2 DEF Closes
<1> QED BY <1>2, <1>3

LEMMA Reads64Move ==
  ASSUME FieldsOK, FeedFields, BufferFields, NEW b, DeltaPrepare(b)
  PROVE  Reads64(b)
BY DEF DeltaPrepare, Reads64, FieldsOK, FeedFields, BufferFields, At

LEMMA Copies64Move ==
  ASSUME FieldsOK, FeedFields, BufferFields, NEW b, DeltaCopy(b)
  PROVE  Copies64(b)
BY DEF DeltaCopy, Copies64, FieldsOK, FeedFields, BufferFields, At

LEMMA CoreDraws ==
  ASSUME BlitInv, TakeInv, FeedFields, BufferFields, NEW b, NEW good, CoreClock(b, good)
  PROVE  BufferMoves(b)
<1>0. FieldsOK /\ TakeFields /\ CountersOK
  BY DEF BlitInv, TakeInv
<1>1. (\/ Dispatcher(b) \/ (\E more : Audio(more)) \/ (\E late : HeaderLz4(b, late))
       \/ PrepareLz4(b) \/ CopyLz4(b) \/ CopyEndLz4) => BufferMoves(b)
  BY <1>0, StandsMove DEF BufferMoves
<1>2. BlitLz4 \/ EndLz4 => BufferMoves(b)
  BY <1>0, OpensMove, ClosesMove DEF BufferMoves
<1>3. (\E ready : InflateLz4(b, ready)) => BufferMoves(b)
  BY <1>0, DrawsMove DEF BufferMoves
<1>4. DeltaPrepare(b) \/ DeltaCopy(b) => BufferMoves(b)
  BY <1>0, Reads64Move, Copies64Move DEF BufferMoves
<1> QED BY <1>1, <1>2, <1>3, <1>4 DEF CoreClock

LEMMA BufferFieldsClock ==
  ASSUME FieldsOK, BufferFields, NEW b, NEW good, CoreClock(b, good)
  PROVE  BufferFields' /\ env'.sounds = env.sounds
<1>1. env'.sounds = env.sounds /\ "sounds" \in DOMAIN env'
  <2>1. CASE Quiet
    BY <2>1 DEF Quiet, BufferFields
  <2>2. CASE Dispatcher(b)
    BY <2>2 DEF Dispatcher, BufferFields
  <2>3. Quiet \/ Dispatcher(b)
    BY DEF CoreClock, Audio, HeaderLz4, BlitLz4, PrepareLz4, CopyLz4, CopyEndLz4,
           InflateLz4, EndLz4, DeltaPrepare, DeltaCopy
  <2> QED BY <2>1, <2>2, <2>3
<1> QED BY <1>1, DomainsClock DEF BufferFields

(* A frame begins. *)
Opening ==
  /\ At("S_Blit_Lz4") /\ ddr' = ddr /\ block_write_total = 0
  /\ core.frame_lz4 < core.frame_ddr /\ frame' = env.latch
  /\ image' = image /\ delta_FB' = ClearedFB /\ core'.index = 0 /\ core'.wr = 0
  /\ core'.delta = env.latch.delta /\ core'.delta_req = env.latch.delta

(* What BufferInv says of the clocks in which FramebufferWhole is asked for.  *)
LEMMA ClearClock ==
  ASSUME FieldsOK, FeedFields, BufferFields, Clear', NEW b, NEW good, CoreClock(b, good)
  PROVE  Clear
BY EnvMoves, BufferFieldsClock DEF Clear, Calm, KeepsEnv

LEMMA QuietClock ==
  ASSUME BlitInv, TakeInv, FeedFields, BufferFields, QuietOK, NEW b, NEW good, CoreClock(b, good)
  PROVE  QuietOK'
<1>0. FieldsOK /\ ~env.audio /\ ~core.resume /\ core.state # "S_Audio"
  BY DEF BlitInv, QuietOK, At
<1>1. CASE Dispatcher(b)
  BY <1>0, <1>1 DEF Dispatcher, FieldsOK, FeedFields, QuietOK, At
<1>2. CASE EndLz4
  <2>1. Closes
    BY <1>0, <1>2, ClosesMove DEF TakeInv
  <2>2. env'.audio = env.audio /\ core'.state # "S_Audio"
    BY <1>0, <1>2, EndClock, EnvMoves DEF EndLz4, At
  <2> QED BY <1>0, <2>1, <2>2 DEF Closes, QuietOK, At
<1>3. CASE ~Dispatcher(b) /\ ~EndLz4
  <2>1. core'.resume = core.resume /\ core'.state # "S_Audio"
    <3>1. ASSUME NEW late, HeaderLz4(b, late)
          PROVE  core'.resume = core.resume /\ core'.state # "S_Audio"
      BY <1>0, <3>1, HeaderClock DEF Keeps
    <3>2. CASE BlitLz4 \/ PrepareLz4(b) \/ CopyLz4(b) \/ CopyEndLz4
      BY <1>0, <3>2, BlitClock, PrepareClock, CopyClock, CopyEndClock DEF Keeps
    <3>3. ASSUME NEW ready, InflateLz4(b, ready)
          PROVE  core'.resume = core.resume /\ core'.state # "S_Audio"
      BY <1>0, <3>3, InflateClock DEF Keeps
    <3>4. CASE DeltaPrepare(b) \/ DeltaCopy(b)
      BY <1>0, <3>4, DeltaPrepareClock, DeltaCopyClock DEF Keeps
    <3>5. ~\E more : Audio(more)
      BY <1>0 DEF Audio, At
    <3> QED BY <1>3, <3>1, <3>2, <3>3, <3>4, <3>5 DEF CoreClock
  <2>2. ~At("S_Dispatcher")
    BY <1>3, <1>0 DEF CoreClock, Audio, HeaderLz4, BlitLz4, PrepareLz4, CopyLz4, CopyEndLz4,
         InflateLz4, DeltaPrepare, DeltaCopy, At
  <2>3. env'.audio = env.audio
    BY <1>0, <2>2, EnvMoves
  <2> QED BY <1>0, <2>1, <2>3 DEF QuietOK, At
<1> QED BY <1>1, <1>2, <1>3

(* The numbers of the frames change when a header is read and at the end of a *)
(* frame.                                                                     *)
LEMMA NumbersClock ==
  ASSUME BlitInv, NEW b, NEW good, CoreClock(b, good)
  PROVE  \/ core'.frame_ddr = core.frame_ddr /\ core'.frame_lz4 = core.frame_lz4
         \/ At("S_Blit_Header_Lz4") /\ core'.frame_lz4 = core.frame_lz4 /\ block_write_total = 0
         \/ /\ At("S_Blit_End_Lz4") /\ Ends /\ core'.state = "S_Dispatcher" /\ pins'.reset
            /\ core'.frame_ddr = core.frame_ddr /\ core'.frame_lz4 = core.frame_ddr
<1>0. FieldsOK
  BY DEF BlitInv
<1>1. ASSUME NEW late, HeaderLz4(b, late)
      PROVE  /\ At("S_Blit_Header_Lz4") /\ core'.frame_lz4 = core.frame_lz4
             /\ core'.frame_ddr = core.frame_ddr \/ block_write_total = 0
  <2>1. At("S_Blit_Header_Lz4")
    BY <1>1 DEF HeaderLz4
  <2> QED BY <1>0, <1>1, <2>1, HeaderClock, HeaderTaken DEF Keeps
<1>2. CASE BlitLz4 \/ PrepareLz4(b) \/ CopyLz4(b) \/ CopyEndLz4
  BY <1>0, <1>2, BlitClock, PrepareClock, CopyClock, CopyEndClock DEF Keeps
<1>3. ASSUME NEW ready, InflateLz4(b, ready)
      PROVE  core'.frame_ddr = core.frame_ddr /\ core'.frame_lz4 = core.frame_lz4
  BY <1>0, <1>3, InflateClock DEF Keeps
<1>4. CASE DeltaPrepare(b) \/ DeltaCopy(b)
  BY <1>0, <1>4, DeltaPrepareClock, DeltaCopyClock DEF Keeps
<1>5. CASE Dispatcher(b) \/ \E more : Audio(more)
  BY <1>0, <1>5, DispatcherClock, AudioClock DEF Keeps
<1>6. CASE EndLz4
  <2>1. At("S_Blit_End_Lz4") /\ core'.frame_ddr = core.frame_ddr
    BY <1>0, <1>6, EndClock DEF EndLz4
  <2>2. Ends => core'.state = "S_Dispatcher" /\ pins'.reset /\ core'.frame_lz4 = core.frame_ddr
    <3> HIDE DEF Ends
    <3> QED BY <1>0, <1>6 DEF EndLz4, FieldsOK
  <2>3. ~Ends => core'.frame_lz4 = core.frame_lz4
    <3>1. ~Ends => \E r, s : core' = [core EXCEPT !.resume = r, !.state = s]
      BY <1>6 DEF EndLz4
    <3> HIDE DEF Ends
    <3> QED BY <1>0, <3>1 DEF FieldsOK
  <2> QED BY <2>1, <2>2, <2>3
<1> QED BY <1>1, <1>2, <1>3, <1>4, <1>5, <1>6 DEF CoreClock

(* A frame that is in a frame buffer after a clock was so before, or begins.  *)
LEMMA OpeningClock ==
  ASSUME BlitInv, TakeInv, FeedFields, CalmInv, BufferFields,
         NEW b \in BOOLEAN, NEW d \in BOOLEAN, NEW good, Clock(b, d, good), InFrame'
  PROVE  \/ frame' = frame /\ InFrame /\ ~Opening
         \/ Opening /\ ~InFrame
<1>0. CoreClock(b, good) /\ PinsOK
  BY DEF Clock, BlitInv
<1>1. BufferMoves(b)
  BY <1>0, CoreDraws
<1>2. \/ frame' = frame /\ InFrame
      \/ frame' = frame /\ ~InFrame'
      \/ pins'.reset /\ block_write_total = 0 /\ At("S_Blit_Lz4")
  BY FrameClock
<1>3. Opening => ~InFrame
  BY DEF Opening, InFrame, Begun, At
<1>4. CASE pins'.reset /\ block_write_total = 0 /\ At("S_Blit_Lz4")
  <2>1. Opens
    BY <1>1, <1>4 DEF BufferMoves, Stands, Opens, Draws, Closes, Reads64, Copies64, At
  <2>2. core'.state # "S_Dispatcher"
    BY <1>4 DEF InFrame, Resetting, At
  <2> QED BY <1>3, <1>4, <2>1, <2>2 DEF Opens, Opening
<1> QED BY <1>2, <1>3, <1>4

LEMMA DeltaKept ==
  ASSUME NEW b, BufferMoves(b), ~Opening
  PROVE  core'.delta = core.delta
BY DEF BufferMoves, Stands, Opens, Draws, TakesOne, TakesNone, Closes, Reads64, Copies64, KeepsDelta, Opening

LEMMA OwnClock ==
  ASSUME BlitInv, TakeInv, FeedFields, CalmInv, BufferFields, OwnOK, ~env.hps,
         NEW b \in BOOLEAN, NEW d \in BOOLEAN, NEW good, Clock(b, d, good)
  PROVE  OwnOK'
<1> SUFFICES ASSUME InFrame'
             PROVE  /\ core'.frame_lz4 < core'.frame_ddr /\ frame' = Named'
                    /\ core'.delta = frame'.delta
  BY DEF OwnOK
<1>0. CoreClock(b, good) /\ FieldsOK /\ LatchesOK
  BY DEF Clock, BlitInv
<1>1. KeepsEnv
  BY <1>0, EnvClock
<1>2. \/ core'.frame_ddr = core.frame_ddr /\ core'.frame_lz4 = core.frame_lz4
      \/ At("S_Blit_Header_Lz4") /\ core'.frame_lz4 = core.frame_lz4 /\ block_write_total = 0
  BY <1>0, NumbersClock DEF InFrame, Resetting, At
<1>3. CASE Opening
  <2>1. core'.frame_ddr = core.frame_ddr /\ core'.frame_lz4 = core.frame_lz4
    BY <1>2, <1>3 DEF Opening, At
  <2>2. core.frame_ddr = env.sent /\ env.latch = env.next
    BY <1>0, <1>3 DEF LatchesOK, Opening
  <2> QED BY <1>1, <1>3, <2>1, <2>2 DEF Opening, Named, KeepsEnv
<1>4. CASE frame' = frame /\ InFrame /\ ~Opening
  <2>1. core'.frame_ddr = core.frame_ddr /\ core'.frame_lz4 = core.frame_lz4
    BY <1>2, <1>4 DEF InFrame, Begun, At
  <2>2. core'.delta = core.delta
    BY <1>0, <1>4, CoreDraws, DeltaKept
  <2>3. Named' = Named
    BY <1>1, <2>1 DEF Named, KeepsEnv
  <2> QED BY <1>4, <2>1, <2>2, <2>3 DEF OwnOK
<1> QED BY <1>3, <1>4, OpeningClock

(* The decoder in a frame has the long of the frame out, or none.             *)
LEMMA LongOKClock ==
  ASSUME BlitInv, TakeInv, FeedFields, CalmInv, LongOK,
         NEW b \in BOOLEAN, NEW d \in BOOLEAN, NEW good, Clock(b, d, good)
  PROVE  LongOK'
<1> SUFFICES ASSUME InFrame', ~pins'.reset
             PROVE  LongIs'
  BY DEF LongOK
<1>0. /\ CalmOK /\ IdleOK /\ DecodedOK /\ FrameOK /\ RingOK /\ RegOK /\ PinsOK /\ StartedOK
      /\ Decoder(b) /\ block_write_total \in Nat
  BY DEF Clock, CalmInv, BlitInv, CountersOK, TakeInv
<1>1. InFrame /\ frame' = frame
  BY FrameClock
<1>2. CASE ~pins.reset
  <2>1. Decoded
    BY <1>0, <1>1, <1>2 DEF DecodedOK
  <2>2. Fed
    BY <1>0, <1>1, <1>2, <2>1 DEF Fed, RingOK, FrameOK, IsFrame, Size, Decoded
  <2>3. LongIs
    BY <1>1, <1>2 DEF LongOK
  <2> QED BY <1>0, <1>1, <2>1, <2>2, <2>3, LongClock
<1>3. CASE pins.reset
  <2>1. block_write_total = 0 /\ ~Resetting
    BY <1>0, <1>1, <1>3 DEF InFrame, Resetting, PinsOK, StartedOK, CalmOK, At
  <2>2. Full(reg) /\ In("S_Idle") /\ ~Ready
    BY <1>0, <2>1 DEF IdleOK, Ready
  <2>3. ~Decode
    BY <2>2, StateRuns DEF Idle, In
  <2>4. ~Before.valid /\ ~Held.valid /\ "valid" \in DOMAIN Before /\ "valid" \in DOMAIN Held
    BY <1>3 DEF Before, Held, Cleared, PowerOn
  <2>5. \E r : ~r.valid /\ "valid" \in DOMAIN r /\ \E v : reg' = [r EXCEPT !.paused = v]
    BY <1>0, <2>3, <2>4, DecoderRuns DEF Pause
  <2>6. ~reg'.valid
    BY <2>5
  <2> QED BY <2>6 DEF LongIs
<1> QED BY <1>2, <1>3

(* A decoder that waits for a byte that is not there does nothing else.       *)
LEMMA WaitsOn ==
  ASSUME Decoded, Fed, Wants, ~Ready
  PROVE  ~Decode
<1> SUFFICES ASSUME Decode
             PROVE  FALSE
  OBVIOUS
<1>p. PICK seq, shade : InBlocks(frame, seq, shade) /\ \E k \in 1..Len(seq) : AtBlock(seq, shade, k)
  BY DEF Decoded
<1>k. PICK k \in 1..Len(seq) : AtBlock(seq, shade, k)
  BY <1>p
<1> DEFINE s    == seq[k]
           at   == CodedTo(seq, shade, k)
           from == PlainTo(seq, shade, k)
<1>l. Located(s, at, from) /\ Where(s, at, from)
  BY <1>p, <1>k, Block DEF AtBlock
<1> HIDE DEF s, at, from
<1>n. MatchLength(s) \in Nat
  BY <1>l, BlockNumbers
<1>1. CASE reg.state \in {"S_Idle", "S_Read_Token", "S_Read_Literals_Length"}
  BY <1>1, StateRuns DEF Idle, ReadToken, ReadLiteralsLength, In
<1>2. CASE reg.state \in {"S_Read_Literals", "S_Read_Literals_64"} /\ ~Readed
  BY <1>2, StateRuns DEF LiteralsDone, ReadLiterals, ReadLiterals64, In
<1>3. CASE In("S_Read_Match_Offset") /\ ~LastBlock /\ reg.ML >= Nibble - 1
  <2>1. AtMatchOffset(s, at, from)
    BY <1>3, <1>l DEF Where, In, FrameDone, AtIdle, AtToken, AtLiteralsLength, AtLiterals,
           AtLiterals64, AtOffset, AtMatchLength, AtCopy, LastCopied
  <2>2. reg.ML \in 0..Nibble - 1
    BY <1>n, <2>1, LengthBytes DEF AtMatchOffset
  <2>3. ~(reg.ML < Nibble - 1)
    BY <1>3, <2>2, Numbers
  <2> QED BY <1>3, <2>3, StateRuns DEF ReadMatchOffset
<1>4. CASE In("S_Read_Match_Length") /\ reg.data >= Ones
  <2>1. AtMatchLength(s, at, from)
    BY <1>4, <1>l DEF Where, In, FrameDone, AtIdle, AtToken, AtLiteralsLength, AtLiterals,
           AtLiterals64, AtOffset, AtMatchOffset, AtCopy, LastCopied
  <2> DEFINE len == Len(Length(MatchLength(s)))
  <2>2. PICK j \in 1..len : reg.data = frame.coded[Offs(s, at) + 2 + j]
    BY <2>1 DEF AtMatchLength
  <2>3. s.match # 0 /\ MatchLength(s) >= Nibble - 1
    BY <2>1 DEF AtMatchLength
  <2>4. reg.data = Length(MatchLength(s))[j]
    BY <1>l, <2>2, <2>3, BlockBytes
  <2>5. reg.data = Ones \/ reg.data \in Nat
    BY <1>n, <2>3, <2>4, LengthBytes, ZenonT(60)
  <2>6. ~(reg.data < Ones)
    BY <1>4, <2>5, Numbers
  <2> QED BY <1>4, <2>6, StateRuns DEF ReadMatchLength
<1> QED BY <1>1, <1>2, <1>3, <1>4 DEF Wants

(* What a decoder that pauses waits for it still waits for.                   *)
LEMMA PauseWants ==
  ASSUME Full(reg), ~pins.reset, pins'.compressed_bytes = pins.compressed_bytes, Pause
  PROVE  Wants' /\ ~reg'.valid
<1>1. /\ reg'.state = reg.state /\ reg'.data = reg.data /\ reg'.ML = reg.ML
      /\ reg'.offset = reg.offset /\ reg'.total = reg.total /\ ~reg'.valid
  BY DEF Pause, Held, Before, Full, Fields
<1>2. Readed' = Readed /\ LastBlock' = LastBlock
  BY <1>1 DEF Readed, LastBlock
<1> QED BY <1>1, <1>2 DEF Pause, Wants, In

LEMMA RunsClock ==
  ASSUME BlitInv, TakeInv, FeedFields, CalmInv, BufferFields, QuietOK, RunsOK,
         NEW b \in BOOLEAN, NEW d \in BOOLEAN, NEW good, Clock(b, d, good)
  PROVE  RunsOK'
<1> SUFFICES ASSUME core'.state = "S_Blit_Inflate_Lz4"
             PROVE  /\ reg'.paused => Wants' /\ ~reg'.valid
                    /\ ~pins'.run => core'.delta_req \/ ~reg'.valid
  BY DEF RunsOK, At
<1>0. /\ CalmOK /\ DecodedOK /\ FrameOK /\ RingOK /\ DryOK /\ RegOK /\ PinsOK
      /\ Decoder(b) /\ CoreClock(b, good) /\ block_write_total \in Nat
  BY DEF Clock, CalmInv, BlitInv, CountersOK
<1>1. Moves(b)
  BY <1>0, CoreMoves
<1>2. CopyEnds \/ Inflating(b)
  BY <1>1 DEF Moves, Idles, Looks, Begins, Asks, Fills, EndsFrame, Refills
<1>3. /\ core.state \in {"S_Blit_Copy_End_Lz4", "S_Blit_Inflate_Lz4"} /\ frame' = frame
      /\ pins'.compressed_bytes = pins.compressed_bytes
  BY <1>2 DEF CopyEnds, Inflating, SameFrame, At
<1>4. InFrame /\ ~pins.reset
  BY <1>0, <1>3 DEF InFrame, Resetting, Begun, PinsOK, At
<1>5. Decoded
  BY <1>0, <1>4 DEF DecodedOK
<1>6. Fed
  BY <1>0, <1>4, <1>5 DEF Fed, RingOK, FrameOK, IsFrame, Size, Decoded
<1>7. reg'.paused => Wants' /\ ~reg'.valid
  <2>1. reg'.paused => Pause
    BY <1>0, TakesClock DEF TakeInv, TakeFields, TakeCounters, RegTakes
  <2> QED BY <1>3, <1>4, <1>5, <2>1, PauseWants DEF Decoded
<1>8. ASSUME ~pins'.run
      PROVE  core'.delta_req \/ ~reg'.valid
  <2>1. Inflating(b)
    BY <1>2, <1>8 DEF CopyEnds
  <2>2. \/ ~pins.run \/ reg.paused \/ reg.done \/ core.delta_req
    BY <1>0, <1>8, <2>1 DEF Inflating, QuietOK, CalmOK
  <2>3. CASE core.delta_req
    BY <2>1, <2>3 DEF Inflating
  <2>4. CASE reg.done
    <3>1. Decoded' /\ reg'.done
      BY <1>0, <1>3, <1>4, <2>4, GoesOn
    <3> QED BY <3>1 DEF Decoded, DoneOK
  <2>5. CASE reg.paused
    <3>1. ~Ready /\ Wants /\ ~reg.valid
      BY <1>0, <2>1, <2>5 DEF DryOK, RunsOK, Inflating
    <3>2. ~Decode
      BY <1>5, <1>6, <3>1, WaitsOn
    <3>3. Pause \/ reg' = [Before EXCEPT !.paused = FALSE]
      BY <1>0, <3>2, DecoderRuns
    <3> QED BY <1>4, <1>5, <3>1, <3>3 DEF Pause, Held, Before, Decoded, Full, Fields
  <2>6. CASE ~pins.run /\ ~core.delta_req
    <3>1. ~reg.valid
      BY <2>1, <2>6 DEF RunsOK, Inflating
    <3>2. reg' = [Before EXCEPT !.paused = FALSE]
      BY <1>0, <2>6 DEF Decoder
    <3> QED BY <1>4, <1>5, <3>1, <3>2 DEF Before, Decoded, Full, Fields
  <2> QED BY <2>2, <2>3, <2>4, <2>5, <2>6
<1> QED BY <1>7, <1>8

(* When the core leaves the inflation it orders no write. *)
LEMMA LeavesInflate ==
  ASSUME RunsOK, NEW b, Draws(b), core'.state # "S_Blit_Inflate_Lz4"
  PROVE  TakesNone(b) /\ ~ddr'.write /\ ~pins.run
<1>1. At("S_Blit_Inflate_Lz4") /\ ~pins.run /\ ~(ddr.write /\ Busy(b))
  BY DEF Draws, At
<1>2. ~Takes(b)
  BY <1>1 DEF RunsOK, Takes
<1> QED BY <1>1, <1>2 DEF Draws, TakesOne, TakesNone

LEMMA WritesClock ==
  ASSUME BlitInv, TakeInv, FeedFields, BufferFields, RunsOK, WritesOK,
         NEW b \in BOOLEAN, NEW d \in BOOLEAN, NEW good, Clock(b, d, good)
  PROVE  WritesOK'
<1>0. CoreClock(b, good) /\ Port(b, d)
  BY DEF Clock
<1>1. BufferMoves(b) /\ Moves(b)
  BY <1>0, CoreDraws, CoreMoves DEF BlitInv, TakeInv
<1>2. ddr'.write => core'.state = "S_Blit_Inflate_Lz4"
  <2>1. CASE Draws(b)
    BY <2>1, LeavesInflate
  <2>2. CASE ~Draws(b)
    BY <1>1, <2>2 DEF BufferMoves, Stands, Opens, Opening, Closes, Reads64, Copies64, WritesOK, At
  <2> QED BY <2>1, <2>2
<1>3. core'.state = "S_Delta_Copy" => port'.cmd # "write"
  <2> SUFFICES ASSUME core'.state = "S_Delta_Copy"
               PROVE  port'.cmd # "write"
    OBVIOUS
  <2>1. core.state \in {"S_Delta_Prepare", "S_Delta_Copy"}
    BY <1>1 DEF Moves, Idles, Looks, Begins, Asks, Fills, CopyEnds, Inflating, EndsFrame, Refills, At
  <2>2. ~ddr.write
    BY <2>1 DEF WritesOK, At
  <2>3. CASE At("S_Delta_Copy")
    BY <1>0, <2>2, <2>3 DEF Port, WritesOK
  <2>4. CASE At("S_Delta_Prepare")
    <3>1. ~b
      BY <1>1, <2>4 DEF BufferMoves, Stands, Opens, Draws, Closes, Reads64, Copies64, Busy, At
    <3> QED BY <1>0, <2>2, <3>1 DEF Port
  <2> QED BY <2>1, <2>3, <2>4 DEF At
<1>4. port'.ready => port'.cmd = "none"
  BY <1>0 DEF Port
<1> QED BY <1>2, <1>3, <1>4 DEF WritesOK, At

(* What a clock of the port makes of the words on their way: the one ordered  *)
(* is on its way when the port does not wait.                                 *)
LEMMA PortStores ==
  ASSUME NEW b \in BOOLEAN, NEW d \in BOOLEAN, Port(b, d),
         ddr.write => ~port.reading /\ ~port.read_req, NEW n
  PROVE  IF ddr.write /\ b THEN Behind(n)' = Behind(n) /\ (Passed(n)' <=> Passed(n))
                           ELSE Behind(n)' = Stored(n) /\ (Passed(n)' <=> Present(n))
<1>1. CASE b
  <2>1. /\ port'.cmd = port.cmd /\ port'.at = port.at /\ port'.data = port.data /\ fb' = fb
    BY <1>1 DEF Port
  <2> QED BY <1>1, <2>1 DEF Behind, Passed, Stored, Present, Memory
<1>2. CASE ~b
  <2>1. fb' = IF port.cmd = "write"
              THEN [m \in DOMAIN fb \cup {port.at} |-> IF m = port.at THEN port.data ELSE fb[m]]
              ELSE fb
    BY <1>2 DEF Port
  <2>2. /\ Memory("FB", n)' = Behind(n)
        /\ n \in DOMAIN fb' <=> Passed(n)
    BY <2>1 DEF Behind, Passed, Memory
  <2>3. CASE ddr.write
    <3>1. port'.cmd = "write" /\ port'.at = ddr.addr /\ port'.data = ddr.data
      BY <1>2, <2>3 DEF Port
    <3> QED BY <1>2, <2>2, <2>3, <3>1 DEF Behind, Passed, Stored, Present
  <2>4. CASE ~ddr.write
    <3>1. port'.cmd # "write"
      BY <1>2, <2>4 DEF Port
    <3> QED BY <1>2, <2>2, <2>4, <3>1 DEF Behind, Passed, Stored, Present
  <2> QED BY <2>3, <2>4
<1> QED BY <1>1, <1>2

(* What a clock makes of the words of the frame buffer, with those on their   *)
(* way.                                                                       *)
LEMMA StoredClock ==
  ASSUME BlitInv, TakeInv, FeedFields, BufferFields, RunsOK, WritesOK,
         NEW b \in BOOLEAN, NEW d \in BOOLEAN, NEW good, Clock(b, d, good), NEW n
  PROVE  IF At("S_Blit_Inflate_Lz4") /\ TakesOne(b)
         THEN /\ Stored(n)' = IF n = core.wr THEN Uncompressed ELSE Stored(n)
              /\ Present(n)' <=> n = core.wr \/ Present(n)
         ELSE Stored(n)' = Stored(n) /\ (Present(n)' <=> Present(n))
<1>0. CoreClock(b, good) /\ Port(b, d)
  BY DEF Clock
<1>1. BufferMoves(b)
  BY <1>0, CoreDraws
<1>2. ddr.write => At("S_Blit_Inflate_Lz4") /\ ~port.reading /\ ~port.read_req
  BY DEF WritesOK, BlitInv, PortOK, Reading, At
<1>3. IF ddr.write /\ b THEN Behind(n)' = Behind(n) /\ (Passed(n)' <=> Passed(n))
                        ELSE Behind(n)' = Stored(n) /\ (Passed(n)' <=> Present(n))
  BY <1>0, <1>2, PortStores
<1>4. CASE At("S_Blit_Inflate_Lz4") /\ TakesOne(b)
  <2>1. ~(ddr.write /\ b)
    BY <1>4 DEF TakesOne, Takes, Busy
  <2>2. ddr'.write /\ ddr'.addr = core.wr /\ ddr'.data = Uncompressed
    BY <1>4 DEF TakesOne
  <2> QED BY <1>3, <1>4, <2>1, <2>2 DEF Stored, Present
<1>5. CASE At("S_Blit_Inflate_Lz4") /\ ~TakesOne(b)
  <2>1. TakesNone(b)
    BY <1>1, <1>5 DEF BufferMoves, Stands, Opens, Draws, Closes, Reads64, Copies64, At
  <2>2. ddr'.write = (ddr.write /\ b) /\ ddr'.addr = ddr.addr /\ ddr'.data = ddr.data
    BY <1>2, <2>1 DEF TakesNone, Busy
  <2> QED BY <1>3, <1>5, <2>2 DEF Stored, Present
<1>6. CASE ~At("S_Blit_Inflate_Lz4")
  <2>1. ~ddr.write /\ ~ddr'.write
    BY <1>1, <1>2, <1>6 DEF BufferMoves, Stands, Opens, Draws, Closes, Reads64, Copies64
  <2> QED BY <1>3, <1>6, <2>1 DEF Stored, Present
<1> QED BY <1>4, <1>5, <1>6

(* The count of the longs taken, and what the frames before left.             *)
LEMMA WrClock ==
  ASSUME BlitInv, TakeInv, FeedFields, BufferFields, NEW b, NEW good, CoreClock(b, good)
  PROVE  \/ Draws(b) /\ TakesOne(b) /\ image' = image
         \/ At("S_Blit_End_Lz4") /\ Closes /\ Ends
         \/ /\ ~(At("S_Blit_Inflate_Lz4") /\ TakesOne(b)) /\ ~(At("S_Blit_End_Lz4") /\ Ends)
            /\ core'.wr = core.wr /\ image' = image
<1>1. BufferMoves(b) /\ Moves(b)
  BY CoreDraws, CoreMoves
<1>2. CASE Stands
  <2>1. KeepsTaken
    BY <1>1, <1>2 DEF Stands, Moves, Idles, Looks, Begins, Asks, Fills, CopyEnds, Inflating,
           EndsFrame, Refills, SameFrame, At
  <2> QED BY <1>2, <2>1 DEF Stands, KeepsDelta, KeepsTaken, At
<1>3. CASE Opens
  <2>1. core'.wr = core.wr \/ (core'.wr = 0 /\ block_write_total = 0)
    BY <1>1, <1>3 DEF Opens, Moves, Idles, Looks, Begins, Asks, Fills, CopyEnds, Inflating,
           EndsFrame, Refills, SameFrame, KeepsTaken, At
  <2>2. core'.wr = core.wr
    BY <2>1 DEF TakeInv, StartedOK
  <2> QED BY <1>3, <2>2 DEF Opens, KeepsDelta, At
<1>4. CASE Draws(b)
  BY <1>4 DEF Draws, TakesNone, At
<1>5. CASE Closes
  BY <1>5 DEF Closes, At
<1>6. CASE Reads64(b) \/ Copies64(b)
  <2>1. KeepsTaken
    BY <1>1, <1>6 DEF Reads64, Copies64, Moves, Idles, Looks, Begins, Asks, Fills, CopyEnds,
           Inflating, EndsFrame, Refills, SameFrame, At
  <2> QED BY <1>6, <2>1 DEF Reads64, Copies64, KeepsTaken, At
<1> QED BY <1>1, <1>2, <1>3, <1>4, <1>5, <1>6 DEF BufferMoves

(* The word a count of bytes is in. *)
LEMMA SameWord ==
  ASSUME NEW w \in Nat, w > 0, NEW a \in Nat, NEW c \in Nat, NEW n \in Nat,
         w * a < n, n <= w * a + w, w * c < n, n <= w * c + w
  PROVE  a = c
<1>0. w * a \in Nat /\ w * c \in Nat
  OBVIOUS
<1>1. CASE a < c
  <2>1. w * a + w <= w * c
    BY <1>1, MulMono
  <2> QED BY <1>0, <2>1
<1>2. CASE c < a
  <2>1. w * c + w <= w * a
    BY <1>2, MulMono
  <2> QED BY <1>0, <2>1
<1> QED BY <1>1, <1>2

(* The long the core takes is the next one of the frame. *)
LEMMA LongTaken ==
  ASSUME BlitInv, TakeInv, CalmInv, LongOK, At("S_Blit_Inflate_Lz4"), NEW b, Takes(b),
         NEW i \in 1..WordBytes, Reaches(core.wr, i)
  PROVE  reg.long[i] = frame.plain[WordBytes * core.wr + i]
<1>0. /\ InFrame /\ ~pins.reset /\ core.state \in Begun /\ reg.bytes \in Nat /\ core.wr \in Nat
      /\ WordBytes \in Nat /\ WordBytes > 0
  BY Constants DEF InFrame, Resetting, Begun, BlitInv, PinsOK, TakeInv, TakeCounters, At
<1>1. reg.valid /\ core.px < Words /\ reg.bytes > WordBytes * core.wr
  BY <1>0 DEF Takes
<1>2. reg.bytes <= WordBytes * core.wr + WordBytes
  BY <1>0, <1>1 DEF TakeInv, TakenOK
<1>3. PICK a \in Nat :
        /\ reg.bytes \in WordBytes * a + 1 .. WordBytes * a + WordBytes
        /\ \A j \in 1..WordBytes : WordBytes * a + j <= Len(frame.plain)
             => reg.long[j] = frame.plain[WordBytes * a + j]
  BY <1>0, <1>1 DEF LongOK, LongIs
<1>4. a = core.wr
  <2>1. WordBytes * a \in Nat /\ WordBytes * a < reg.bytes /\ reg.bytes <= WordBytes * a + WordBytes
    BY <1>0, <1>3
  <2> QED BY <1>0, <1>1, <1>2, <2>1, SameWord
<1>5. Len(frame.plain) = FrameBytes
  BY <1>0 DEF CalmInv, FrameOK, IsFrame
<1> QED BY <1>3, <1>4, <1>5 DEF Reaches

(* With the word of the frame before it is what the frame makes of it.        *)
LEMMA WordTaken ==
  ASSUME BlitInv, TakeInv, CalmInv, LongOK, OwnOK, AddedOK, At("S_Blit_Inflate_Lz4"), NEW b, Takes(b),
         NEW i \in 1..WordBytes, Reaches(core.wr, i)
  PROVE  Uncompressed[i] = Target(WordBytes * core.wr + i)
<1>0. /\ InFrame /\ core.wr \in Nat /\ WordBytes \in Nat /\ BlocksSize \in Nat /\ BlocksSize > 0
      /\ core.state \notin Deltas /\ ~core.delta_req
  BY Constants DEF InFrame, Resetting, Begun, Deltas, TakeInv, TakeCounters, At, Takes
<1>1. reg.long[i] = frame.plain[WordBytes * core.wr + i]
  BY LongTaken
<1>2. Uncompressed[i] = reg.long[i] + delta_FB[core.index][i]
  BY DEF Uncompressed
<1>3. core.delta = frame.delta
  BY <1>0 DEF OwnOK
<1>4. CASE core.delta
  <2>1. core.index \in core.index..BlocksSize - 1 /\ core.wr + (core.index - core.index) = core.wr
    BY <1>0 DEF AddedOK
  <2>2. Holds64(core.index, core.wr)
    BY <1>0, <1>4, <2>1 DEF AddedOK
  <2> QED BY <1>1, <1>2, <1>3, <1>4, <2>2 DEF Holds64, Target
<1>5. CASE ~core.delta
  <2>1. delta_FB[core.index][i] = 0
    BY <1>0, <1>5 DEF AddedOK, Empty
  <2> QED BY <1>1, <1>2, <1>3, <1>5, <2>1 DEF Target
<1> QED BY <1>4, <1>5

(* A frame at its end becomes what the one before is to the next.             *)
LEMMA FrameEnds ==
  ASSUME OwnOK, InFrame, IsFrame(frame), FrameBytes \in Nat,
         image' = IF Named.delta THEN Sum(image, Named.plain) ELSE Named.plain
  PROVE  /\ DOMAIN image' = 1..FrameBytes
         /\ \A k \in 1..FrameBytes : Was(k)' = Target(k)
<1>1. frame = Named /\ frame.plain \in Seq(Int) /\ Len(frame.plain) = FrameBytes
  BY DEF OwnOK, IsFrame, InBlocks
<1>2. DOMAIN frame.plain = 1..FrameBytes /\ \A k \in 1..FrameBytes : frame.plain[k] \in Int
  BY <1>1
<1>3. CASE frame.delta
  <2>1. image' = [k \in 1..FrameBytes |-> frame.plain[k] + Was(k)]
    BY <1>1, <1>2, <1>3 DEF Sum, Was
  <2> QED BY <1>3, <2>1 DEF Was, Target
<1>4. CASE ~frame.delta
  <2>1. image' = frame.plain
    BY <1>1, <1>4
  <2> QED BY <1>2, <1>4, <2>1 DEF Was, Target
<1> QED BY <1>3, <1>4

(* The words past the end of a frame are not in it. *)
LEMMA ReachesWords ==
  ASSUME FrameBytes \in Nat, NEW n \in Nat, NEW i \in 1..WordBytes, Reaches(n, i)
  PROVE  n < Words /\ WordBytes * n + i \in 1..FrameBytes
<1>0. WordBytes \in Nat /\ WordBytes > 0 /\ i \in Nat /\ i >= 1
  BY Constants
<1> DEFINE m == FrameBytes + WordBytes - 1
<1>1. m \in Nat /\ WordBytes * n \in Nat /\ WordBytes * n + i <= FrameBytes
  BY <1>0 DEF Reaches
<1>2. WordBytes * (n + 1) = WordBytes * n + WordBytes
  BY <1>0
<1>3. WordBytes * (n + 1) <= m
  BY <1>0, <1>1, <1>2
<1>4. WordBytes * n + i \in 1..FrameBytes
  BY <1>0, <1>1
<1> HIDE DEF m
<1>5. n + 1 <= m \div WordBytes
  BY <1>0, <1>1, <1>3, DivAbove
<1>6. m \div WordBytes \in Nat
  BY <1>0, <1>1, DivDef
<1> QED BY <1>0, <1>4, <1>5, <1>6 DEF Words, m

LEMMA MemoryClock ==
  ASSUME BlitInv, TakeInv, WholeInv, CalmInv, BufferFields, ClearInv, Calm, EncodesPixels, BlitNext,
         NEW b \in BOOLEAN, NEW d \in BOOLEAN, NEW good, Clock(b, d, good)
  PROVE  MemoryOK'
<1>0. /\ FeedFields /\ CoreClock(b, good) /\ RunsOK /\ WritesOK /\ MemoryOK /\ OwnOK /\ LongOK
      /\ AddedOK /\ core.wr \in Nat /\ WordBytes \in Nat /\ FrameBytes \in Nat
  BY Constants DEF WholeInv, Clock, ClearInv, TakeInv, TakeCounters, EncodesPixels
<1> DEFINE Takes1 == At("S_Blit_Inflate_Lz4") /\ TakesOne(b)
<1>1. \A n : IF Takes1
             THEN /\ Stored(n)' = IF n = core.wr THEN Uncompressed ELSE Stored(n)
                  /\ Present(n)' <=> n = core.wr \/ Present(n)
             ELSE Stored(n)' = Stored(n) /\ (Present(n)' <=> Present(n))
  BY <1>0, StoredClock
<1>2. frame' = frame \/ (core.wr = 0 /\ At("S_Blit_Lz4"))
  <2>1. \/ frame' = frame
        \/ pins'.reset /\ block_write_total = 0 /\ At("S_Blit_Lz4")
    BY <1>0, FrameClock
  <2> QED BY <2>1 DEF TakeInv, StartedOK
<1>m. /\ image = <<>> \/ DOMAIN image = 1..FrameBytes
      /\ \A n \in Nat, i \in 1..WordBytes : Reaches(n, i) =>
           /\ n < core.wr \/ image # <<>> => Present(n)
           /\ Stored(n)[i] = IF n < core.wr THEN Target(WordBytes * n + i)
                                            ELSE Was(WordBytes * n + i)
  BY <1>0 DEF MemoryOK
<1> DEFINE Wrote(n, i, w) ==
             /\ n < core'.wr \/ image' # <<>> => Present(n)'
             /\ w = IF n < core'.wr THEN Target(WordBytes * n + i)' ELSE Was(WordBytes * n + i)'
<1> SUFFICES /\ image' = <<>> \/ DOMAIN image' = 1..FrameBytes
             /\ \A n \in Nat, i \in 1..WordBytes : Reaches(n, i) => Wrote(n, i, Stored(n)'[i])
  BY DEF MemoryOK, Reaches, FrameBytes
<1>3. CASE Draws(b) /\ TakesOne(b) /\ image' = image
  <2>0. At("S_Blit_Inflate_Lz4") /\ Takes1 /\ Takes(b) /\ core'.wr = core.wr + 1 /\ frame' = frame
    BY <1>2, <1>3 DEF Draws, TakesOne, At
  <2>1. \A k : Was(k)' = Was(k) /\ Target(k)' = Target(k)
    BY <1>3, <2>0 DEF Was, Target
  <2>2. ASSUME NEW n \in Nat, NEW i \in 1..WordBytes, Reaches(n, i)
        PROVE  Wrote(n, i, Stored(n)'[i])
    <3>1. CASE n = core.wr
      <4>1. Uncompressed[i] = Target(WordBytes * core.wr + i)
        BY <1>0, <2>0, <2>2, <3>1, WordTaken
      <4>2. Stored(n)' = Uncompressed /\ Present(n)'
        BY <1>1, <2>0, <3>1
      <4>3. n < core'.wr
        BY <1>0, <2>0, <3>1
      <4> QED BY <2>1, <3>1, <4>1, <4>2, <4>3
    <3>2. CASE n # core.wr
      <4>1. Stored(n)' = Stored(n) /\ (Present(n)' <=> Present(n))
        BY <1>1, <2>0, <3>2
      <4>2. n < core'.wr <=> n < core.wr
        BY <1>0, <2>0, <3>2
      <4> QED BY <1>m, <1>3, <2>1, <2>2, <4>1, <4>2
    <3> QED BY <3>1, <3>2
  <2> QED BY <1>m, <1>3, <2>2
<1>4. CASE At("S_Blit_End_Lz4") /\ Closes /\ Ends
  <2>0. core'.wr = 0 /\ core'.frame_lz4 = core.frame_ddr
        /\ image' = IF Named.delta THEN Sum(image, Named.plain) ELSE Named.plain
    BY <1>4 DEF Closes
  <2>1. InFrame /\ ~Takes1
    BY <1>4 DEF InFrame, Resetting, Begun, At
  <2>2. core.wr = Words
    <3>1. Ending
      BY <1>0, <1>4, <2>0, <2>1 DEF OwnOK, Ending, BlitInv, CountersOK
    <3> QED BY <3>1, WholeAtEnd
  <2>3. IsFrame(frame)
    BY <2>1 DEF CalmInv, FrameOK
  <2>4. DOMAIN image' = 1..FrameBytes /\ \A k \in 1..FrameBytes : Was(k)' = Target(k)
    BY <1>0, <2>0, <2>1, <2>3, FrameEnds
  <2>5. ASSUME NEW n \in Nat, NEW i \in 1..WordBytes, Reaches(n, i)
        PROVE  Wrote(n, i, Stored(n)'[i])
    <3>1. n < core.wr /\ WordBytes * n + i \in 1..FrameBytes
      BY <1>0, <2>2, <2>5, ReachesWords
    <3>2. Present(n) /\ Stored(n)[i] = Target(WordBytes * n + i)
      BY <1>m, <2>5, <3>1
    <3>3. Stored(n)' = Stored(n) /\ Present(n)'
      BY <1>1, <2>1, <3>2
    <3>4. ~(n < core'.wr)
      BY <2>0
    <3> QED BY <2>4, <3>1, <3>2, <3>3, <3>4
  <2> QED BY <2>4, <2>5
<1>5. CASE ~Takes1 /\ core'.wr = core.wr /\ image' = image
  <2>1. \A k : Was(k)' = Was(k)
    BY <1>5 DEF Was
  <2>2. core.wr # 0 => \A k : Target(k)' = Target(k)
    BY <1>2, <2>1 DEF Target
  <2>3. ASSUME NEW n \in Nat, NEW i \in 1..WordBytes, Reaches(n, i)
        PROVE  Wrote(n, i, Stored(n)'[i])
    <3>1. Stored(n)' = Stored(n) /\ (Present(n)' <=> Present(n))
      BY <1>1, <1>5
    <3>2. n < core.wr => core.wr # 0
      BY <1>0
    <3> QED BY <1>m, <1>5, <2>1, <2>2, <2>3, <3>1, <3>2
  <2> QED BY <1>m, <1>5, <2>3
<1> QED BY <1>0, <1>3, <1>4, <1>5, WrClock

(* The words of the frame buffer a delta takes at a time; those past them are *)
(* past the end of the frame.                                                 *)
LEMMA DeltaReach ==
  ASSUME FrameBytes \in Nat, core.wr \in Nat
  PROVE  /\ DeltaWords \in 1..BlocksSize
         /\ \A j \in Nat, i \in 1..WordBytes :
              DeltaWords <= j /\ j < BlocksSize => ~Reaches(core.wr + j, i)
<1>0. WordBytes \in Nat /\ WordBytes > 0 /\ BlocksSize \in Nat /\ BlocksSize > 0
      /\ WordBytes * core.wr \in Nat /\ BlocksSize * WordBytes = WordBytes * BlocksSize
      /\ core.wr * WordBytes = WordBytes * core.wr
  BY Constants
<1> DEFINE left == FrameBytes - core.wr * WordBytes
<1>1. left \in Int
  BY <1>0
<1>2. DeltaWords = IF left < 0 \/ left > BlocksSize * WordBytes - 1 THEN BlocksSize
                   ELSE left \div WordBytes + 1
  BY DEF DeltaWords
<1>3. FrameBytes = left + WordBytes * core.wr
  BY <1>0
<1> HIDE DEF left
<1>4. CASE left < 0 \/ left > BlocksSize * WordBytes - 1
  BY <1>0, <1>2, <1>4
<1>5. CASE ~(left < 0 \/ left > BlocksSize * WordBytes - 1)
  <2>1. left \in Nat /\ left < WordBytes * BlocksSize
    BY <1>0, <1>1, <1>5
  <2>2. left \div WordBytes \in Nat /\ left \div WordBytes < BlocksSize
    BY <1>0, <2>1, DivDef, DivBelow
  <2> DEFINE q == left \div WordBytes
  <2>3. DeltaWords = q + 1
    BY <1>2, <1>5
  <2>4. ASSUME NEW j \in Nat, NEW i \in 1..WordBytes, q + 1 <= j
        PROVE  ~Reaches(core.wr + j, i)
    <3>1. ~(WordBytes * j <= left)
      BY <1>0, <2>1, <2>2, <2>4, DivAbove
    <3>2. WordBytes * (core.wr + j) = WordBytes * core.wr + WordBytes * j /\ WordBytes * j \in Nat
      BY <1>0
    <3> QED BY <1>0, <1>3, <2>1, <2>4, <3>1, <3>2 DEF Reaches
  <2> HIDE DEF q
  <2> QED BY <1>0, <2>2, <2>3, <2>4 DEF q
<1> QED BY <1>4, <1>5

(* A word the port brings for a delta is one of the frame before. *)
LEMMA WasBrought ==
  ASSUME WritesOK, MemoryOK, At("S_Delta_Copy"), core.wr \in Nat, NEW j \in Nat, NEW i \in 1..WordBytes,
         Reaches(core.wr + j, i)
  PROVE  Memory("FB", core.wr + j)[i] = Was(WordBytes * (core.wr + j) + i)
<1>1. ~ddr.write /\ port.cmd # "write"
  BY DEF WritesOK, At
<1>2. Stored(core.wr + j) = Memory("FB", core.wr + j)
  BY <1>1 DEF Stored, Behind
<1>3. core.wr + j \in Nat /\ ~(core.wr + j < core.wr)
  OBVIOUS
<1> QED BY <1>2, <1>3 DEF MemoryOK

(* Word j of delta_FB will be what word n of the frame buffer was.            *)
Next64(j, n) ==
  \A i \in 1..WordBytes : Reaches(n, i) => delta_FB'[j][i] = Was(WordBytes * n + i)

(* The word just brought is kept. *)
LEMMA KeepsBrought ==
  ASSUME WritesOK, MemoryOK, AddedOK, RefillOK, At("S_Delta_Copy"), port.ready, core.wr \in Nat,
         delta_FB' = [delta_FB EXCEPT ![core.index] = port.dout], image' = image
  PROVE  \A j \in 0..core.index : Next64(j, core.wr + j)
<1>0. core.index \in Nat /\ core.index \in 0..BlocksSize - 1 /\ DOMAIN delta_FB = 0..BlocksSize - 1
      /\ BlocksSize \in Nat
  BY Constants DEF AddedOK
<1>2. ASSUME NEW j \in 0..core.index, NEW i \in 1..WordBytes, Reaches(core.wr + j, i)
      PROVE  delta_FB'[j][i] = Was(WordBytes * (core.wr + j) + i)
  <2>1. CASE j = core.index
    <3>1. delta_FB'[j] = Memory("FB", core.wr + core.index)
      BY <1>0, <2>1 DEF RefillOK
    <3> QED BY <1>0, <1>2, <2>1, <3>1, WasBrought
  <2>2. CASE j # core.index
    <3>1. j \in 0..core.index - 1 /\ delta_FB'[j] = delta_FB[j]
      BY <1>0, <2>2
    <3>2. Holds64(j, core.wr + j)
      BY <3>1 DEF RefillOK
    <3> QED BY <1>2, <3>1, <3>2 DEF Holds64
  <2> QED BY <2>1, <2>2
<1> QED BY <1>2 DEF Next64

(* The index of the next word of a burst. *)
LEMMA NextIndex ==
  ASSUME NEW w \in Nat, w > 0, NEW i \in 0..w - 1
  PROVE  /\ (i + 1) % w \in 0..w - 1
         /\ i + 1 < w => (i + 1) % w = i + 1
<1>1. /\ (i + 1) \div w \in Nat /\ (i + 1) % w \in 0..w - 1
      /\ i + 1 = w * ((i + 1) \div w) + ((i + 1) % w)
  BY DivDef
<1>2. i + 1 < w => (i + 1) \div w < 1
  BY DivBelow
<1> QED BY <1>1, <1>2

LEMMA AddedClock ==
  ASSUME BlitInv, TakeInv, WholeInv, CalmInv, BufferFields, ClearInv, EncodesPixels,
         NEW b \in BOOLEAN, NEW d \in BOOLEAN, NEW good, Clock(b, d, good)
  PROVE  AddedOK'
<1>0. /\ FeedFields /\ CoreClock(b, good) /\ WritesOK /\ MemoryOK /\ OwnOK /\ AddedOK /\ RefillOK
      /\ core.wr \in Nat /\ BlocksSize \in Nat /\ BlocksSize > 0 /\ FrameBytes \in Nat
      /\ core.index \in 0..BlocksSize - 1 /\ DOMAIN delta_FB = 0..BlocksSize - 1
  BY Constants DEF WholeInv, Clock, ClearInv, TakeInv, TakeCounters, EncodesPixels, AddedOK
<1>1. BufferMoves(b) /\ Moves(b)
  BY <1>0, CoreDraws, CoreMoves
<1>2. DOMAIN delta_FB' = 0..BlocksSize - 1 /\ core'.index \in 0..BlocksSize - 1
  <2>1. /\ \/ delta_FB' = delta_FB \/ delta_FB' = ClearedFB
           \/ delta_FB' = [delta_FB EXCEPT ![core.index] = port.dout]
        /\ core'.index \in {core.index, 0, (core.index + 1) % BlocksSize}
    BY <1>1 DEF BufferMoves, Stands, Opens, Draws, TakesOne, TakesNone, Closes, Reads64, Copies64,
         KeepsDelta
  <2>2. (core.index + 1) % BlocksSize \in 0..BlocksSize - 1
    BY <1>0, NextIndex
  <2> QED BY <1>0, <2>1, <2>2 DEF ClearedFB
<1> SUFFICES ASSUME InFrame'
             PROVE  /\ image' = image
                    /\ ~core'.delta => core'.index = 0 /\ ~core'.delta_req /\ delta_FB'[0] = Empty
                                       /\ core'.state \notin Deltas
                    /\ core'.delta /\ ~core'.delta_req /\ core'.state \notin Deltas =>
                         \A j \in core'.index..BlocksSize - 1 :
                            Next64(j, core'.wr + (j - core'.index))
  BY <1>2 DEF AddedOK, Next64, Holds64, Was, Reaches, FrameBytes, Deltas
<1>3. CASE Opening
  <2>1. core'.state \notin Deltas
    BY <1>1, <1>3 DEF Opening, Moves, Idles, Looks, Begins, Asks, Fills, CopyEnds, Inflating,
         EndsFrame, Refills, Deltas, At
  <2>2. delta_FB'[0] = Empty
    BY <1>0, <1>3 DEF Opening, ClearedFB
  <2> QED BY <1>3, <2>1, <2>2 DEF Opening
<1>4. CASE frame' = frame /\ InFrame /\ ~Opening
  <2>d. core'.delta = core.delta
    BY <1>1, <1>4, DeltaKept
  <2>e. ~(At("S_Blit_End_Lz4") /\ Closes /\ Ends)
    <3> SUFFICES ASSUME At("S_Blit_End_Lz4"), Closes, Ends
                 PROVE  FALSE
      OBVIOUS
    <3>1. core'.frame_lz4 = core.frame_ddr /\ core.frame_lz4 < core.frame_ddr
      BY <1>0, <1>4 DEF Closes, OwnOK
    <3>2. core.frame_lz4 \in Nat /\ core.frame_ddr \in Nat
      BY DEF BlitInv, CountersOK
    <3>3. core'.state = "S_Dispatcher" /\ pins'.reset
      BY <1>0, <3>1, <3>2, NumbersClock DEF At
    <3> QED BY <3>3 DEF InFrame, Resetting, At
  <2>i. image' = image
    BY <1>0, <2>e, WrClock
  <2>1. ASSUME ~core'.delta
        PROVE  core'.index = 0 /\ ~core'.delta_req /\ delta_FB'[0] = Empty /\ core'.state \notin Deltas
    <3>1. core.index = 0 /\ ~core.delta_req /\ delta_FB[0] = Empty /\ core.state \notin Deltas
          /\ ~core.delta
      BY <1>0, <1>4, <2>1, <2>d DEF AddedOK
    <3>2. core'.index = core.index /\ core'.delta_req = core.delta_req /\ delta_FB' = delta_FB
      BY <1>1, <1>4, <3>1 DEF BufferMoves, Stands, Opens, Opening, Draws, TakesOne, TakesNone, Closes,
           Reads64, Copies64, KeepsDelta, Deltas, At
    <3>3. core'.state \notin Deltas
      <4>1. CASE Stands \/ Closes
        BY <1>1, <2>e, <3>1, <4>1 DEF Stands, Closes, Moves, Idles, Looks, Begins, Asks, Fills, CopyEnds,
             Inflating, EndsFrame, Refills, Deltas, At
      <4>2. CASE Opens \/ Draws(b)
        BY <1>1, <4>2 DEF Opens, Draws, Moves, Idles, Looks, Begins, Asks, Fills, CopyEnds,
             Inflating, EndsFrame, Refills, Deltas, At
      <4> QED BY <1>1, <3>1, <4>1, <4>2 DEF BufferMoves, Reads64, Copies64, Deltas, At
    <3> QED BY <3>1, <3>2, <3>3
  <2>2. ASSUME core'.delta, ~core'.delta_req, core'.state \notin Deltas,
               NEW j \in core'.index..BlocksSize - 1
        PROVE  Next64(j, core'.wr + (j - core'.index))
    <3>1. CASE Draws(b) /\ TakesOne(b) /\ image' = image
      <4>1. /\ core'.wr = core.wr + 1 /\ delta_FB' = delta_FB /\ ~core.delta_req
            /\ core.state \notin Deltas
        BY <2>2, <2>d, <3>1 DEF Draws, TakesOne, Takes, Deltas, At
      <4>2. core'.index = core.index + 1
        <5>1. core.index # BlocksSize - 1 /\ core'.index = (core.index + 1) % BlocksSize
          BY <2>2, <2>d, <3>1 DEF TakesOne
        <5>2. core.index + 1 < BlocksSize
          BY <1>0, <5>1
        <5> QED BY <1>0, <5>1, <5>2, NextIndex
      <4>3. j \in core.index..BlocksSize - 1
            /\ core'.wr + (j - core'.index) = core.wr + (j - core.index)
        <5>1. /\ core'.wr = core.wr + 1 /\ core.wr \in Nat /\ core.index \in Nat
              /\ j \in Int /\ core.index + 1 <= j /\ j <= BlocksSize - 1
          BY <1>0, <2>2, <4>1, <4>2
        <5>2. core'.wr + (j - core'.index) = (core.wr + 1) + (j - (core.index + 1))
          BY <4>2, <5>1
        <5> QED BY <1>0, <5>1, <5>2
      <4>4. Holds64(j, core.wr + (j - core.index))
        BY <1>0, <1>4, <2>2, <2>d, <4>1, <4>3 DEF AddedOK
      <4> QED BY <3>1, <4>1, <4>3, <4>4 DEF Holds64, Next64
    <3>2. CASE At("S_Delta_Copy") /\ Copies64(b)
      <4>1. /\ port.ready /\ ~Busy(b) /\ core'.index = 0 /\ image' = image
            /\ delta_FB' = [delta_FB EXCEPT ![core.index] = port.dout]
        BY <2>2, <3>2 DEF Copies64, Deltas, At
      <4>2. core.index + 1 = DeltaWords
        BY <1>0, <3>2, <4>1 DEF RefillOK, Busy, BlitInv, PortOK
      <4>3. core'.wr = core.wr
        BY <1>0, <3>2, WrClock DEF Draws, At
      <4>4. core'.wr + (j - core'.index) = core.wr + j /\ j \in Nat /\ j < BlocksSize
        BY <1>0, <2>2, <4>1, <4>3
      <4>5. CASE j \in 0..core.index
        <5>1. Next64(j, core.wr + j)
          BY <1>0, <3>2, <4>1, <4>5, KeepsBrought
        <5> QED BY <4>4, <5>1
      <4>6. CASE j \notin 0..core.index
        <5>1. DeltaWords <= j
          BY <1>0, <4>2, <4>4, <4>6
        <5>2. \A i \in 1..WordBytes : ~Reaches(core.wr + j, i)
          BY <1>0, <4>4, <5>1, DeltaReach
        <5> QED BY <4>4, <5>2 DEF Next64
      <4> QED BY <4>5, <4>6
    <3>3. CASE core'.wr = core.wr /\ image' = image /\ ~(At("S_Blit_Inflate_Lz4") /\ TakesOne(b))
               /\ ~At("S_Delta_Copy")
      <4>1. /\ core'.index = core.index /\ core'.delta_req = core.delta_req /\ delta_FB' = delta_FB
            /\ core.state \notin Deltas
        BY <1>1, <1>4, <2>2, <3>3 DEF BufferMoves, Stands, Opens, Opening, Draws, TakesNone, Closes,
             Reads64, Copies64, KeepsDelta, Deltas, At
      <4>2. Holds64(j, core.wr + (j - core.index))
        BY <1>0, <1>4, <2>2, <2>d, <4>1 DEF AddedOK
      <4> QED BY <3>3, <4>1, <4>2 DEF Holds64, Next64
    <3>4. At("S_Delta_Copy") => Copies64(b)
      BY <1>1 DEF BufferMoves, Stands, Opens, Draws, Closes, Reads64, Copies64, At
    <3> QED BY <1>0, <2>e, <3>1, <3>2, <3>3, <3>4, WrClock
  <2> QED BY <2>i, <2>1, <2>2
<1> QED BY <1>0, <1>3, <1>4, OpeningClock

(* A burst under way brings its next word, or waits. *)
LEMMA BurstBrings ==
  ASSUME NEW b \in BOOLEAN, NEW d \in BOOLEAN, Port(b, d), port.reading, port.what = "FB",
         burst.left \in Nat, burst.left > 0, NEW n \in Nat, NEW last \in Nat,
         burst.next = n, burst.next + burst.left = last
  PROVE  /\ port'.ready => /\ port'.dout = Memory("FB", n)
                           /\ port'.reading \/ n + 1 = last
         /\ port'.reading => /\ port'.what = "FB" /\ burst'.left \in Nat /\ burst'.left > 0
                             /\ burst'.next = n + IF port'.ready THEN 1 ELSE 0
                             /\ burst'.next + burst'.left = last
         /\ port'.reading \/ (port'.ready /\ ~port'.read_req)
<1>1. /\ port'.ready <=> d
      /\ port'.reading <=> ~(d /\ burst.left = 1)
      /\ port'.what = "FB"
      /\ d => port'.dout = Memory("FB", n)
      /\ d => burst'.next = n + 1 /\ burst'.left = burst.left - 1
      /\ ~d => burst' = burst
      /\ port'.read_req => ~(d /\ burst.left = 1)
  BY DEF Port
<1> HIDE DEF Memory
<1>2. CASE d /\ burst.left = 1
  BY <1>1, <1>2
<1>3. CASE d /\ burst.left # 1
  <2>1. burst.left - 1 \in Nat /\ burst.left - 1 > 0 /\ (n + 1) + (burst.left - 1) = last
    BY <1>3
  <2> QED BY <1>1, <1>3, <2>1
<1>4. CASE ~d
  <2>1. n + 0 = n
    OBVIOUS
  <2> QED BY <1>1, <1>4, <2>1
<1> QED BY <1>2, <1>3, <1>4

LEMMA RefillClock ==
  ASSUME BlitInv, TakeInv, WholeInv, CalmInv, BufferFields, ClearInv, EncodesPixels,
         NEW b \in BOOLEAN, NEW d \in BOOLEAN, NEW good, Clock(b, d, good)
  PROVE  RefillOK'
<1>0. /\ FeedFields /\ CoreClock(b, good) /\ Port(b, d) /\ WritesOK /\ MemoryOK /\ AddedOK /\ RefillOK
      /\ core.wr \in Nat /\ BlocksSize \in Nat /\ BlocksSize > 0 /\ FrameBytes \in Nat
      /\ core.index \in 0..BlocksSize - 1 /\ PortOK
  BY Constants DEF WholeInv, Clock, ClearInv, TakeInv, TakeCounters, EncodesPixels, AddedOK, BlitInv
<1>1. BufferMoves(b) /\ Moves(b)
  BY <1>0, CoreDraws, CoreMoves
<1>w. DeltaWords \in Nat /\ DeltaWords > 0 /\ DeltaWords <= BlocksSize
  BY <1>0, DeltaReach
<1> DEFINE k == core'.index
           Brings == /\ port'.ready =>
                          /\ fb' = fb /\ port'.dout = Memory("FB", core.wr + k)
                          /\ port'.reading \/ k + 1 = DeltaWords
                     /\ port'.reading =>
                          /\ port'.what = "FB" /\ burst'.left \in Nat /\ burst'.left > 0
                          /\ burst'.next = core.wr + k + IF port'.ready THEN 1 ELSE 0
                          /\ burst'.next + burst'.left = core.wr + DeltaWords
                     /\ ~port'.reading /\ ~port'.ready =>
                          k = 0 /\ ddr'.what = "FB" /\ ddr'.addr = core.wr /\ ddr'.burst = DeltaWords
                     /\ ~port'.reading /\ port'.ready => ~port'.read_req
           Has == ~core'.delta_req /\ \A j \in 0..k - 1 : Next64(j, core.wr + j)
<1> SUFFICES ASSUME core'.state = "S_Delta_Copy"
             PROVE  image' = image /\ core'.wr = core.wr /\ Has /\ Brings
  <2>1. ASSUME core'.state = "S_Delta_Copy" => image' = image /\ core'.wr = core.wr /\ Has /\ Brings
        PROVE  RefillOK'
    BY <2>1 DEF RefillOK, Next64, Holds64, Was, Reaches, FrameBytes, DeltaWords, Memory, At
  <2> QED BY <2>1
<1>2. \/ At("S_Delta_Prepare") /\ Reads64(b)
      \/ At("S_Delta_Copy") /\ Copies64(b)
  BY <1>1 DEF BufferMoves, Stands, Opens, Draws, Closes, Reads64, Copies64,
       Moves, Idles, Looks, Begins, Asks, Fills, CopyEnds, Inflating, EndsFrame, Refills, At
<1>3. image' = image /\ core'.wr = core.wr
  BY <1>0, <1>2, WrClock DEF Draws, At
<1>4. CASE At("S_Delta_Prepare") /\ Reads64(b)
  <2>1. ~port.read_req /\ ~port.reading
    BY <1>0, <1>4 DEF PortOK, Reading, At
  <2>2. ~port'.ready /\ ~port'.reading
    BY <1>0, <2>1 DEF Port
  <2>3. /\ ~core'.delta_req /\ k = 0 /\ ddr'.what = "FB" /\ ddr'.addr = core.wr
        /\ ddr'.burst = DeltaWords
    BY <1>4 DEF Reads64, At
  <2> QED BY <1>3, <2>2, <2>3
<1>5. CASE At("S_Delta_Copy") /\ Copies64(b)
  <2>r. /\ ~core.delta_req /\ \A j \in 0..core.index - 1 : Holds64(j, core.wr + j)
        /\ port.reading => /\ port.what = "FB" /\ burst.left \in Nat /\ burst.left > 0
                           /\ burst.next = core.wr + core.index + IF port.ready THEN 1 ELSE 0
                           /\ burst.next + burst.left = core.wr + DeltaWords
        /\ ~port.reading /\ ~port.ready =>
             core.index = 0 /\ ddr.what = "FB" /\ ddr.addr = core.wr /\ ddr.burst = DeltaWords
        /\ ~port.reading /\ port.ready => ~port.read_req
    BY <1>0, <1>5 DEF RefillOK
  <2>f. fb' = fb
    BY <1>0, <1>5 DEF WritesOK, Port
  <2>d. ~core'.delta_req
    BY <1>5, <2>r DEF Copies64
  <2>1. ASSUME port.reading, k \in Nat, core.wr + k = burst.next
        PROVE  Brings
    <3>1. core.wr + k \in Nat /\ core.wr + DeltaWords \in Nat
      BY <1>0, <1>w, <2>1
    <3> DEFINE n == core.wr + k
               last == core.wr + DeltaWords
    <3>2. n + 1 = last => k + 1 = DeltaWords
      BY <1>0, <1>w, <2>1
    <3> HIDE DEF n, last
    <3>3. n \in Nat /\ last \in Nat
      BY <3>1 DEF n, last
    <3>4. burst.next = n /\ burst.next + burst.left = last /\ port.what = "FB"
          /\ burst.left \in Nat /\ burst.left > 0
      BY <2>1, <2>r DEF n, last
    <3>5. /\ port'.ready => port'.dout = Memory("FB", n) /\ (port'.reading \/ n + 1 = last)
          /\ port'.reading => /\ port'.what = "FB" /\ burst'.left \in Nat /\ burst'.left > 0
                              /\ burst'.next = n + IF port'.ready THEN 1 ELSE 0
                              /\ burst'.next + burst'.left = last
          /\ port'.reading \/ (port'.ready /\ ~port'.read_req)
      BY <1>0, <2>1, <3>3, <3>4, BurstBrings
    <3> QED BY <2>f, <3>2, <3>5 DEF n, last
  <2>2. CASE port.ready
    <3>1. Busy(b) /\ k = (core.index + 1) % BlocksSize
          /\ delta_FB' = [delta_FB EXCEPT ![core.index] = port.dout]
      BY <1>5, <2>2 DEF Copies64
    <3>2. ~b
      BY <1>0, <2>2 DEF WritesOK, Port
    <3>3. port.reading
      BY <2>2, <2>r, <3>1, <3>2 DEF Busy
    <3>4. burst.left \in Nat /\ burst.left > 0 /\ burst.next = core.wr + core.index + 1
          /\ burst.next + burst.left = core.wr + DeltaWords
      BY <2>2, <2>r, <3>3
    <3>5. core.index + 1 < BlocksSize
      BY <1>0, <1>w, <3>4
    <3>6. k = core.index + 1
      BY <1>0, <3>1, <3>5, NextIndex
    <3>7. k \in Nat /\ core.wr + k = burst.next /\ 0..k - 1 = 0..core.index
      <4> HIDE DEF k
      <4> QED BY <1>0, <3>4, <3>6
    <3>8. \A j \in 0..core.index : Next64(j, core.wr + j)
      BY <1>0, <1>3, <1>5, <2>2, <3>1, KeepsBrought
    <3> QED BY <1>3, <2>1, <2>d, <3>3, <3>7, <3>8
  <2>3. CASE ~port.ready
    <3>1. core' = core /\ delta_FB' = delta_FB
      BY <1>5, <2>3 DEF Copies64
    <3>2. Has
      BY <2>d, <2>r, <3>1 DEF Next64, Holds64
    <3>3. CASE port.reading
      <4>1. core.wr + k = burst.next /\ k \in Nat
        BY <1>0, <2>3, <2>r, <3>1, <3>3
      <4> QED BY <1>3, <2>1, <3>2, <3>3, <4>1
    <3>4. CASE ~port.reading
      <4>1. k = 0 /\ ddr.what = "FB" /\ ddr.addr = core.wr /\ ddr.burst = DeltaWords
        BY <2>3, <2>r, <3>1, <3>4
      <4>2. /\ ~port'.ready
            /\ port'.reading => /\ port'.what = ddr.what
                                /\ burst' = [next |-> ddr.addr, left |-> ddr.burst]
        BY <1>0, <3>4 DEF Port
      <4>3. port'.reading => /\ port'.what = "FB" /\ burst'.left = DeltaWords
                             /\ burst'.next = core.wr
        BY <4>1, <4>2
      <4>4. ddr'.what = ddr.what /\ ddr'.addr = ddr.addr /\ ddr'.burst = ddr.burst
        BY <1>5 DEF Copies64
      <4>5. core.wr + 0 + 0 = core.wr
        BY <1>0
      <4> QED BY <1>3, <1>w, <3>2, <4>1, <4>2, <4>3, <4>4, <4>5
    <3> QED BY <3>3, <3>4
  <2> QED BY <2>2, <2>3
<1> QED BY <1>2, <1>4, <1>5

LEMMA BufferClock ==
  ASSUME BlitInv, TakeInv, WholeInv, BufferInv, EncodesPixels, BlitNext,
         NEW b \in BOOLEAN, NEW d \in BOOLEAN, NEW good, Clock(b, d, good)
  PROVE  BufferInv'
<1>0. FieldsOK /\ FeedFields /\ BufferFields /\ CoreClock(b, good)
  BY DEF BlitInv, WholeInv, BufferInv, Clock
<1>1. BufferFields'
  BY <1>0, BufferFieldsClock
<1>2. ASSUME Clear'
      PROVE  ClearInv'
  <2>1. Clear
    BY <1>0, <1>2, ClearClock
  <2>2. ClearInv /\ Calm /\ ~env.hps /\ CalmInv
    BY <2>1 DEF BufferInv, Clear, WholeInv
  <2>3. QuietOK /\ OwnOK /\ LongOK /\ RunsOK /\ WritesOK
    BY <2>2 DEF ClearInv
  <2>4. QuietOK' /\ OwnOK' /\ LongOK'
    BY <1>0, <2>2, <2>3, QuietClock, OwnClock, LongOKClock
  <2>5. RunsOK' /\ WritesOK'
    BY <1>0, <2>2, <2>3, RunsClock, WritesClock
  <2>6. MemoryOK' /\ AddedOK' /\ RefillOK'
    BY <1>0, <2>2, MemoryClock, AddedClock, RefillClock
  <2> QED BY <2>4, <2>5, <2>6 DEF ClearInv
<1> QED BY <1>1, <1>2 DEF BufferInv

-----------------------------------------------------------------------------
(* The steps of the server and the raster keep BufferInv.                     *)

(* A step of the server or the raster that leaves the frame begun as it is.   *)
LEMMA OutsideBuffer ==
  ASSUME BufferInv, Outside, BufferFields',
         Clear' => /\ Clear /\ ~env'.audio /\ frame' = frame
                   /\ (InFrame /\ OwnOK => Named' = Named)
  PROVE  BufferInv'
<1> SUFFICES ASSUME Clear'
             PROVE  ClearInv'
  BY DEF BufferInv
<1>0. ClearInv /\ ~env'.audio /\ frame' = frame /\ (InFrame /\ OwnOK => Named' = Named)
  BY DEF BufferInv
<1>u. /\ UNCHANGED <<pins, block_write_total, reg, blocks, window, out>>
      /\ UNCHANGED <<burst, core, ddr, port, fb, image, delta_FB, told, frame>>
  BY <1>0 DEF Outside, input, decoder
<1>1. InFrame' = InFrame
  BY <1>u DEF InFrame, Resetting, At
<1>2. QuietOK' /\ OwnOK'
  BY <1>0, <1>1, <1>u DEF ClearInv, QuietOK, OwnOK, At
<1>3. LongOK'
  BY <1>0, <1>1, <1>u DEF ClearInv, LongOK, LongIs
<1>4. RunsOK' /\ WritesOK'
  BY <1>0, <1>u DEF ClearInv, RunsOK, Wants, Readed, LastBlock, In, WritesOK, At
<1>5. MemoryOK'
  <2>1. /\ \A n : (Present(n)' <=> Present(n)) /\ Stored(n)' = Stored(n)
        /\ \A k : Was(k)' = Was(k) /\ Target(k)' = Target(k)
    BY <1>u DEF Present, Passed, Stored, Behind, Memory, Was, Target
  <2> QED BY <1>0, <1>u, <2>1 DEF ClearInv, MemoryOK
<1>6. AddedOK'
  BY <1>0, <1>1, <1>u DEF ClearInv, AddedOK, Holds64, Was
<1>7. RefillOK'
  BY <1>0, <1>u DEF ClearInv, RefillOK, Holds64, Was, DeltaWords, Memory, At
<1> QED BY <1>2, <1>3, <1>4, <1>5, <1>6, <1>7 DEF ClearInv

LEMMA AnnouncedBuffer ==
  ASSUME BlitInv, WholeInv, BufferInv,
         NEW sequences \in Frames, NEW delta \in BOOLEAN, SendFrame(sequences, delta)
  PROVE  BufferInv'
<1> DEFINE f == Frame(delta, Compress(sequences, (env.sent + 1) * Byte * Byte))
<1>0. FieldsOK /\ CountersOK /\ FeedFields /\ BufferFields /\ Outside /\ frame' = frame
      /\ core.frame_lz4 >= env.sent - 1
  BY DEF BlitInv, WholeInv, BufferInv, SendFrame
<1>1. /\ env'.hps = env.hps /\ env'.sent = env.sent + 1 /\ env'.last = env.next
      /\ env'.cuts = env.cuts /\ env'.lost = env.lost /\ env'.sounds = env.sounds
      /\ env'.audio = env.audio /\ DOMAIN env' = DOMAIN env
  <2> HIDE DEF f
  <2> QED BY <1>0 DEF SendFrame, FieldsOK, FeedFields, BufferFields, f
<1> HIDE DEF f
<1>2. BufferFields'
  BY <1>0, <1>1 DEF BufferFields, Outside
<1>3. ASSUME InFrame, OwnOK
      PROVE  Named' = Named
  <2>1. core.frame_ddr = env.sent
    BY <1>0, <1>3 DEF OwnOK, CountersOK
  <2> QED BY <1>0, <1>1, <2>1 DEF Named, Outside, CountersOK
<1>4. Clear' => Clear /\ ~env'.audio
  BY <1>1 DEF Clear, Calm, BufferInv, ClearInv, QuietOK
<1> QED BY <1>0, <1>2, <1>3, <1>4, OutsideBuffer

(* A chunk, or no step. *)
LEMMA EnvKeptBuffer ==
  ASSUME BlitInv, WholeInv, BufferInv, SendChunk \/ UNCHANGED blitVars
  PROVE  BufferInv'
<1>0. FieldsOK /\ FeedFields /\ BufferFields
  BY DEF BlitInv, WholeInv, BufferInv
<1>1. Outside /\ frame' = frame
  BY DEF SendChunk, blitVars, lz4Vars, source, input, decoder, Outside
<1>2. /\ env'.hps = env.hps /\ env'.sent = env.sent /\ env'.last = env.last /\ env'.next = env.next
      /\ env'.cuts = env.cuts /\ env'.lost = env.lost /\ env'.sounds = env.sounds
      /\ env'.audio = env.audio /\ DOMAIN env' = DOMAIN env
  BY <1>0 DEF SendChunk, blitVars, FieldsOK, FeedFields, BufferFields
<1>3. BufferFields'
  BY <1>0, <1>1, <1>2 DEF BufferFields, Outside
<1>4. Named' = Named
  BY <1>1, <1>2 DEF Named, Outside
<1>5. Clear' => Clear /\ ~env'.audio
  BY <1>2 DEF Clear, Calm, BufferInv, ClearInv, QuietOK
<1> QED BY <1>1, <1>3, <1>4, <1>5, OutsideBuffer

(* A fault, or the command of a frame told when all of it has come.           *)
LEMMA FaultBuffer ==
  ASSUME BlitInv, WholeInv, BufferInv, Command \/ Sound \/ Starve \/ \E old : GiveUp(old)
  PROVE  BufferInv'
<1>0. FieldsOK /\ FeedFields /\ BufferFields
  BY DEF BlitInv, WholeInv, BufferInv
<1>1. Outside
  BY DEF Command, Sound, Starve, GiveUp
<1>2. DOMAIN env' = DOMAIN env /\ env'.sounds \in {env.sounds, env.sounds + 1} /\ ~Clear'
  <2>1. CASE Command
    <3>1. env.hps
      BY <2>1 DEF Command, BlitInv, LatchesOK
    <3> QED BY <1>0, <2>1, <3>1 DEF Command, Clear, FieldsOK, BufferFields
  <2>2. CASE Sound
    BY <1>0, <2>2 DEF Sound, Clear, BufferFields
  <2>3. CASE Starve
    BY <1>0, <2>3 DEF Starve, Clear, Calm, FeedFields, BufferFields
  <2>4. ASSUME NEW old, GiveUp(old)
        PROVE  DOMAIN env' = DOMAIN env /\ env'.sounds = env.sounds /\ ~Clear'
    <3>1. \E g : env' = [env EXCEPT !.told = Coded, !.abort = TRUE, !.lost = @ + 1,
                                    !.next = g, !.latch = g]
      BY <2>4 DEF GiveUp
    <3> QED BY <1>0, <3>1 DEF Clear, Calm, FeedFields, BufferFields, FieldsOK
  <2> QED BY <2>1, <2>2, <2>3, <2>4
<1>3. BufferFields'
  BY <1>0, <1>1, <1>2 DEF BufferFields, Outside
<1> QED BY <1>2, <1>3 DEF BufferInv

LEMMA BufferInitial ==
  ASSUME BlitInit
  PROVE  BufferInv
<1>0. BlocksSize \in Nat /\ BlocksSize > 0
  BY Constants
<1>1. BufferFields
  BY DEF BlitInit, BufferFields
<1>2. /\ core.state = "S_Dispatcher" /\ core.wr = 0 /\ core.index = 0 /\ ~core.resume
      /\ ~env.audio /\ block_write_total = 0 /\ ~ddr.write /\ port.cmd = "none" /\ ~port.ready
      /\ fb = <<>> /\ image = <<>> /\ DOMAIN delta_FB = 0..BlocksSize - 1
  BY DEF BlitInit, DecoderInit, PortRegisters
<1>3. ~InFrame
  BY <1>2 DEF InFrame, Begun
<1>4. QuietOK /\ OwnOK /\ LongOK /\ RunsOK /\ WritesOK
  BY <1>2, <1>3 DEF QuietOK, OwnOK, LongOK, RunsOK, WritesOK, At
<1>5. MemoryOK
  <2>1. ASSUME NEW n \in Nat, NEW i \in 1..WordBytes
        PROVE  Stored(n)[i] = 0 /\ Was(WordBytes * n + i) = 0 /\ ~(n < core.wr)
    <3>1. Stored(n) = Empty
      BY <1>2 DEF Stored, Behind, Memory
    <3> QED BY <1>2, <3>1 DEF Empty, Was
  <2> QED BY <1>2, <2>1 DEF MemoryOK
<1>6. AddedOK /\ RefillOK
  BY <1>0, <1>2, <1>3 DEF AddedOK, RefillOK, At
<1> QED BY <1>1, <1>4, <1>5, <1>6 DEF BufferInv, ClearInv

LEMMA BufferSteps ==
  ASSUME EncodesPixels, BlitInv, TakeInv, WholeInv, BufferInv, [BlitNext]_blitVars
  PROVE  BufferInv'
<1>1. ASSUME NEW s \in Frames, NEW delta \in BOOLEAN, SendFrame(s, delta)
      PROVE  BufferInv'
  BY <1>1, AnnouncedBuffer
<1>2. CASE Command \/ Sound \/ Starve \/ \E old \in {1, Ones} : GiveUp(old)
  BY <1>2, FaultBuffer
<1>3. CASE SendChunk \/ UNCHANGED blitVars
  BY <1>3, EnvKeptBuffer
<1>4. ASSUME NEW b \in BOOLEAN, NEW d \in BOOLEAN, Clock(b, d, FALSE)
      PROVE  BufferInv'
  <2>1. BlitNext
    BY <1>4 DEF BlitNext
  <2> QED BY <1>4, <2>1, BufferClock
<1> QED BY <1>1, <1>2, <1>3, <1>4 DEF BlitNext

(* Between frames the frame buffer holds what the frames left.                *)
LEMMA BufferWhole ==
  ASSUME EncodesPixels, BlitInv, TakeInv, BufferInv
  PROVE  FramebufferWhole
<1> SUFFICES ASSUME Settled, Calm, env.sounds = 0, ~env.hps, NEW i \in DOMAIN image
             PROVE  LET n == (i - 1) \div WordBytes
                    IN  n \in DOMAIN fb /\ fb[n][((i - 1) % WordBytes) + 1] = image[i]
  BY DEF FramebufferWhole, Same
<1> DEFINE n == (i - 1) \div WordBytes
           r == ((i - 1) % WordBytes) + 1
<1>0. OwnOK /\ MemoryOK /\ WordBytes \in Nat /\ WordBytes > 0 /\ FrameBytes \in Nat
  BY Constants DEF BufferInv, Clear, ClearInv, EncodesPixels
<1>1. core.wr = 0
  <2>1. ~InFrame
    BY <1>0 DEF OwnOK, Settled, BlitInv, CountersOK
  <2>2. block_write_total = 0 \/ pins.reset
    BY <2>1 DEF InFrame, Resetting, Settled, BlitInv, CountersOK
  <2> QED BY <2>2 DEF TakeInv, StartedOK
<1>2. image # <<>> /\ DOMAIN image = 1..FrameBytes
  BY <1>0 DEF MemoryOK
<1>3. i \in Nat /\ i - 1 \in Nat /\ i <= FrameBytes
  BY <1>0, <1>2
<1>4. n \in Nat /\ r \in 1..WordBytes /\ WordBytes * n + r = i
  <2> DEFINE m == i - 1
  <2>1. m \in Nat /\ i = m + 1
    BY <1>3
  <2> HIDE DEF m
  <2>2. /\ m \div WordBytes \in Nat /\ m % WordBytes \in 0..WordBytes - 1
        /\ m = WordBytes * (m \div WordBytes) + (m % WordBytes)
    BY <1>0, <2>1, DivDef
  <2>3. n = m \div WordBytes /\ r = (m % WordBytes) + 1
    BY DEF m
  <2>4. WordBytes * (m \div WordBytes) \in Nat
    BY <1>0, <2>2
  <2> QED BY <1>0, <2>1, <2>2, <2>3, <2>4
<1> HIDE DEF n, r
<1>5. Reaches(n, r)
  BY <1>3, <1>4 DEF Reaches
<1>6. Present(n) /\ Stored(n)[r] = Was(i)
  BY <1>0, <1>1, <1>2, <1>4, <1>5 DEF MemoryOK
<1>7. n \in DOMAIN fb
  BY <1>6 DEF Present, Passed, Settled
<1>8. Stored(n) = fb[n] /\ Was(i) = image[i]
  BY <1>7 DEF Stored, Behind, Memory, Settled, Was
<1> QED BY <1>6, <1>7, <1>8 DEF n, r

(* Of frames told as they come, deltas or not, whatever waits of the port, of *)
(* the decoder and of the raster and whatever headers of frames that follow   *)
(* come between, the frame buffer holds after a frame just that frame, or the *)
(* frame before and the difference, as long as no sound comes between and     *)
(* nothing is lost (Groovy.sv:1402-1415, 1467-1496, ddram.sv).  For every     *)
(* size and any number of frames of LZ4 that fill the modeline.               *)
THEOREM FramebufferKept ==
  ASSUME EncodesPixels, EncodesEach
  PROVE  BlitSpec => []FramebufferWhole
<1>1. BlitInit => BlitInv /\ TakeInv /\ WholeInv /\ BufferInv
  BY BlitInitial, TakeInitial, WholeInitial, BufferInitial DEF EncodesPixels
<1>2. BlitInv /\ TakeInv /\ WholeInv /\ BufferInv /\ [BlitNext]_blitVars
      => BlitInv' /\ TakeInv' /\ WholeInv' /\ BufferInv'
  BY BlitSteps, TakeSteps, WholeSteps, BufferSteps
<1>3. BlitInv /\ TakeInv /\ BufferInv => FramebufferWhole
  BY BufferWhole
<1> QED
  BY <1>1, <1>2, <1>3, PTL DEF BlitSpec
=============================================================================
