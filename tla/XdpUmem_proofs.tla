---------------------------- MODULE XdpUmem_proofs ----------------------------
(***************************************************************************)
(* Proofs of the safety properties of XdpUmem, for rings and batches of any  *)
(* size.  The properties are not inductive: that the stack of free frames    *)
(* never runs out needs the balance of the rings, and that the frame of an   *)
(* answer is nobody else's needs the bottom of the stack, which never moves. *)
(***************************************************************************)
EXTENDS XdpUmem, TLAPS, SequenceTheorems

-----------------------------------------------------------------------------
(* The inductive invariant *)

Typed ==
  /\ umem_frame_addr \in [Frames -> Frames \union {INVALID}]
  /\ umem_frame_free \in Nat
  /\ fq \in Seq(Frames) /\ rx \in Seq(Frames) /\ tx \in Seq(Frames)
  /\ outstanding_tx \in Nat /\ inKernel \in Nat /\ cq \in Nat /\ fails \in Nat
  /\ rcvd \in Nat /\ done \in Nat
  /\ pc \in {"poll", "refill", "process"}

(* The packets at the head of rx that are processed, and whose frames are free. *)
Gone == IF pc = "process" THEN done ELSE 0

(* A frame comes back to the fill ring for every packet of the batch, before    *)
(* the batch is processed: R frames are lent, and the batch on top.             *)
Balance ==
  /\ Len(fq) + Len(rx) = RingSize + (IF pc = "process" THEN rcvd ELSE 0)
  /\ umem_frame_free + Len(fq) + Len(rx) = NumFrames + Gone
  /\ Len(fq) <= RingSize /\ Len(rx) <= RingSize
  /\ rcvd <= BatchSize /\ done <= rcvd
  /\ pc # "poll" => rcvd >= 1 /\ rcvd <= Len(rx)
  /\ pc = "refill" => done = 0
  /\ pc = "process" => done < rcvd

(* The frames of answers are those at the bottom of the stack.                  *)
Answers ==
  /\ Len(tx) <= RingSize /\ inKernel + cq <= RingSize
  /\ outstanding_tx = Len(tx) + inKernel + cq
  /\ \A i \in 0 .. 2 * RingSize - 1 : umem_frame_addr[i] = i
  /\ \A i \in 1 .. Len(tx) : tx[i] < 2 * RingSize

(* FramesConserved, position by position.                                       *)
Free    == 0 .. umem_frame_free - 1
Lent    == 1 .. Len(fq)
Waiting == Gone + 1 .. Len(rx)

Once ==
  /\ \A i \in Free : umem_frame_addr[i] \in Frames
  /\ \A i, j \in Free : umem_frame_addr[i] = umem_frame_addr[j] => i = j
  /\ \A i, j \in Lent : fq[i] = fq[j] => i = j
  /\ \A i, j \in Waiting : rx[i] = rx[j] => i = j

OneOwner ==
  /\ \A i \in Free, j \in Lent : umem_frame_addr[i] # fq[j]
  /\ \A i \in Free, j \in Waiting : umem_frame_addr[i] # rx[j]
  /\ \A i \in Lent, j \in Waiting : fq[i] # rx[j]

UmemInv == Typed /\ Balance /\ Answers /\ Once /\ OneOwner

USE DEF Frames, INVALID, LesserOf

-----------------------------------------------------------------------------
(* Sequences, element by element.                                               *)

LEMMA AppendElements ==
  ASSUME NEW S, NEW s \in Seq(S), NEW e \in S
  PROVE  /\ Append(s, e) \in Seq(S) /\ Len(Append(s, e)) = Len(s) + 1
         /\ \A i \in 1 .. Len(s) + 1 :
              Append(s, e)[i] = IF i <= Len(s) THEN s[i] ELSE e
  BY AppendProperties, LenProperties

LEMMA SuffixElements ==
  ASSUME NEW S, NEW s \in Seq(S), NEW k \in 0 .. Len(s)
  PROVE  /\ SubSeq(s, k + 1, Len(s)) \in Seq(S)
         /\ Len(SubSeq(s, k + 1, Len(s))) = Len(s) - k
         /\ \A i \in 1 .. Len(s) - k : SubSeq(s, k + 1, Len(s))[i] = s[i + k]
<1>1. Len(s) \in Nat
  BY LenProperties
<1>2. \A i \in k + 1 .. Len(s) : i \in 1 .. Len(s) /\ s[i] \in S
  BY <1>1, ElementOfSeq
<1>3. CASE k < Len(s)
  BY <1>1, <1>2, <1>3, SubSeqProperties
<1>4. CASE k = Len(s)
  BY <1>1, <1>2, <1>4, SubSeqProperties
<1> QED
  BY <1>1, <1>3, <1>4

LEMMA TailElements ==
  ASSUME NEW S, NEW s \in Seq(S), s # << >>
  PROVE  /\ Tail(s) \in Seq(S) /\ Len(Tail(s)) = Len(s) - 1 /\ Len(s) >= 1
         /\ Head(s) = s[1] /\ s[1] \in S
         /\ \A i \in 1 .. Len(s) - 1 : Tail(s)[i] = s[i + 1]
<1>1. Len(s) \in Nat /\ Len(s) >= 1
  BY LenProperties, EmptySeq
<1> QED
  BY <1>1, HeadTailProperties, ElementOfSeq

-----------------------------------------------------------------------------
(* With enough frames, refilling for a batch never empties the stack: its       *)
(* bottom, from which answers are sent, stays.                                  *)
LEMMA StackDeep ==
  ASSUME Typed, Balance
  PROVE  /\ Len(fq) \in Nat /\ Len(rx) \in Nat
         /\ umem_frame_free >= 2 * RingSize /\ umem_frame_free <= NumFrames
         /\ pc = "refill" => umem_frame_free - rcvd >= 2 * RingSize
         /\ pc = "process" => umem_frame_free < NumFrames
<1>1. Len(fq) \in Nat /\ Len(rx) \in Nat
  BY LenProperties DEF Typed
<1>2. /\ RingSize \in Nat \ {0} /\ BatchSize \in Nat \ {0} /\ NumFrames \in Nat
      /\ NumFrames >= 3 * RingSize + BatchSize
  BY UmemAssumption
<1> QED
  BY <1>1, <1>2 DEF Typed, Balance, Gone

LEMMA InitInv == UmemInit => UmemInv
<1> SUFFICES ASSUME UmemInit PROVE UmemInv
  OBVIOUS
<1>0. /\ RingSize \in Nat \ {0} /\ BatchSize \in Nat \ {0} /\ NumFrames \in Nat
      /\ NumFrames >= 3 * RingSize + BatchSize /\ MaxFails \in Nat
  BY UmemAssumption
<1>1. fq \in Seq(Frames) /\ Len(fq) = RingSize
  <2>1. \A i \in 1 .. RingSize : NumFrames - i \in Frames
    BY <1>0
  <2> QED
    BY <1>0, <2>1, LenProperties DEF UmemInit
<1>2. rx = << >> /\ tx = << >> /\ Len(rx) = 0 /\ Len(tx) = 0
  BY DEF UmemInit
<1>3. Typed
  BY <1>0, <1>1, <1>2 DEF UmemInit, Typed
<1>4. Balance
  BY <1>0, <1>1, <1>2 DEF UmemInit, Balance, Gone
<1>5. Answers
  <2>1. \A i \in 0 .. 2 * RingSize - 1 : i \in Frames /\ i < NumFrames - RingSize
    BY <1>0
  <2>2. \A i \in 0 .. 2 * RingSize - 1 : umem_frame_addr[i] = i
    BY <2>1 DEF UmemInit
  <2>3. outstanding_tx = 0 /\ inKernel = 0 /\ cq = 0
    BY DEF UmemInit
  <2> QED
    BY <1>0, <1>2, <2>2, <2>3 DEF Answers
<1>6. Once /\ OneOwner
  <2>1. \A i \in Free : i \in Frames /\ umem_frame_addr[i] = i /\ i < NumFrames - RingSize
    BY <1>0 DEF UmemInit, Free
  <2>2. \A i \in Lent : fq[i] = NumFrames - i /\ i \in 1 .. RingSize
    BY <1>1 DEF UmemInit, Lent
  <2>3. Waiting = {}
    BY <1>2 DEF UmemInit, Waiting, Gone
  <2>4. Once
    BY <1>0, <2>1, <2>2, <2>3 DEF Once
  <2>5. OneOwner
    BY <1>0, <2>1, <2>2, <2>3 DEF OneOwner
  <2> QED
    BY <2>4, <2>5
<1> QED
  BY <1>3, <1>4, <1>5, <1>6 DEF UmemInv

-----------------------------------------------------------------------------
(* The steps.  Each lemma is a step from a state of the invariant.             *)

LEMMA PeekInv == UmemInv /\ Peek => UmemInv'
<1> SUFFICES ASSUME UmemInv, Peek PROVE UmemInv'
  OBVIOUS
<1>0. BatchSize \in Nat \ {0} /\ rx \in Seq(Frames) /\ Len(rx) \in Nat /\ Len(rx) >= 1
  BY UmemAssumption, LenProperties, EmptySeq DEF UmemInv, Typed, Peek
<1>1. Typed'
  BY <1>0 DEF UmemInv, Typed, Peek, sendVars
<1>2. Balance'
  BY <1>0 DEF UmemInv, Typed, Balance, Gone, Peek, sendVars
<1>3. Answers'
  BY DEF UmemInv, Answers, Peek, sendVars
<1>4. Free' = Free /\ Lent' = Lent /\ Waiting' = Waiting
  BY DEF Peek, Free, Lent, Waiting, Gone
<1>5. Once' /\ OneOwner'
  BY <1>4 DEF UmemInv, Once, OneOwner, Peek
<1> QED
  BY <1>1, <1>2, <1>3, <1>5 DEF UmemInv

LEMMA RefillInv == UmemInv /\ Refill => UmemInv'
<1> SUFFICES ASSUME UmemInv, Refill PROVE UmemInv'
  OBVIOUS
<1>0. /\ RingSize \in Nat \ {0} /\ BatchSize \in Nat \ {0} /\ NumFrames \in Nat
      /\ umem_frame_free \in Nat /\ rcvd \in Nat /\ Len(fq) \in Nat /\ Len(rx) \in Nat
      /\ umem_frame_free - rcvd >= 2 * RingSize /\ umem_frame_free <= NumFrames
      /\ pc = "refill" /\ rcvd >= 1
  BY UmemAssumption, StackDeep DEF UmemInv, Typed, Balance, Refill
<1> DEFINE new == [i \in 1 .. rcvd |-> umem_frame_addr[umem_frame_free - i]]
<1>1. Allocated(StockFrames) = new /\ StackLeft(StockFrames) = umem_frame_free - rcvd
  BY <1>0 DEF Allocated, StockFrames, StackLeft
<1>2. \A i \in 1 .. rcvd : umem_frame_free - i \in Free /\ umem_frame_free - i \in Frames
  BY <1>0 DEF Free
<1>3. new \in Seq(Frames) /\ Len(new) = rcvd
  <2>1. \A i \in 1 .. rcvd : umem_frame_addr[umem_frame_free - i] \in Frames
    BY <1>2 DEF UmemInv, Once
  <2>2. new \in [1 .. rcvd -> Frames]
    BY <2>1
  <2> QED
    BY <2>2, <1>0, LenProperties
<1>4. /\ fq' \in Seq(Frames) /\ Len(fq') = Len(fq) + rcvd
      /\ \A i \in 1 .. Len(fq) + rcvd :
           fq'[i] = IF i <= Len(fq) THEN fq[i]
                    ELSE umem_frame_addr[umem_frame_free - (i - Len(fq))]
  <2> HIDE DEF new
  <2>1. fq' = fq \o new /\ fq \in Seq(Frames)
    BY <1>1 DEF Refill, UmemInv, Typed
  <2>2. /\ fq' \in Seq(Frames) /\ Len(fq') = Len(fq) + rcvd
        /\ \A i \in 1 .. Len(fq) + rcvd :
             fq'[i] = IF i <= Len(fq) THEN fq[i] ELSE new[i - Len(fq)]
    BY <1>3, <2>1, ConcatProperties
  <2>3. \A k \in 1 .. rcvd : new[k] = umem_frame_addr[umem_frame_free - k]
    BY DEF new
  <2>4. \A i \in 1 .. Len(fq) + rcvd : ~ i <= Len(fq) => i - Len(fq) \in 1 .. rcvd
    BY <1>0
  <2> QED
    BY <2>2, <2>3, <2>4
<1>5. /\ umem_frame_free' = umem_frame_free - rcvd
      /\ umem_frame_addr' \in [Frames -> Frames \union {INVALID}]
      /\ \A i \in Frames : i < umem_frame_free - rcvd => umem_frame_addr'[i] = umem_frame_addr[i]
  BY <1>0, <1>1 DEF Refill, UmemInv, Typed
<1> HIDE DEF new
<1>6. pc' = "process" /\ rcvd' = rcvd /\ done' = done /\ rx' = rx /\ UNCHANGED sendVars
  BY DEF Refill
<1>7. done = 0 /\ Gone = 0
  BY <1>0 DEF UmemInv, Balance, Gone
<1>8. Typed'
  BY <1>0, <1>4, <1>5, <1>6 DEF UmemInv, Typed, sendVars
<1>9. Balance'
  <2>1. Len(fq) + rcvd <= RingSize
    BY DEF Refill, RoomToRefill, StockFrames
  <2>2. Gone' = 0
    BY <1>6, <1>7 DEF Gone
  <2>3. /\ Len(fq) + Len(rx) = RingSize /\ umem_frame_free + Len(fq) + Len(rx) = NumFrames
        /\ Len(rx) <= RingSize /\ rcvd <= BatchSize /\ rcvd <= Len(rx)
    BY <1>0, <1>7 DEF UmemInv, Balance
  <2>4. Len(fq') = Len(fq) + rcvd /\ Len(rx') = Len(rx) /\ umem_frame_free' = umem_frame_free - rcvd
    BY <1>4, <1>5, <1>6
  <2> QED
    BY <1>0, <1>6, <1>7, <2>1, <2>2, <2>3, <2>4 DEF Balance
<1>10. Answers'
  <2>1. \A i \in 0 .. 2 * RingSize - 1 : i \in Frames /\ i < umem_frame_free - rcvd
    BY <1>0
  <2> QED
    BY <1>5, <1>6, <2>1 DEF UmemInv, Answers, sendVars
<1>11. /\ \A i \in Free' : i \in Free /\ i < umem_frame_free - rcvd
                          /\ umem_frame_addr'[i] = umem_frame_addr[i]
       /\ \A i \in Lent' : \/ i \in Lent /\ fq'[i] = fq[i]
                           \/ /\ i > Len(fq) /\ umem_frame_free - (i - Len(fq)) \in Free
                              /\ umem_frame_free - (i - Len(fq)) >= umem_frame_free - rcvd
                              /\ fq'[i] = umem_frame_addr[umem_frame_free - (i - Len(fq))]
       /\ Waiting' = Waiting
  <2>1. \A i \in Free' : i \in Frames /\ i < umem_frame_free - rcvd /\ i \in Free
    BY <1>0, <1>5 DEF Free
  <2>2. \A i \in Lent' : i \in 1 .. Len(fq) + rcvd
    BY <1>4 DEF Lent
  <2>3. Waiting' = Waiting
    BY <1>0, <1>6, <1>7 DEF Waiting, Gone
  <2> QED
    BY <1>0, <1>4, <1>5, <2>1, <2>2, <2>3 DEF Free, Lent
<1>12. Once'
  <2>1. \A i, j \in Lent' : fq'[i] = fq'[j] => i = j
    BY <1>0, <1>11 DEF UmemInv, Once, OneOwner, Lent
  <2> QED
    BY <1>6, <1>11, <2>1 DEF UmemInv, Once
<1>13. OneOwner'
  <2>1. \A i \in Free', j \in Lent' : umem_frame_addr'[i] # fq'[j]
    <3> SUFFICES ASSUME NEW i \in Free', NEW j \in Lent' PROVE umem_frame_addr'[i] # fq'[j]
      OBVIOUS
    <3>1. CASE j \in Lent /\ fq'[j] = fq[j]
      BY <1>11, <3>1 DEF UmemInv, OneOwner
    <3>2. CASE ~ (j \in Lent /\ fq'[j] = fq[j])
      <4> DEFINE k == umem_frame_free - (j - Len(fq))
      <4>1. k \in Free /\ k >= umem_frame_free - rcvd /\ fq'[j] = umem_frame_addr[k]
        BY <1>11, <3>2
      <4>2. i \in Free /\ i < umem_frame_free - rcvd /\ umem_frame_addr'[i] = umem_frame_addr[i]
        BY <1>11
      <4>3. i # k
        BY <1>0, <4>1, <4>2 DEF Free
      <4> QED
        BY <4>1, <4>2, <4>3 DEF UmemInv, Once
    <3> QED
      BY <3>1, <3>2
  <2>2. \A i \in Free', j \in Waiting' : umem_frame_addr'[i] # rx'[j]
    BY <1>6, <1>11 DEF UmemInv, OneOwner
  <2>3. \A i \in Lent', j \in Waiting' : fq'[i] # rx'[j]
    BY <1>6, <1>11 DEF UmemInv, OneOwner
  <2> QED
    BY <2>1, <2>2, <2>3 DEF OneOwner
<1> QED
  BY <1>8, <1>9, <1>10, <1>12, <1>13 DEF UmemInv

LEMMA ProcessInv == UmemInv /\ Process => UmemInv'
<1> SUFFICES ASSUME UmemInv, Process PROVE UmemInv'
  OBVIOUS
<1>0. /\ RingSize \in Nat \ {0} /\ BatchSize \in Nat \ {0} /\ NumFrames \in Nat
      /\ umem_frame_free \in Nat /\ rcvd \in Nat /\ done \in Nat
      /\ Len(fq) \in Nat /\ Len(rx) \in Nat
      /\ umem_frame_free >= 2 * RingSize /\ umem_frame_free < NumFrames
      /\ pc = "process" /\ done < rcvd /\ rcvd <= Len(rx) /\ Gone = done
  BY UmemAssumption, StackDeep DEF UmemInv, Typed, Balance, Process, Gone
<1>1. done + 1 \in Waiting /\ rx[done + 1] \in Frames /\ rx \in Seq(Frames)
  BY <1>0, ElementOfSeq DEF Waiting, UmemInv, Typed
<1>2. /\ umem_frame_addr' \in [Frames -> Frames \union {INVALID}]
      /\ umem_frame_addr'[umem_frame_free] = rx[done + 1]
      /\ \A i \in Frames : i # umem_frame_free => umem_frame_addr'[i] = umem_frame_addr[i]
      /\ umem_frame_free' = umem_frame_free + 1
  BY <1>0, <1>1 DEF UmemInv, Typed, Process
<1>3. fq' = fq /\ rcvd' = rcvd /\ done' = done + 1 /\ UNCHANGED sendVars
  BY DEF Process
(* What is left of rx, and where its frames were. *)
<1>4. /\ rx' \in Seq(Frames) /\ pc' \in {"poll", "process"}
      /\ pc' = "process" => done + 1 < rcvd /\ rx' = rx
      /\ Len(rx') \in Nat /\ Len(rx') - Gone' = Len(rx) - Gone - 1
      /\ pc' = "poll" => done + 1 = rcvd /\ Len(rx') = Len(rx) - rcvd
      /\ \A i \in Waiting' : /\ i + (done + 1 - Gone') \in Waiting
                             /\ i + (done + 1 - Gone') # done + 1
                             /\ rx'[i] = rx[i + (done + 1 - Gone')]
  <2>1. CASE done + 1 = rcvd
    <3>1. pc' = "poll" /\ rx' = SubSeq(rx, rcvd + 1, Len(rx)) /\ Gone' = 0
      BY <2>1 DEF Process, Gone
    <3>0. rcvd \in 0 .. Len(rx) /\ rx \in Seq(Frames)
      BY <1>0, <1>1
    <3>2. /\ rx' \in Seq(Frames) /\ Len(rx') = Len(rx) - rcvd
          /\ \A i \in 1 .. Len(rx) - rcvd : rx'[i] = rx[i + rcvd]
      BY <3>0, <3>1, SuffixElements, Zenon
    <3>3. \A i \in Waiting' : i \in 1 .. Len(rx) - rcvd
      BY <3>1, <3>2 DEF Waiting
    <3>4. \A i \in 1 .. Len(rx) - rcvd : i + rcvd \in Waiting /\ i + rcvd # done + 1
      BY <1>0, <2>1 DEF Waiting
    <3>5. done + 1 - Gone' = rcvd
      BY <1>0, <2>1, <3>1
    <3>6. \A i \in Waiting' : /\ i + (done + 1 - Gone') \in Waiting
                              /\ i + (done + 1 - Gone') # done + 1
                              /\ rx'[i] = rx[i + (done + 1 - Gone')]
      BY <3>2, <3>3, <3>4, <3>5, Zenon
    <3>7. Len(rx') \in Nat /\ Len(rx') - Gone' = Len(rx) - Gone - 1
      BY <1>0, <2>1, <3>1, <3>2
    <3> QED
      BY <2>1, <3>1, <3>2, <3>6, <3>7
  <2>2. CASE done + 1 # rcvd
    <3>1. pc' = "process" /\ rx' = rx /\ Gone' = done + 1
      BY <1>0, <2>2 DEF Process, Gone
    <3>2. \A i \in Waiting' : i \in Waiting /\ i # done + 1 /\ i + (done + 1 - Gone') = i
      BY <1>0, <3>1 DEF Waiting
    <3>3. done + 1 < rcvd /\ Len(rx') - Gone' = Len(rx) - Gone - 1
      BY <1>0, <2>2, <3>1
    <3> QED
      BY <1>0, <1>1, <3>1, <3>2, <3>3
  <2> QED
    BY <2>1, <2>2
<1>5. Typed'
  BY <1>0, <1>2, <1>3, <1>4 DEF UmemInv, Typed, sendVars
<1>6. Balance'
  <2>1. CASE pc' = "poll"
    <3>1. Gone' = 0
      BY <2>1 DEF Gone
    <3>2. /\ Len(fq) + Len(rx) = RingSize + rcvd
          /\ umem_frame_free + Len(fq) + Len(rx) = NumFrames + done
          /\ Len(fq) <= RingSize /\ Len(rx) <= RingSize /\ rcvd <= BatchSize
      BY <1>0 DEF UmemInv, Balance
    <3>3. done + 1 = rcvd /\ Len(rx') = Len(rx) - rcvd
      BY <1>4, <2>1
    <3>4. umem_frame_free' = umem_frame_free + 1 /\ fq' = fq /\ rcvd' = rcvd /\ done' = done + 1
      BY <1>2, <1>3
    <3> QED
      BY <1>0, <2>1, <3>1, <3>2, <3>3, <3>4 DEF Balance
  <2>2. CASE pc' = "process"
    <3>1. Gone' = done + 1
      BY <1>3, <2>2 DEF Gone
    <3>2. /\ Len(fq) + Len(rx) = RingSize + rcvd
          /\ umem_frame_free + Len(fq) + Len(rx) = NumFrames + done
          /\ Len(fq) <= RingSize /\ Len(rx) <= RingSize /\ rcvd <= BatchSize
      BY <1>0 DEF UmemInv, Balance
    <3>3. done + 1 < rcvd /\ rx' = rx
      BY <1>4, <2>2
    <3>4. umem_frame_free' = umem_frame_free + 1 /\ fq' = fq /\ rcvd' = rcvd /\ done' = done + 1
      BY <1>2, <1>3
    <3> QED
      BY <1>0, <2>2, <3>1, <3>2, <3>3, <3>4 DEF Balance
  <2> QED
    BY <1>4, <2>1, <2>2
<1>7. Answers'
  <2>1. \A i \in 0 .. 2 * RingSize - 1 : i \in Frames /\ i # umem_frame_free
    BY <1>0
  <2> QED
    BY <1>2, <1>3, <2>1 DEF UmemInv, Answers, sendVars
<1>8. /\ Lent' = Lent
      /\ \A i \in Free' : \/ i \in Free /\ umem_frame_addr'[i] = umem_frame_addr[i]
                          \/ i = umem_frame_free /\ umem_frame_addr'[i] = rx[done + 1]
  <2>1. \A i \in Free' : \/ i \in Free /\ i \in Frames /\ i # umem_frame_free
                         \/ i = umem_frame_free
    BY <1>0, <1>2 DEF Free
  <2>2. Lent' = Lent
    BY <1>3 DEF Lent
  <2>3. ASSUME NEW i \in Free'
        PROVE  \/ i \in Free /\ umem_frame_addr'[i] = umem_frame_addr[i]
               \/ i = umem_frame_free /\ umem_frame_addr'[i] = rx[done + 1]
    BY <1>2, <2>1
  <2> QED
    BY <2>2, <2>3
<1>9. Once'
  <2>1. \A i \in Free' : umem_frame_addr'[i] \in Frames
    BY <1>1, <1>8 DEF UmemInv, Once
  <2>2. \A i, j \in Free' : umem_frame_addr'[i] = umem_frame_addr'[j] => i = j
    BY <1>1, <1>8 DEF UmemInv, Once, OneOwner
  <2>3. \A i, j \in Lent' : fq'[i] = fq'[j] => i = j
    BY <1>3, <1>8 DEF UmemInv, Once
  <2>4. \A i, j \in Waiting' : rx'[i] = rx'[j] => i = j
    <3>1. \A i, j \in Waiting' : i \in Int /\ j \in Int
      BY <1>0, <1>3, <1>4 DEF Waiting, Gone
    <3>2. done + 1 - Gone' \in Int
      BY <1>0, <1>3 DEF Gone
    <3> QED
      BY <1>4, <3>1, <3>2 DEF UmemInv, Once
  <2> QED
    BY <2>1, <2>2, <2>3, <2>4 DEF Once
<1>10. OneOwner'
  <2>1. \A i \in Free', j \in Lent' : umem_frame_addr'[i] # fq'[j]
    BY <1>1, <1>3, <1>8 DEF UmemInv, OneOwner
  <2>2. \A i \in Free', j \in Waiting' : umem_frame_addr'[i] # rx'[j]
    BY <1>1, <1>4, <1>8 DEF UmemInv, Once, OneOwner
  <2>3. \A i \in Lent', j \in Waiting' : fq'[i] # rx'[j]
    BY <1>3, <1>4, <1>8 DEF UmemInv, OneOwner
  <2> QED
    BY <2>1, <2>2, <2>3 DEF OneOwner
<1> QED
  BY <1>5, <1>6, <1>7, <1>9, <1>10 DEF UmemInv

LEMMA ReceivesInv == UmemInv /\ KernelReceives => UmemInv'
<1> SUFFICES ASSUME UmemInv, KernelReceives PROVE UmemInv'
  OBVIOUS
<1>0. /\ RingSize \in Nat \ {0} /\ BatchSize \in Nat \ {0} /\ NumFrames \in Nat
      /\ umem_frame_free \in Nat /\ rcvd \in Nat /\ done \in Nat
      /\ Len(fq) \in Nat /\ Len(rx) \in Nat /\ Gone \in Nat /\ Gone <= Len(rx)
      /\ fq \in Seq(Frames) /\ rx \in Seq(Frames) /\ fq # << >> /\ Len(rx) < RingSize
  <2>1. Len(fq) \in Nat /\ Len(rx) \in Nat
    BY StackDeep DEF UmemInv
  <2>2. Gone \in Nat /\ Gone <= Len(rx)
    BY <2>1 DEF UmemInv, Typed, Balance, Gone
  <2> QED
    BY <2>1, <2>2, UmemAssumption DEF UmemInv, Typed, KernelReceives
<1>1. /\ Len(fq) >= 1 /\ fq[1] \in Frames
      /\ fq' \in Seq(Frames) /\ Len(fq') = Len(fq) - 1
      /\ \A i \in 1 .. Len(fq) - 1 : fq'[i] = fq[i + 1]
  BY <1>0, TailElements, Zenon DEF KernelReceives
<1>2. /\ rx' \in Seq(Frames) /\ Len(rx') = Len(rx) + 1
      /\ \A i \in 1 .. Len(rx) + 1 : rx'[i] = IF i <= Len(rx) THEN rx[i] ELSE fq[1]
  <2>1. rx' = Append(rx, fq[1])
    BY <1>0, TailElements, Zenon DEF KernelReceives
  <2> HIDE DEF Frames
  <2> QED
    BY <1>0, <1>1, <2>1, AppendElements
<1>3. /\ umem_frame_addr' = umem_frame_addr /\ umem_frame_free' = umem_frame_free
      /\ pc' = pc /\ rcvd' = rcvd /\ done' = done /\ Gone' = Gone
      /\ outstanding_tx' = outstanding_tx /\ tx' = tx /\ inKernel' = inKernel /\ cq' = cq
      /\ fails' = fails
  BY DEF KernelReceives, sendVars, Gone
<1>4. Typed'
  BY <1>1, <1>2, <1>3 DEF UmemInv, Typed
<1>5. Balance'
  <2>1. Len(fq') = Len(fq) - 1 /\ Len(rx') = Len(rx) + 1
    BY <1>1, <1>2
  <2>2. Len(fq) + Len(rx) = Len(fq') + Len(rx') /\ Len(fq') <= Len(fq) /\ Len(rx') <= RingSize
    BY <1>0, <2>1
  <2>3. umem_frame_free + Len(fq) + Len(rx) = umem_frame_free + Len(fq') + Len(rx')
    BY <1>0, <2>1
  <2>4. /\ umem_frame_free + Len(fq) + Len(rx) = NumFrames + Gone
        /\ Len(fq) + Len(rx) = RingSize + (IF pc = "process" THEN rcvd ELSE 0)
        /\ Len(fq) <= RingSize
        /\ rcvd <= BatchSize /\ done <= rcvd
        /\ pc # "poll" => rcvd >= 1 /\ rcvd <= Len(rx)
        /\ pc = "refill" => done = 0
        /\ pc = "process" => done < rcvd
    BY DEF UmemInv, Balance
  <2>5. Len(fq') <= RingSize /\ (rcvd <= Len(rx) => rcvd <= Len(rx'))
    BY <1>0, <2>1, <2>4, SMTT(60)
  <2> QED
    BY <1>3, <2>2, <2>3, <2>4, <2>5 DEF Balance
<1>6. Answers'
  BY <1>3 DEF UmemInv, Answers
<1>7. /\ Free' = Free
      /\ \A i \in Lent' : i + 1 \in Lent /\ i + 1 # 1 /\ fq'[i] = fq[i + 1]
      /\ 1 \in Lent
      /\ \A i \in Waiting' : \/ i \in Waiting /\ rx'[i] = rx[i]
                             \/ i = Len(rx) + 1 /\ rx'[i] = fq[1]
  <2>1. \A i \in Lent' : i \in 1 .. Len(fq) - 1
    BY <1>0, <1>1 DEF Lent
  <2>2. \A i \in 1 .. Len(fq) - 1 : i + 1 \in Lent /\ i + 1 # 1
    BY <1>0 DEF Lent
  <2>3. \A i \in Waiting' : /\ i \in 1 .. Len(rx) + 1
                            /\ \/ i <= Len(rx) /\ i \in Waiting
                               \/ i = Len(rx) + 1 /\ ~ i <= Len(rx)
    BY <1>0, <1>2, <1>3 DEF Waiting
  <2>4. Free' = Free /\ 1 \in Lent
    BY <1>0, <1>1, <1>3 DEF Free, Lent
  <2>5. \A i \in Lent' : i + 1 \in Lent /\ i + 1 # 1 /\ fq'[i] = fq[i + 1]
    BY <1>1, <2>1, <2>2, Zenon
  <2>6. \A i \in Waiting' : \/ i \in Waiting /\ rx'[i] = rx[i]
                            \/ i = Len(rx) + 1 /\ rx'[i] = fq[1]
    BY <1>2, <2>3, Zenon
  <2> QED
    BY <2>4, <2>5, <2>6
<1>8. Once'
  <2>1. \A i, j \in Lent' : fq'[i] = fq'[j] => i = j
    <3>1. \A i, j \in Lent' : i \in Int /\ j \in Int /\ (i + 1 = j + 1 => i = j)
      BY <1>1, <1>0 DEF Lent
    <3> QED
      BY <1>7, <3>1 DEF UmemInv, Once
  <2>2. \A i, j \in Waiting' : rx'[i] = rx'[j] => i = j
    BY <1>7 DEF UmemInv, Once, OneOwner
  <2> QED
    BY <1>3, <1>7, <2>1, <2>2 DEF UmemInv, Once
<1>9. OneOwner'
  <2>1. \A i \in Free', j \in Lent' : umem_frame_addr'[i] # fq'[j]
    BY <1>3, <1>7 DEF UmemInv, OneOwner
  <2>2. \A i \in Free', j \in Waiting' : umem_frame_addr'[i] # rx'[j]
    BY <1>3, <1>7 DEF UmemInv, OneOwner
  <2>3. \A i \in Lent', j \in Waiting' : fq'[i] # rx'[j]
    BY <1>7 DEF UmemInv, Once, OneOwner
  <2> QED
    BY <2>1, <2>2, <2>3 DEF OneOwner
<1> QED
  BY <1>4, <1>5, <1>6, <1>8, <1>9 DEF UmemInv

LEMMA CompletesInv == UmemInv /\ KernelCompletes => UmemInv'
<1> SUFFICES ASSUME UmemInv, KernelCompletes PROVE UmemInv'
  OBVIOUS
<1>1. UNCHANGED receiveVars /\ tx' = tx /\ outstanding_tx' = outstanding_tx /\ fails' = fails
  BY DEF KernelCompletes
<1>2. Typed' /\ inKernel' + cq' = inKernel + cq
  BY <1>1 DEF KernelCompletes, UmemInv, Typed, receiveVars
<1>3. Balance' /\ Once' /\ OneOwner'
  BY <1>1 DEF UmemInv, Balance, Once, OneOwner, Free, Lent, Waiting, Gone, receiveVars
<1>4. Answers'
  <2>1. inKernel + cq <= RingSize /\ outstanding_tx = Len(tx) + (inKernel + cq)
    BY LenProperties DEF UmemInv, Answers, Typed
  <2>2. Len(tx) \in Nat /\ inKernel' \in Nat /\ cq' \in Nat
    BY <1>2, LenProperties DEF UmemInv, Typed
  <2>3. outstanding_tx' = Len(tx') + inKernel' + cq'
    BY <1>1, <1>2, <2>1, <2>2
  <2> QED
    BY <1>1, <1>2, <2>1, <2>3 DEF UmemInv, Answers, receiveVars
<1> QED
  BY <1>2, <1>3, <1>4 DEF UmemInv

LEMMA AnswerInv == UmemInv /\ Answer => UmemInv'
<1> SUFFICES ASSUME UmemInv, Answer PROVE UmemInv'
  OBVIOUS
<1>0. /\ RingSize \in Nat \ {0} /\ NumFrames \in Nat /\ umem_frame_free \in Nat
      /\ umem_frame_free >= 2 * RingSize /\ umem_frame_free <= NumFrames
      /\ tx \in Seq(Frames) /\ Len(tx) \in Nat /\ inKernel \in Nat /\ cq \in Nat
      /\ outstanding_tx \in Nat /\ fails \in Nat
      /\ Len(tx) <= RingSize /\ inKernel + cq <= RingSize
      /\ outstanding_tx = Len(tx) + inKernel + cq
  BY UmemAssumption, StackDeep, LenProperties DEF UmemInv, Typed, Answers
<1>1. UNCHANGED receiveVars
  BY DEF Answer
<1>2. Balance' /\ Once' /\ OneOwner'
  BY <1>1 DEF UmemInv, Balance, Once, OneOwner, Free, Lent, Waiting, Gone, receiveVars
<1>3. CASE UNCHANGED sendVars
  BY <1>1, <1>2, <1>3 DEF UmemInv, Typed, Answers, receiveVars, sendVars
<1>4. CASE Len(tx) < RingSize /\ ~ UNCHANGED sendVars
  <2> DEFINE posted == Append(tx, TxFrame)
             room   == LesserOf(Len(tx) + 1, RingSize - inKernel - cq)
  <2>1. TxFrame = outstanding_tx /\ TxFrame < 2 * RingSize /\ TxFrame \in Frames
    <3>1. outstanding_tx \in 0 .. 2 * RingSize - 1
      BY <1>0, <1>4
    <3>2. TxFrame = outstanding_tx
      BY <3>1 DEF TxFrame, UmemInv, Answers
    <3> QED
      BY <1>0, <3>1, <3>2
  <2>2. /\ posted \in Seq(Frames) /\ Len(posted) = Len(tx) + 1
        /\ \A i \in 1 .. Len(tx) + 1 : posted[i] = IF i <= Len(tx) THEN tx[i] ELSE TxFrame
    <3> HIDE DEF Frames
    <3> QED
      BY <1>0, <2>1, AppendElements
  <2>3. \A i \in 1 .. Len(posted) : posted[i] < 2 * RingSize
    <3>1. \A i \in 1 .. Len(tx) : tx[i] < 2 * RingSize
      BY DEF UmemInv, Answers
    <3>2. \A i \in 1 .. Len(tx) + 1 : i <= Len(tx) => i \in 1 .. Len(tx)
      BY <1>0
    <3> QED
      BY <2>1, <2>2, <3>1, <3>2
  <2>4. room \in 0 .. Len(posted) /\ room <= RingSize - inKernel - cq
    BY <1>0, <2>2
  <2> HIDE DEF posted, room
  <2>5. \/ tx' = SubSeq(posted, room + 1, Len(posted)) /\ inKernel' = inKernel + room /\ fails' = fails
        \/ tx' = posted /\ inKernel' = inKernel /\ fails' = fails + 1
    BY <1>4 DEF Answer, Send, posted, room
  <2>6. /\ cq' = cq - CompletionsRead(cq) /\ CompletionsRead(cq) \in 0 .. cq
        /\ outstanding_tx' = outstanding_tx + 1 - CompletionsRead(cq)
    <3>1. CompletionsRead(cq) \in 0 .. cq
      BY <1>0 DEF CompletionsRead
    <3> QED
      BY <1>4, <3>1 DEF Answer, Send
  <2>7. /\ tx' \in Seq(Frames) /\ \A i \in 1 .. Len(tx') : tx'[i] < 2 * RingSize
        /\ inKernel' \in Nat /\ fails' \in Nat /\ Len(tx') \in Nat
        /\ Len(tx') + inKernel' = Len(tx) + 1 + inKernel
        /\ Len(tx') <= RingSize /\ inKernel' + cq <= RingSize
    <3>1. CASE tx' = SubSeq(posted, room + 1, Len(posted)) /\ inKernel' = inKernel + room
               /\ fails' = fails
      <4>1. /\ tx' \in Seq(Frames) /\ Len(tx') = Len(posted) - room
            /\ \A i \in 1 .. Len(posted) - room : tx'[i] = posted[i + room]
        BY <2>2, <2>4, <3>1, SuffixElements, Zenon
      <4>2. \A i \in 1 .. Len(posted) - room : i + room \in 1 .. Len(posted)
        BY <1>0, <2>2, <2>4
      <4>3. \A i \in 1 .. Len(tx') : tx'[i] < 2 * RingSize
        BY <2>3, <4>1, <4>2
      <4>4. Len(tx') = Len(tx) + 1 - room /\ room \in Nat
        BY <1>0, <2>2, <2>4, <4>1
      <4>5. Len(tx) < RingSize /\ room <= Len(tx) + 1 /\ inKernel' = inKernel + room
        BY <1>4, <2>2, <2>4, <3>1
      <4>6. /\ Len(tx') + inKernel' = Len(tx) + 1 + inKernel
            /\ Len(tx') <= RingSize /\ inKernel' + cq <= RingSize
            /\ Len(tx') \in Nat /\ inKernel' \in Nat
        BY <1>0, <2>4, <4>4, <4>5
      <4> QED
        BY <1>0, <3>1, <4>1, <4>3, <4>6
    <3>2. CASE tx' = posted /\ inKernel' = inKernel /\ fails' = fails + 1
      BY <1>0, <1>4, <2>2, <2>3, <3>2, SMTT(60)
    <3> QED
      BY <2>5, <3>1, <3>2
  <2>8. Typed'
    <3>1. outstanding_tx' \in Nat /\ cq' \in Nat
      BY <1>0, <2>6
    <3> QED
      BY <1>1, <2>7, <3>1 DEF UmemInv, Typed, receiveVars
  <2>9. Answers'
    <3>1. umem_frame_addr' = umem_frame_addr
      BY <1>1 DEF receiveVars
    <3>2. inKernel' + cq' <= RingSize /\ outstanding_tx' = Len(tx') + inKernel' + cq'
      <4> DEFINE c == CompletionsRead(cq)
      <4>1. c \in 0 .. cq /\ cq' = cq - c /\ outstanding_tx' = outstanding_tx + 1 - c
        BY <2>6
      <4> HIDE DEF c
      <4>2. /\ inKernel' \in Nat /\ Len(tx') \in Nat /\ inKernel' + cq <= RingSize
            /\ Len(tx') + inKernel' = Len(tx) + 1 + inKernel
        BY <2>7
      <4>3. /\ Len(tx) \in Nat /\ inKernel \in Nat /\ cq \in Nat /\ RingSize \in Nat
            /\ outstanding_tx = Len(tx) + inKernel + cq
        BY <1>0
      <4>4. c \in Nat /\ c <= cq
        BY <4>1, <4>3
      <4>5. inKernel' + cq' <= RingSize
        <5>1. cq' \in Nat /\ cq' <= cq
          BY <4>1, <4>3, <4>4
        <5>2. inKernel' \in Nat /\ inKernel' + cq <= RingSize
          BY <4>2
        <5>3. \A a, b, d, r \in Nat : a + b <= r /\ d <= b => a + d <= r
          OBVIOUS
        <5> QED
          BY <4>3, <5>1, <5>2, <5>3, Zenon
      <4>6. outstanding_tx' = Len(tx') + inKernel' + cq'
        BY <4>1, <4>2, <4>3, <4>4
      <4> QED
        BY <4>5, <4>6
    <3> QED
      BY <2>7, <3>1, <3>2 DEF UmemInv, Answers
  <2> QED
    BY <1>2, <2>8, <2>9 DEF UmemInv
<1> QED
  BY <1>3, <1>4 DEF Answer, Send

-----------------------------------------------------------------------------
LEMMA NextInv == UmemInv /\ [UmemNext]_umemVars => UmemInv'
<1> SUFFICES ASSUME UmemInv, [UmemNext]_umemVars PROVE UmemInv'
  OBVIOUS
<1>1. CASE UNCHANGED umemVars
  BY <1>1 DEF UmemInv, Typed, Balance, Answers, Once, OneOwner, Free, Lent, Waiting, Gone,
              umemVars, receiveVars, sendVars
<1> QED
  BY <1>1, PeekInv, RefillInv, ProcessInv, AnswerInv, ReceivesInv, CompletesInv DEF UmemNext

LEMMA UmemInvariant == UmemSpec => []UmemInv
<1> QED
  BY InitInv, NextInv, PTL DEF UmemSpec

-----------------------------------------------------------------------------
(* The properties *)

(* The variables keep their types and the rings their sizes: no frame index    *)
(* leaves umem, and outstanding_tx counts the answers on their way.            *)
THEOREM UmemTyped == UmemSpec => []UmemTypeOK
<1>1. UmemInv => UmemTypeOK
  <2> SUFFICES ASSUME UmemInv PROVE UmemTypeOK
    OBVIOUS
  <2>1. umem_frame_free \in 0 .. NumFrames
    BY StackDeep, UmemAssumption DEF UmemInv, Typed
  <2> QED
    BY <2>1 DEF UmemInv, Typed, Balance, Answers, UmemTypeOK
<1> QED
  BY <1>1, UmemInvariant, PTL

(* Pending is the part of rx in Waiting. *)
LEMMA PendingElements ==
  ASSUME UmemInv
  PROVE  /\ Len(rx) \in Nat /\ Gone \in 0 .. Len(rx)
         /\ Pending \in Seq(Frames) /\ Len(Pending) = Len(rx) - Gone
         /\ DOMAIN Pending = 1 .. Len(rx) - Gone
         /\ \A i \in DOMAIN Pending : Pending[i] = rx[i + Gone] /\ i + Gone \in Waiting
<1>1. Len(rx) \in Nat /\ Gone \in 0 .. Len(rx) /\ rx \in Seq(Frames)
  BY StackDeep DEF UmemInv, Typed, Balance, Gone
<1>2. /\ Pending \in Seq(Frames) /\ Len(Pending) = Len(rx) - Gone
      /\ \A i \in 1 .. Len(rx) - Gone : Pending[i] = rx[i + Gone]
  <2>1. CASE pc = "process"
    <3>1. Gone = done /\ Pending = SubSeq(rx, done + 1, Len(rx))
      BY <2>1 DEF Gone, Pending
    <3> HIDE DEF Frames
    <3> QED
      BY <1>1, <3>1, SuffixElements
  <2>2. CASE pc # "process"
    <3>1. Gone = 0 /\ Pending = rx
      BY <2>2 DEF Gone, Pending
    <3> QED
      BY <1>1, <3>1
  <2> QED
    BY <2>1, <2>2
<1>3. DOMAIN Pending = 1 .. Len(rx) - Gone
  BY <1>2, LenProperties
<1>4. \A i \in 1 .. Len(rx) - Gone : i + Gone \in Waiting
  BY <1>1 DEF Waiting
<1> QED
  BY <1>1, <1>2, <1>3, <1>4

(* No frame of umem is leaked, lent twice or lent while a packet is in it.     *)
THEOREM FramesSafe == UmemSpec => []FramesConserved
<1>1. UmemInv => FramesConserved
  <2> SUFFICES ASSUME UmemInv PROVE FramesConserved
    OBVIOUS
  <2>0. /\ umem_frame_free \in Nat /\ umem_frame_free <= NumFrames /\ NumFrames \in Nat
        /\ Len(fq) \in Nat /\ fq \in Seq(Frames) /\ DOMAIN fq = Lent
        /\ pc = "process" => umem_frame_free < NumFrames
    BY StackDeep, UmemAssumption, LenProperties DEF UmemInv, Typed, Lent
  <2>1. umem_frame_free + Len(fq) + Len(Pending) = NumFrames
    <3>1. umem_frame_free + Len(fq) + Len(rx) = NumFrames + Gone
      BY DEF UmemInv, Balance
    <3> QED
      BY <2>0, <3>1, PendingElements, SMTT(60)
  <2>2. /\ DOMAIN FreeStack = 1 .. umem_frame_free
        /\ \A i \in DOMAIN FreeStack : i - 1 \in Free /\ FreeStack[i] = umem_frame_addr[i - 1]
    BY <2>0 DEF FreeStack, Free
  <2>3. Distinct(FreeStack) /\ \A i \in DOMAIN FreeStack : FreeStack[i] \in Frames
    <3>1. \A i, j \in DOMAIN FreeStack : i - 1 = j - 1 => i = j
      BY <2>2
    <3> QED
      BY <2>2, <3>1 DEF Distinct, UmemInv, Once
  <2>4. Distinct(fq) /\ \A i \in DOMAIN fq : fq[i] \in Frames
    BY <2>0, ElementOfSeq DEF Distinct, UmemInv, Once, Lent
  <2>5. Distinct(Pending) /\ \A i \in DOMAIN Pending : Pending[i] \in Frames
    <3>1. \A i, j \in DOMAIN Pending : i + Gone = j + Gone => i = j
      BY PendingElements
    <3>2. \A i \in DOMAIN Pending : Pending[i] \in Frames
      BY PendingElements, ElementOfSeq
    <3> QED
      BY <3>1, <3>2, PendingElements DEF Distinct, UmemInv, Once
  <2>6. \A i \in DOMAIN Pending : Pending[i] = rx[i + Gone] /\ i + Gone \in Waiting
    BY PendingElements, Zenon
  <2>7. Apart(FreeStack, fq)
    BY <2>0, <2>2 DEF Apart, UmemInv, OneOwner
  <2>8. Apart(FreeStack, Pending)
    BY <2>2, <2>6 DEF Apart, UmemInv, OneOwner
  <2>9. Apart(fq, Pending)
    BY <2>0, <2>6 DEF Apart, UmemInv, OneOwner
  <2> QED
    BY <2>0, <2>1, <2>3, <2>4, <2>5, <2>7, <2>8, <2>9 DEF FramesConserved
<1> QED
  BY <1>1, UmemInvariant, PTL

(* The server never spins for room in the fill ring.                           *)
THEOREM RefillSafe == UmemSpec => []RefillNeverWaits
<1>1. UmemInv => RefillNeverWaits
  BY StackDeep, UmemAssumption
     DEF UmemInv, Typed, Balance, Gone, RefillNeverWaits, RoomToRefill, StockFrames
<1> QED
  BY <1>1, UmemInvariant, PTL

(* No answer is written over a packet.                                         *)
THEOREM AnswersSafe == UmemSpec => []AnswersApart
<1>1. UmemInv => AnswersApart
  <2> SUFFICES ASSUME UmemInv PROVE AnswersApart
    OBVIOUS
  <2>0. /\ RingSize \in Nat \ {0} /\ NumFrames \in Nat /\ umem_frame_free >= 2 * RingSize
        /\ umem_frame_free \in Nat /\ DOMAIN fq = Lent
        /\ tx \in Seq(Frames) /\ DOMAIN tx = 1 .. Len(tx)
    BY StackDeep, UmemAssumption, LenProperties DEF UmemInv, Typed, Lent
  <2>1. \A i \in DOMAIN tx : tx[i] \in Frames
    BY <2>0, ElementOfSeq
  <2>2. \A i \in DOMAIN tx : tx[i] \in Free /\ umem_frame_addr[tx[i]] = tx[i]
    <3>1. \A i \in DOMAIN tx : tx[i] \in Nat /\ tx[i] < 2 * RingSize
      BY <2>0, <2>1 DEF UmemInv, Answers
    <3>2. \A i \in DOMAIN tx : tx[i] \in 0 .. 2 * RingSize - 1
      BY <2>0, <3>1
    <3> QED
      BY <2>0, <3>1, <3>2 DEF Free, UmemInv, Answers
  <2>3. \A i \in DOMAIN Pending : Pending[i] = rx[i + Gone] /\ i + Gone \in Waiting
    BY PendingElements, Zenon
  <2>4. Apart(tx, fq)
    BY <2>0, <2>2 DEF Apart, UmemInv, OneOwner
  <2>5. Apart(tx, Pending)
    BY <2>2, <2>3 DEF Apart, UmemInv, OneOwner
  <2> QED
    BY <2>0, <2>1, <2>4, <2>5 DEF AnswersApart
<1> QED
  BY <1>1, UmemInvariant, PTL


=============================================================================
