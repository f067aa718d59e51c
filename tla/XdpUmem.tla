------------------------------- MODULE XdpUmem -------------------------------
(***************************************************************************)
(* The memory of the AF_XDP server (groovy.cpp): umem is divided in frames   *)
(* which the server gives the kernel to receive into (the fill ring), takes  *)
(* back with a packet (the receive ring), and returns to a stack of free     *)
(* frames.  Answers are transmitted from frames of that stack too, without   *)
(* taking them off it: the frame of an answer is the one at the position     *)
(* outstanding_tx from the bottom.                                           *)
(*                                                                         *)
(* The server runs handle_receive_packets in three steps, between which the  *)
(* kernel goes on: peek, refill, and process a packet.  Answers are sent      *)
(* while a packet is processed, input reports between two calls of it.        *)
(*                                                                         *)
(* Of the kernel (XDP_COPY): it takes frames from the fill ring in order,    *)
(* copies packets into them, and copies the answers it transmits when the    *)
(* server calls sendto, unless that call fails; it announces later on the    *)
(* completion ring that they are gone.  A packet that finds the receive ring *)
(* full is dropped, and its frame serves the next one.                       *)
(***************************************************************************)
EXTENDS Naturals, Sequences

CONSTANTS
  NumFrames,   \* XDP_NUM_FRAMES
  RingSize,    \* XSK_RING_PROD__DEFAULT_NUM_DESCS, the size of each ring
  BatchSize,   \* RX_BATCH_SIZE
  MaxFails     \* bound: calls of sendto that fail

ASSUME UmemAssumption ==
  /\ {RingSize, BatchSize} \subseteq Nat \ {0}
  /\ {NumFrames, MaxFails} \subseteq Nat
  /\ NumFrames >= 3 * RingSize + BatchSize

VARIABLES
  umem_frame_addr,   \* the free frames are at the positions below umem_frame_free
  umem_frame_free,
  outstanding_tx,
  fq, rx, tx,        \* fill, receive and transmit ring, of frames
  inKernel,          \* answers copied by the kernel and not gone yet
  cq,                \* answers announced on the completion ring
  pc,                \* "poll", "refill" or "process"
  rcvd, done,        \* the packets of this batch, and those processed
  fails              \* failed calls of sendto so far

receiveVars == <<umem_frame_addr, umem_frame_free, fq, rx, pc, rcvd, done>>
sendVars    == <<outstanding_tx, tx, inKernel, cq, fails>>
umemVars    == <<receiveVars, sendVars>>

Frames  == 0 .. NumFrames - 1
INVALID == NumFrames           \* INVALID_UMEM_FRAME

LesserOf(a, b) == IF a < b THEN a ELSE b

-----------------------------------------------------------------------------
(* Answers *)

(* complete_tx: the completions read of n that are there.                      *)
CompletionsRead(n) == LesserOf(1, n)

(* Wrong: the frame on the top of the stack. *)
TxFrame_Top == umem_frame_addr[umem_frame_free - 1]

(* The frame an answer is written to. *)
TxFrame == umem_frame_addr[outstanding_tx]

(* sendACK, sendVersion, groovy_send_joysticks and groovy_send_ps2, with       *)
(* complete_tx: without room in the ring the answer is dropped, and complete_tx *)
(* is not called; else the kernel is woken, and at most one completion is read. *)
(* The kernel takes the answers the completion ring has room for, unless        *)
(* sendto fails.                                                                *)
Send ==
  \/ Len(tx) = RingSize /\ UNCHANGED sendVars
  \/ /\ Len(tx) < RingSize
     /\ LET posted == Append(tx, TxFrame)
            room   == LesserOf(Len(tx) + 1, RingSize - inKernel - cq)
        IN \/ /\ tx' = SubSeq(posted, room + 1, Len(posted))
              /\ inKernel' = inKernel + room /\ fails' = fails
           \/ /\ fails < MaxFails /\ fails' = fails + 1
              /\ tx' = posted /\ inKernel' = inKernel
     /\ cq' = cq - CompletionsRead(cq)
     /\ outstanding_tx' = outstanding_tx + 1 - CompletionsRead(cq)

(* An input event between two calls of groovy_poll, or an answer (one or      *)
(* several) of process_packet_eth to the packet being processed.              *)
Answer == pc # "refill" /\ Send /\ UNCHANGED receiveVars

-----------------------------------------------------------------------------
(* handle_receive_packets *)

(* Wrong: a batch is all there is to receive. *)
Peek_Unbounded ==
  /\ pc = "poll" /\ rx # <<>>
  /\ rcvd' = Len(rx) /\ done' = 0
  /\ pc' = "refill"
  /\ UNCHANGED <<umem_frame_addr, umem_frame_free, fq, rx, sendVars>>

Peek ==
  /\ pc = "poll" /\ rx # <<>>
  /\ rcvd' = LesserOf(BatchSize, Len(rx)) /\ done' = 0
  /\ pc' = "refill"
  /\ UNCHANGED <<umem_frame_addr, umem_frame_free, fq, rx, sendVars>>

(* xsk_alloc_umem_frame, n times: the frames handed out, and the stack left.   *)
Allocated(n) ==
  [i \in 1 .. n |-> IF umem_frame_free >= i
                    THEN umem_frame_addr[umem_frame_free - i] ELSE INVALID]

(* Wrong: the frames handed out stay on the stack. *)
StackLeft_Kept(n) == umem_frame_free

StackLeft(n) == umem_frame_free - LesserOf(n, umem_frame_free)

(* Wrong: every free frame is lent. *)
StockFrames_All == umem_frame_free

(* The frames of the batch are replaced in the fill ring before they are free: *)
(* stock_frames of them.                                                       *)
StockFrames == rcvd

(* The code spins until the ring has room for them.                            *)
RoomToRefill == Len(fq) + StockFrames <= RingSize

Refill ==
  /\ pc = "refill" /\ RoomToRefill
  /\ fq' = fq \o Allocated(StockFrames)
  /\ umem_frame_free' = StackLeft(StockFrames)
  /\ umem_frame_addr' = [i \in Frames |->
       IF StackLeft(StockFrames) <= i /\ i < umem_frame_free THEN INVALID ELSE umem_frame_addr[i]]
  /\ pc' = "process"
  /\ UNCHANGED <<rx, rcvd, done, sendVars>>

(* process_packet_eth has ended: xsk_free_umem_frame.  After the last packet of *)
(* the batch the receive ring is released.                                     *)
Process ==
  /\ pc = "process"
  /\ umem_frame_addr' = [umem_frame_addr EXCEPT ![umem_frame_free] = rx[done + 1]]
  /\ umem_frame_free' = umem_frame_free + 1
  /\ done' = done + 1
  /\ IF done' = rcvd
     THEN pc' = "poll" /\ rx' = SubSeq(rx, rcvd + 1, Len(rx))
     ELSE pc' = pc /\ rx' = rx
  /\ UNCHANGED <<fq, rcvd, sendVars>>

-----------------------------------------------------------------------------
(* The kernel *)

KernelReceives ==
  /\ fq # <<>> /\ Len(rx) < RingSize
  /\ fq' = Tail(fq) /\ rx' = Append(rx, Head(fq))
  /\ UNCHANGED <<umem_frame_addr, umem_frame_free, pc, rcvd, done, sendVars>>

KernelCompletes ==
  /\ inKernel > 0
  /\ inKernel' = inKernel - 1 /\ cq' = cq + 1
  /\ UNCHANGED <<receiveVars, outstanding_tx, tx, fails>>

-----------------------------------------------------------------------------
(* xsk_configure_socket *)
UmemInit ==
  /\ umem_frame_addr = [i \in Frames |-> IF i < NumFrames - RingSize THEN i ELSE INVALID]
  /\ umem_frame_free = NumFrames - RingSize
  /\ fq = [i \in 1 .. RingSize |-> NumFrames - i]
  /\ rx = <<>> /\ tx = <<>> /\ outstanding_tx = 0 /\ inKernel = 0 /\ cq = 0
  /\ pc = "poll" /\ rcvd = 0 /\ done = 0
  /\ fails = 0

UmemNext ==
  \/ Peek \/ Refill \/ Process
  \/ Answer
  \/ KernelReceives \/ KernelCompletes

UmemSpec == UmemInit /\ [][UmemNext]_umemVars

(* A server with packets to answer, and a kernel that goes on.                 *)
FairUmemSpec ==
  /\ UmemSpec
  /\ WF_umemVars(Peek) /\ WF_umemVars(Refill) /\ WF_umemVars(Process)
  /\ WF_umemVars(Answer)
  /\ WF_umemVars(KernelReceives) /\ WF_umemVars(KernelCompletes)

-----------------------------------------------------------------------------
(* Properties *)

(* The packets of the batch that are still to be processed and those behind.   *)
Pending == IF pc = "process" THEN SubSeq(rx, done + 1, Len(rx)) ELSE rx

FreeStack == [i \in 1 .. umem_frame_free |-> umem_frame_addr[i - 1]]

UmemTypeOK ==
  /\ umem_frame_addr \in [Frames -> Frames \union {INVALID}]
  /\ umem_frame_free \in 0 .. NumFrames
  /\ pc \in {"poll", "refill", "process"} /\ rcvd <= BatchSize /\ done <= rcvd
  /\ Len(fq) <= RingSize /\ Len(rx) <= RingSize /\ Len(tx) <= RingSize
  /\ outstanding_tx = Len(tx) + inKernel + cq

Distinct(s) == \A i, j \in DOMAIN s : s[i] = s[j] => i = j
Apart(s, t) == \A i \in DOMAIN s, j \in DOMAIN t : s[i] # t[j]

(* Every frame of umem is in exactly one place: free, lent to the kernel, or   *)
(* holding a packet that is still to be processed.  There are as many places   *)
(* as frames and none has two, so none is leaked, none is lent twice, and      *)
(* INVALID_UMEM_FRAME is never lent, though the code refills before it frees.  *)
(* The assertion of xsk_free_umem_frame never fails.                           *)
FramesConserved ==
  /\ umem_frame_free + Len(fq) + Len(Pending) = NumFrames
  /\ \A s \in {FreeStack, fq, Pending} :
       Distinct(s) /\ \A i \in DOMAIN s : s[i] \in Frames
  /\ Apart(FreeStack, fq) /\ Apart(FreeStack, Pending) /\ Apart(fq, Pending)
  /\ pc = "process" => umem_frame_free < NumFrames

(* The loop that waits for room in the fill ring finds it at once: the kernel   *)
(* took a frame for every packet it delivered.                                  *)
RefillNeverWaits == pc = "refill" => RoomToRefill

(* An answer is never written to a frame that the kernel may be receiving into  *)
(* or whose packet is being processed.                                          *)
AnswersApart ==
  /\ \A i \in 1 .. Len(tx) : tx[i] \in Frames
  /\ Apart(tx, fq) /\ Apart(tx, Pending)

(* Stated by "No more transmit slots, drop the packet", and not so: a full ring *)
(* costs the answers that do not fit, and is used again later.                  *)
RingDrains == []<>(Len(tx) < RingSize)
=============================================================================
