---------------------------- MODULE MCBlitStream ------------------------------
(* Model-checking instance of BlitStream: Packets is what the client sends.   *)
EXTENDS BlitStream, SequencesExt

(* A packet carries what the call put in it.                                  *)
PacketsOf(messages) == { m.p : m \in ToSet(messages) }

StreamPackets ==
  UNION ({PacketsOf(CallSwitchres(px)) : px \in Modes}
    \union {PacketsOf(CallBlit(n, px * 3, 0)) : n \in 1 .. MaxFrame, px \in Modes}
    \union {PacketsOf(CallBlit(n, size, 1)) : n \in 1 .. MaxFrame, size \in Sizes}
    \union {PacketsOf(CallRepeat(n)) : n \in 1 .. MaxFrame}
    \union {PacketsOf(CallAudio(size)) : size \in Sounds})

(* Frames of 3 chunks with a tail of 1448 bytes and of 2 chunks with a tail   *)
(* of 1456: both tails are longer than any command.                           *)
LongTails == {1464, 976}

(* The sizes of this instance are some the theorems speak of.                 *)
ASSUME StreamSizes == SizesFit /\ LongRests /\ RestsDiffer
=============================================================================
