------------------------------ MODULE MCFpgaBlit ------------------------------
(* Model-checking instance of FpgaBlit: frames of a full datagram and a tail,  *)
(* in RGB888.  A datagram is no whole number of pixels, nor a frame of words.  *)
EXTENDS FpgaBlit
=============================================================================
