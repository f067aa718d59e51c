------------------------------ MODULE MCXdpUmem ------------------------------
(***************************************************************************)
(* Model-checking instances of XdpUmem.  The code has 65536 frames, rings of *)
(* 2048 and batches of 1; the instances keep the ratio that matters, more    *)
(* frames than the rings and a batch can hold, and let batches be larger.    *)
(***************************************************************************)
EXTENDS XdpUmem
=============================================================================
