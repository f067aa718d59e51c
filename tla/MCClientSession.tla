--------------------------- MODULE MCClientSession ---------------------------
(***************************************************************************)
(* Model-checking instance of ClientSession: the server over UDP and over    *)
(* AF_XDP, with and without the screensaver, with up to two faults.         *)
(***************************************************************************)
EXTENDS ClientSession
=============================================================================
