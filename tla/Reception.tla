------------------------------ MODULE Reception ------------------------------
(***************************************************************************)
(* What the server promises the core about the payload it receives: the      *)
(* bytes of one frame or sound are collected at a time, the header the core   *)
(* polls claims a growing part of those that have come, a reception that ends *)
(* short is either told as given up or not told at all, and a sound is handed *)
(* over when it is whole.  Nothing is said of commands, sessions, chunks,     *)
(* zones or SPI words.                                                       *)
(***************************************************************************)
EXTENDS Naturals

VARIABLES
  kind,       \* "none", or the "frame" or "sound" being received
  expected,   \* its bytes
  got,        \* those that have come
  deferred,   \* the core is told of a frame only when it is whole
  told,       \* bytes of a frame the header claims
  aborted,    \* the header says the frame is given up
  played      \* this step handed a sound over

receptionVars == <<kind, expected, got, deferred, told, aborted, played>>

Header == <<told, aborted>>

ReceptionInit ==
  /\ kind = "none" /\ expected = 0 /\ got = 0
  /\ told = 0 /\ ~aborted /\ ~played

(* Between receptions the header is written for other reasons: a logo, a       *)
(* modeline, a new session, a frame equal to the one before.                   *)
Between ==
  /\ kind = "none" /\ kind' = "none"
  /\ UNCHANGED <<expected, got>>
  /\ ~played'

AnnounceFrame ==
  /\ kind = "none" /\ kind' = "frame"
  /\ expected' \in Nat \ {0} /\ got' = 0
  /\ IF deferred THEN UNCHANGED Header ELSE told' = 0 /\ ~aborted'
  /\ UNCHANGED deferred /\ ~played'

AnnounceSound ==
  /\ kind = "none" /\ kind' = "sound"
  /\ expected' \in Nat \ {0} /\ got' = 0
  /\ UNCHANGED <<deferred, Header>> /\ ~played'

(* Some bytes come, not the last.                                              *)
Receive ==
  /\ kind # "none" /\ UNCHANGED <<kind, expected, deferred>>
  /\ got < got' /\ got' < expected
  /\ IF kind = "frame" /\ ~deferred
     THEN told <= told' /\ told' <= got' /\ UNCHANGED aborted
     ELSE UNCHANGED Header
  /\ ~played'

Closed == kind' = "none" /\ expected' = 0 /\ got' = 0 /\ UNCHANGED deferred

(* The last byte comes. *)
Complete ==
  /\ kind # "none" /\ got < expected /\ Closed
  /\ IF kind = "frame" THEN told' = expected /\ ~aborted' /\ ~played'
                       ELSE UNCHANGED Header /\ played'

(* No more will come. *)
GiveUp ==
  /\ kind # "none" /\ Closed
  /\ \/ UNCHANGED Header
     \/ kind = "frame" /\ ~deferred /\ told' = expected /\ aborted'
  /\ ~played'

ReceptionNext ==
  Between \/ AnnounceFrame \/ AnnounceSound \/ Receive \/ Complete \/ GiveUp

ReceptionSpec == ReceptionInit /\ [][ReceptionNext]_receptionVars
=============================================================================
