---------------------------- MODULE MCInputStream ----------------------------
(* Settings of the inputs: doJoyInputs and doPs2Inputs. *)
EXTENDS InputStream

Sticks == [joystick |-> 2]  \* buttons and sticks
Keys   == [ps2 |-> 1]       \* the keyboard, and the mouse is not reported
=============================================================================
