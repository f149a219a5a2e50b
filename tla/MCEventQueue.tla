---------------------------- MODULE MCEventQueue ----------------------------
(* Two types of events that a mask can name, and null_event; synthetic and   *)
(* dated events; a call inside a callback of another one.                    *)
EXTENDS EventQueue
=============================================================================
