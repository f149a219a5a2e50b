------------------------------ MODULE MCSound ------------------------------
(* NSSound with two threads: one streams while the one before it still     *)
(* waits for the delegate of its -_finished: to return.                    *)
EXTENDS Sound
=============================================================================
