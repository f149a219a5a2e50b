-------------------------- MODULE MCModalSession ---------------------------
(* Two windows: a panel that stays allocated when it is closed, and a      *)
(* window that is released when closed and that also works when modal.     *)
EXTENDS ModalSession
=============================================================================
