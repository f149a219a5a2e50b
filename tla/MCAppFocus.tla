----------------------------- MODULE MCAppFocus -----------------------------
(* Windows that can become key and main, of which one may be hidden and one *)
(* works when another window is modal (AppFocus); or two documents and a    *)
(* panel that hides on deactivation (AppFocusModal).                        *)
EXTENDS AppFocus
=============================================================================
