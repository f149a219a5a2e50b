--------------------------- MODULE SoundPlayback ---------------------------
(***************************************************************************)
(* What -[NSSound play] promises, without threads or locks: an accepted    *)
(* play is one playback; the playback opens the device at most once,       *)
(* closes it if it opened it, and is answered by exactly one               *)
(* -sound:didFinishPlaying:; no second playback starts before that answer. *)
(***************************************************************************)

VARIABLES playback,     \* "none", "starting", "streaming" or "over"
          device        \* TRUE while the sink is open

vars == <<playback, device>>

Init == playback = "none" /\ device = FALSE

\* An accepted -play.
Play == playback = "none" /\ playback' = "starting" /\ UNCHANGED device

\* The device could be opened, or the playback is over before it started.
Open == /\ playback = "starting"
        /\ \/ playback' = "streaming" /\ device' = TRUE
           \/ playback' = "over" /\ device' = FALSE

Close == playback = "streaming" /\ playback' = "over" /\ device' = FALSE

\* The delegate is told, and the sound may be played again.
Finish == playback = "over" /\ playback' = "none" /\ UNCHANGED device

Next == Play \/ Open \/ Close \/ Finish

Spec == Init /\ [][Next]_vars
=============================================================================
