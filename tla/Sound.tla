------------------------------- MODULE Sound -------------------------------
(***************************************************************************)
(* NSSound (Source/NSSound.m): a sound is played by a thread that copies   *)
(* buffers from the source to the sink, while the main thread pauses,      *)
(* resumes, stops, seeks and sets the volume.  The two meet in a condition *)
(* lock around the source (_readLock), a lock around the sink              *)
(* (_playbackLock) and two flags that the thread reads without a lock.     *)
(* Both locks are created by -play and destroyed by -_finished:, which the *)
(* main thread performs on behalf of the streaming thread.                 *)
(***************************************************************************)
EXTENDS Naturals

CONSTANTS
    Threads,    \* threads -play may detach
    Main,       \* the main thread
    None,       \* no owner
    Chunks      \* buffers in the source

ASSUME ActorsAssumption == Main \notin Threads /\ None \notin Threads /\ Main # None
ASSUME ChunksAssumption == Chunks \in Nat

VARIABLES
    locks,          \* _readLock and _playbackLock are allocated
    readCond,       \* condition of _readLock: "play" or "pause"
    readOwner,      \* owner of _readLock
    playOwner,      \* owner of _playbackLock
    shouldStop, shouldLoop,
    position,       \* buffers consumed from the source
    sinkOpen,
    pc,             \* where each thread is in -_stream
    bytesRead,      \* per thread: the last read returned something
    success,        \* per thread: what -playBytes:length: returned
    call            \* the blocking call the main thread is in

lockVars  == <<locks, readCond, readOwner, playOwner>>
flagVars  == <<shouldStop, shouldLoop>>
localVars == <<bytesRead, success>>
vars == <<lockVars, flagVars, position, sinkOpen, pc, localVars, call>>

PCs == {"idle", "open", "lock", "locked", "lockPlay", "playing", "inner",
        "rewind", "outer", "close", "perform", "waiting"}

\* Between a successful open of the sink and its close.
StreamingPCs == {"lock", "locked", "lockPlay", "playing", "inner",
                 "rewind", "outer", "close"}

\* From -play to the start of -_finished:.
ActivePCs == StreamingPCs \cup {"open", "perform"}

Calls == {"none", "seekWait", "seeking", "volumeWait", "volume"}

Init ==
    /\ locks = FALSE
    /\ readCond = "pause" /\ readOwner = None /\ playOwner = None
    /\ shouldStop = FALSE /\ shouldLoop = FALSE
    /\ position = 0
    /\ sinkOpen = FALSE
    /\ pc = [t \in Threads |-> "idle"]
    /\ bytesRead = [t \in Threads |-> FALSE]
    /\ success = [t \in Threads |-> FALSE]
    /\ call = "none"

Goto(t, label) == pc' = [pc EXCEPT ![t] = label]

-----------------------------------------------------------------------------
(* The streaming thread: -_stream.                                         *)

\* The device may refuse to open; the thread then skips to the end.
OpenSink(t) ==
    /\ pc[t] = "open"
    /\ success' = [success EXCEPT ![t] = FALSE]
    /\ \/ sinkOpen' = TRUE /\ Goto(t, "lock")
       \/ UNCHANGED sinkOpen /\ Goto(t, "perform")
    /\ UNCHANGED <<lockVars, flagVars, position, bytesRead, call>>

\* lockWhenCondition: SOUND_SHOULD_PLAY
MutantMayRead == readOwner = None
MayRead == readOwner = None /\ readCond = "play"

LockForReading(t) ==
    /\ pc[t] = "lock"
    /\ MayRead
    /\ readOwner' = t
    /\ Goto(t, "locked")
    /\ UNCHANGED <<locks, readCond, playOwner, flagVars, position, sinkOpen,
                   localVars, call>>

\* A stop that came first leaves the inner loop before anything is read.
MutantBreakOnStop(t) ==
    /\ pc[t] = "locked" /\ shouldStop
    /\ Goto(t, "rewind")
    /\ UNCHANGED <<lockVars, flagVars, position, sinkOpen, localVars, call>>

BreakOnStop(t) ==
    /\ pc[t] = "locked" /\ shouldStop
    /\ readOwner' = None
    /\ Goto(t, "rewind")
    /\ UNCHANGED <<locks, readCond, playOwner, flagVars, position, sinkOpen,
                   localVars, call>>

ReadBytes(t) ==
    /\ pc[t] = "locked" /\ ~shouldStop
    /\ bytesRead' = [bytesRead EXCEPT ![t] = position < Chunks]
    /\ position' = IF position < Chunks THEN position + 1 ELSE position
    /\ readOwner' = None
    /\ Goto(t, "lockPlay")
    /\ UNCHANGED <<locks, readCond, playOwner, flagVars, sinkOpen, success, call>>

LockForPlaying(t) ==
    /\ pc[t] = "lockPlay" /\ playOwner = None
    /\ playOwner' = t
    /\ Goto(t, "playing")
    /\ UNCHANGED <<locks, readCond, readOwner, flagVars, position, sinkOpen,
                   localVars, call>>

\* The sink takes the buffer or reports a failure.
PlayBytes(t) ==
    /\ pc[t] = "playing"
    /\ \E ok \in BOOLEAN : success' = [success EXCEPT ![t] = ok]
    /\ playOwner' = None
    /\ Goto(t, "inner")
    /\ UNCHANGED <<locks, readCond, readOwner, flagVars, position, sinkOpen,
                   bytesRead, call>>

\* while ((!_shouldStop) && (bytesRead > 0) && success)
InnerTest(t) ==
    /\ pc[t] = "inner"
    /\ Goto(t, IF ~shouldStop /\ bytesRead[t] /\ success[t] THEN "lock" ELSE "rewind")
    /\ UNCHANGED <<lockVars, flagVars, position, sinkOpen, localVars, call>>

\* [_source setCurrentTime: 0.0], without _readLock.
Rewind(t) ==
    /\ pc[t] = "rewind"
    /\ position' = 0
    /\ Goto(t, "outer")
    /\ UNCHANGED <<lockVars, flagVars, sinkOpen, localVars, call>>

\* while (_shouldLoop == YES && _shouldStop == NO)
MutantLoopAgain == shouldLoop
LoopAgain == shouldLoop /\ ~shouldStop

MutantLoopHead == "open"
LoopHead == "lock"

OuterTest(t) ==
    /\ pc[t] = "outer"
    /\ Goto(t, IF LoopAgain THEN LoopHead ELSE "close")
    /\ UNCHANGED <<lockVars, flagVars, position, sinkOpen, localVars, call>>

\* The sink is closed and -_finished: is queued on the main thread.
CloseSink(t) ==
    /\ pc[t] = "close"
    /\ sinkOpen' = FALSE
    /\ Goto(t, "perform")
    /\ UNCHANGED <<lockVars, flagVars, position, localVars, call>>

Stream(t) ==
    \/ OpenSink(t) \/ LockForReading(t) \/ BreakOnStop(t) \/ ReadBytes(t)
    \/ LockForPlaying(t) \/ PlayBytes(t) \/ InnerTest(t) \/ Rewind(t)
    \/ OuterTest(t) \/ CloseSink(t)

-----------------------------------------------------------------------------
(* The main thread.  A call that tries a lock, changes the flags and       *)
(* unlocks is one step: nobody else can change what it looks at in between.*)

\* -_finished: destroys the locks, then calls the delegate, which may call
\* any method of the sound ...
FinishedBegin(t) ==
    /\ call = "none" /\ pc[t] = "perform"
    /\ locks' = FALSE
    /\ readOwner' = None /\ playOwner' = None
    /\ Goto(t, "waiting")
    /\ UNCHANGED <<readCond, flagVars, position, sinkOpen, localVars, call>>

\* ... and the thread, which waits until -_finished: is done, exits.
FinishedEnd(t) ==
    /\ call = "none" /\ pc[t] = "waiting"
    /\ Goto(t, "idle")
    /\ bytesRead' = [bytesRead EXCEPT ![t] = FALSE]
    /\ success' = [success EXCEPT ![t] = FALSE]
    /\ UNCHANGED <<lockVars, flagVars, position, sinkOpen, call>>

Finished(t) == FinishedBegin(t) \/ FinishedEnd(t)

\* A sound with locks is already playing: -play answers NO.
MutantMayPlay == ~locks \/ readCond = "pause"
MayPlay == ~locks

play ==
    /\ call = "none"
    /\ MayPlay
    /\ locks' = TRUE
    /\ readCond' = "play" /\ readOwner' = None /\ playOwner' = None
    /\ shouldStop' = FALSE
    /\ \E t \in Threads : pc[t] = "idle" /\ Goto(t, "open")
    /\ UNCHANGED <<shouldLoop, position, sinkOpen, localVars, call>>

\* The condition is read first; the lock is tried, never waited for.  With
\* no lock a message to nil answers 0, and tryLock answers NO.
pause ==
    /\ call = "none"
    /\ locks /\ readCond = "play" /\ readOwner = None
    /\ readCond' = "pause"
    /\ UNCHANGED <<locks, readOwner, playOwner, flagVars, position, sinkOpen,
                   pc, localVars, call>>

resume ==
    /\ call = "none"
    /\ locks /\ readCond = "pause" /\ readOwner = None
    /\ readCond' = "play"
    /\ UNCHANGED <<locks, readOwner, playOwner, flagVars, position, sinkOpen,
                   pc, localVars, call>>

stop ==
    /\ call = "none"
    /\ locks /\ readOwner = None
    /\ shouldStop' = TRUE
    /\ readCond' = "play"
    /\ UNCHANGED <<locks, readOwner, playOwner, shouldLoop, position, sinkOpen,
                   pc, localVars, call>>

setLoops ==
    /\ call = "none"
    /\ shouldLoop' = ~shouldLoop
    /\ UNCHANGED <<lockVars, shouldStop, position, sinkOpen, pc, localVars, call>>

\* -setCurrentTime: and -setVolume: wait for their lock, when there is one.
Enter(wait) ==
    /\ call = "none" /\ call' = wait
    /\ UNCHANGED <<lockVars, flagVars, position, sinkOpen, pc, localVars>>

SeekLock ==
    /\ call = "seekWait"
    /\ readOwner = None
    /\ readOwner' = IF locks THEN Main ELSE None
    /\ call' = "seeking"
    /\ UNCHANGED <<locks, readCond, playOwner, flagVars, position, sinkOpen,
                   pc, localVars>>

MutantSeekTargets == 0..(Chunks + 1)
SeekTargets == 0..Chunks

SeekEnd ==
    /\ call = "seeking"
    /\ position' \in SeekTargets
    /\ readOwner' = None
    /\ call' = "none"
    /\ UNCHANGED <<locks, readCond, playOwner, flagVars, sinkOpen, pc, localVars>>

VolumeLock ==
    /\ call = "volumeWait"
    /\ playOwner = None
    /\ playOwner' = IF locks THEN Main ELSE None
    /\ call' = "volume"
    /\ UNCHANGED <<locks, readCond, readOwner, flagVars, position, sinkOpen,
                   pc, localVars>>

VolumeEnd ==
    /\ call = "volume"
    /\ playOwner' = None
    /\ call' = "none"
    /\ UNCHANGED <<locks, readCond, readOwner, flagVars, position, sinkOpen,
                   pc, localVars>>

BlockingCall == SeekLock \/ SeekEnd \/ VolumeLock \/ VolumeEnd

Next ==
    \/ \E t \in Threads : Stream(t) \/ Finished(t)
    \/ play \/ pause \/ resume \/ stop \/ setLoops
    \/ Enter("seekWait") \/ Enter("volumeWait") \/ BlockingCall

Spec == Init /\ [][Next]_vars

\* A thread that can run again and again does run, a blocking call gets its
\* lock if the lock is free again and again, and the main thread comes back to
\* its run loop, where it performs -_finished:.  Nothing is assumed about what
\* the application calls.
Fairness ==
    /\ \A t \in Threads : SF_vars(Stream(t)) /\ SF_vars(Finished(t))
    /\ SF_vars(BlockingCall)

FairSpec == Spec /\ Fairness

-----------------------------------------------------------------------------
(* Properties.                                                             *)

\* Every variable has its type: the state of NSSound's instance variables,
\* of its locks and of its threads.
TypeOK ==
    /\ locks \in BOOLEAN
    /\ readCond \in {"play", "pause"}
    /\ readOwner \in Threads \cup {Main, None}
    /\ playOwner \in Threads \cup {Main, None}
    /\ shouldStop \in BOOLEAN /\ shouldLoop \in BOOLEAN
    /\ position \in 0..Chunks
    /\ sinkOpen \in BOOLEAN
    /\ pc \in [Threads -> PCs]
    /\ bytesRead \in [Threads -> BOOLEAN]
    /\ success \in [Threads -> BOOLEAN]
    /\ call \in Calls

Active(t) == pc[t] \in ActivePCs
Streaming(t) == pc[t] \in StreamingPCs

\* The locks that -play creates and -_finished: destroys live exactly as long
\* as one thread that uses them: no thread ever reads a destroyed lock, two
\* threads never share the source and the sink, and a sound without a thread
\* can be played again (-play tests the locks, not the thread).
LocksMatchStreamer ==
    /\ \A t, u \in Threads : Active(t) /\ Active(u) => t = u
    /\ locks <=> \E t \in Threads : Active(t)
    /\ sinkOpen <=> \E t \in Threads : Streaming(t)

\* Whoever owns a lock is at the place of the code where it is held, so it is
\* unlocked by its owner, and only while it exists.
LockDiscipline ==
    /\ \A t \in Threads : (readOwner = t) <=> (pc[t] = "locked")
    /\ \A t \in Threads : (playOwner = t) <=> (pc[t] = "playing")
    /\ readOwner = Main <=> (call = "seeking" /\ locks)
    /\ playOwner = Main <=> (call = "volume" /\ locks)

\* The playback -play promises: one open, one close, one -_finished: for each
\* accepted -play, in that order.
PlaybackPhase ==
    IF \E t \in Threads : pc[t] = "open" THEN "starting"
    ELSE IF \E t \in Threads : Streaming(t) THEN "streaming"
    ELSE IF \E t \in Threads : pc[t] = "perform" THEN "over"
    ELSE "none"

Playback == INSTANCE SoundPlayback WITH playback <- PlaybackPhase, device <- sinkOpen
PlaybackSpec == Playback!Spec

\* A sound that stays paused falls silent for good: the thread gets past the
\* buffer it holds and then blocks in -_stream, whatever is sought, looped or
\* played meanwhile, or ends.
Silent == \A t \in Threads : ~Streaming(t) \/ pc[t] = "lock"
PauseSilences == <>[](locks /\ readCond = "pause") => <>[]Silent

\* A stopped sound finishes (the sink is closed and the locks are destroyed)
\* unless -pause follows -stop before the thread has looked at _shouldStop.
StopFinishes == (shouldStop /\ locks) ~> (~locks \/ readCond = "pause")

\* The main thread is never stuck in -setCurrentTime: or -setVolume:, the two
\* methods that wait for a lock the streaming thread holds.
MainReturns == (call # "none") ~> (call = "none")

\* NSSound.h documents -stop: "Return YES if receiver was successfully
\* stopped. This method will close the playback device."
StopClosesDevice == (shouldStop /\ sinkOpen) ~> ~sinkOpen
=============================================================================
