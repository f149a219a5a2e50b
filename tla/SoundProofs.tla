---------------------------- MODULE SoundProofs ----------------------------
(***************************************************************************)
(* Proofs about NSSound's streaming, for any number of threads and any     *)
(* length of the source.                                                   *)
(***************************************************************************)
EXTENDS Sound, TLAPS

\* The inductive invariant.  LocksMatchStreamer alone is not inductive: that
\* -_finished: may destroy the locks rests on nobody holding them, which is
\* what LockDiscipline adds.
IInv == TypeOK /\ LocksMatchStreamer /\ LockDiscipline

LEMMA InitIInv == Init => IInv
<1> SUFFICES ASSUME Init PROVE IInv
  OBVIOUS
<1>1. TypeOK
  <2>1. bytesRead \in [Threads -> BOOLEAN] /\ success \in [Threads -> BOOLEAN]
    BY DEF Init
  <2> QED
    <3>1. pc \in [Threads -> PCs]
      BY DEF Init, PCs
    <3>2. position \in 0..Chunks
      BY ChunksAssumption DEF Init
    <3> QED
    BY <2>1, <3>1, <3>2 DEF Init, TypeOK, Calls
<1>2. LocksMatchStreamer
  BY DEF Init, LocksMatchStreamer, Active, Streaming, StreamingPCs, ActivePCs
<1>3. LockDiscipline
  BY ActorsAssumption DEF Init, LockDiscipline
<1> QED
  BY <1>1, <1>2, <1>3 DEF IInv

\* A step of the streaming thread t keeps the invariant.
LEMMA StreamIInv ==
  ASSUME IInv, NEW t \in Threads, Stream(t)
  PROVE  IInv'
<1> USE ActorsAssumption, ChunksAssumption
    DEF IInv, TypeOK, LocksMatchStreamer, LockDiscipline, Active, Streaming,
        PCs, StreamingPCs, ActivePCs, Calls, Goto, lockVars, flagVars, localVars
<1>1. CASE OpenSink(t)
  <2>1. CASE sinkOpen' = TRUE /\ Goto(t, "lock")
    BY <1>1, <2>1 DEF OpenSink
  <2>2. CASE UNCHANGED sinkOpen /\ Goto(t, "perform")
    BY <1>1, <2>2 DEF OpenSink
  <2> QED
    BY <1>1, <2>1, <2>2 DEF OpenSink
<1>2. CASE LockForReading(t) BY <1>2 DEF LockForReading, MayRead
<1>3. CASE BreakOnStop(t)    BY <1>3 DEF BreakOnStop
<1>4. CASE ReadBytes(t)
  <2>1. (position < Chunks) \in BOOLEAN
    OBVIOUS
  <2>2. position' \in 0..Chunks
    BY <1>4 DEF ReadBytes
  <2>3. bytesRead' \in [Threads -> BOOLEAN]
    BY <1>4, <2>1 DEF ReadBytes
  <2>4. TypeOK'
    BY <1>4, <2>2, <2>3 DEF ReadBytes
  <2>5. (LocksMatchStreamer /\ LockDiscipline)'
    BY <1>4 DEF ReadBytes
  <2> QED
    BY <2>4, <2>5
<1>5. CASE LockForPlaying(t) BY <1>5 DEF LockForPlaying
<1>6. CASE PlayBytes(t)      BY <1>6 DEF PlayBytes
<1>7. CASE InnerTest(t)      BY <1>7 DEF InnerTest
<1>8. CASE Rewind(t)         BY <1>8 DEF Rewind
<1>9. CASE OuterTest(t)      BY <1>9 DEF OuterTest, LoopHead
<1>10. CASE CloseSink(t)     BY <1>10 DEF CloseSink
<1> QED
  BY <1>1, <1>2, <1>3, <1>4, <1>5, <1>6, <1>7, <1>8, <1>9, <1>10 DEF Stream

\* -_finished: keeps the invariant.
LEMMA FinishedIInv ==
  ASSUME IInv, NEW t \in Threads, Finished(t)
  PROVE  IInv'
<1> USE ActorsAssumption, ChunksAssumption
    DEF IInv, TypeOK, LocksMatchStreamer, LockDiscipline, Active, Streaming,
        PCs, StreamingPCs, ActivePCs, Calls, Goto, lockVars, flagVars, localVars
<1>1. CASE FinishedBegin(t) BY <1>1 DEF FinishedBegin
<1>2. CASE FinishedEnd(t)   BY <1>2 DEF FinishedEnd
<1> QED
  BY <1>1, <1>2 DEF Finished

\* A call of the application on the main thread keeps the invariant.
LEMMA CallIInv ==
  ASSUME IInv,
         \/ play \/ pause \/ resume \/ stop \/ setLoops
         \/ Enter("seekWait") \/ Enter("volumeWait") \/ BlockingCall
  PROVE  IInv'
<1> USE ActorsAssumption, ChunksAssumption
    DEF IInv, TypeOK, LocksMatchStreamer, LockDiscipline, Active, Streaming,
        PCs, StreamingPCs, ActivePCs, Calls, Goto, lockVars, flagVars, localVars
<1>1. CASE play
  <2>1. PICK u \in Threads : pc[u] = "idle" /\ Goto(u, "open")
    BY <1>1 DEF play
  <2>2. TypeOK'
    BY <1>1, <2>1 DEF play
  <2>3. LocksMatchStreamer'
    BY <1>1, <2>1 DEF play, MayPlay
  <2>4. LockDiscipline'
    BY <1>1, <2>1 DEF play, MayPlay
  <2> QED
    BY <2>2, <2>3, <2>4
<1>2. CASE pause               BY <1>2 DEF pause
<1>3. CASE resume              BY <1>3 DEF resume
<1>4. CASE stop                BY <1>4 DEF stop
<1>5. CASE setLoops            BY <1>5 DEF setLoops
<1>6. CASE Enter("seekWait")   BY <1>6 DEF Enter
<1>7. CASE Enter("volumeWait") BY <1>7 DEF Enter
<1>8. CASE SeekLock
  <2>1. CASE locks
    BY <1>8, <2>1 DEF SeekLock
  <2>2. CASE ~locks
    BY <1>8, <2>2 DEF SeekLock
  <2> QED
    BY <2>1, <2>2
<1>9. CASE SeekEnd
  <2>1. TypeOK'
    BY <1>9 DEF SeekEnd, SeekTargets
  <2>2. LocksMatchStreamer'
    BY <1>9 DEF SeekEnd, SeekTargets
  <2>3. LockDiscipline'
    BY <1>9 DEF SeekEnd, SeekTargets
  <2> QED
    BY <2>1, <2>2, <2>3
<1>10. CASE VolumeLock
  <2>1. CASE locks
    BY <1>10, <2>1 DEF VolumeLock
  <2>2. CASE ~locks
    BY <1>10, <2>2 DEF VolumeLock
  <2> QED
    BY <2>1, <2>2
<1>11. CASE VolumeEnd
  <2>1. TypeOK'
    BY <1>11 DEF VolumeEnd
  <2>2. LocksMatchStreamer'
    BY <1>11 DEF VolumeEnd
  <2>3. LockDiscipline'
    BY <1>11 DEF VolumeEnd
  <2> QED
    BY <2>1, <2>2, <2>3
<1> QED
  BY <1>1, <1>2, <1>3, <1>4, <1>5, <1>6, <1>7, <1>8, <1>9, <1>10, <1>11
  DEF BlockingCall

LEMMA NextIInv == IInv /\ [Next]_vars => IInv'
<1> SUFFICES ASSUME IInv, [Next]_vars PROVE IInv'
  OBVIOUS
<1>1. CASE \E t \in Threads : Stream(t)
  BY <1>1, StreamIInv
<1>2. CASE \E t \in Threads : Finished(t)
  BY <1>2, FinishedIInv
<1>3. CASE \/ play \/ pause \/ resume \/ stop \/ setLoops
           \/ Enter("seekWait") \/ Enter("volumeWait") \/ BlockingCall
  BY <1>3, CallIInv
<1>4. CASE UNCHANGED vars
  BY <1>4 DEF PCs, Calls, vars, lockVars, flagVars, localVars, IInv, TypeOK,
     LocksMatchStreamer, LockDiscipline, Active, Streaming
<1> QED
  BY <1>1, <1>2, <1>3, <1>4 DEF Next

\* The instance variables of NSSound, its locks and its threads keep their
\* types, whatever the application calls and whenever it calls it.
THEOREM TypeCorrect == Spec => []TypeOK
<1>1. IInv => TypeOK
  BY DEF IInv
<1> QED
  BY InitIInv, NextIInv, <1>1, PTL DEF Spec

\* -play, -_stream and -_finished: between them never let a thread use a
\* destroyed lock, two threads stream at once, or a silent sound refuse to play.
THEOREM StreamerSafe == Spec => []LocksMatchStreamer
<1>1. IInv => LocksMatchStreamer
  BY DEF IInv
<1> QED
  BY InitIInv, NextIInv, <1>1, PTL DEF Spec

\* _readLock and _playbackLock are owned only where the code holds them.
THEOREM LocksOwned == Spec => []LockDiscipline
<1>1. IInv => LockDiscipline
  BY DEF IInv
<1> QED
  BY InitIInv, NextIInv, <1>1, PTL DEF Spec

-----------------------------------------------------------------------------
(* Sound implements SoundPlayback.  Since at most one thread is active, its  *)
(* pc alone decides the phase of the playback.                               *)

PhaseOf(label) ==
    CASE label = "open" -> "starting"
      [] label \in StreamingPCs -> "streaming"
      [] label = "perform" -> "over"

PhaseMatches ==
    /\ \A t \in Threads : Active(t) => PlaybackPhase = PhaseOf(pc[t])
    /\ ~locks => PlaybackPhase = "none"

LEMMA PhaseIsMatched == IInv => PhaseMatches
<1>1. ASSUME IInv, ~locks PROVE PlaybackPhase = "none"
  BY <1>1 DEF IInv, LocksMatchStreamer, Active, Streaming, ActivePCs, StreamingPCs,
     PlaybackPhase
<1> SUFFICES ASSUME IInv, NEW t \in Threads, Active(t)
             PROVE  PlaybackPhase = PhaseOf(pc[t])
  BY <1>1 DEF PhaseMatches
<1> USE DEF IInv, LocksMatchStreamer, Active, Streaming, ActivePCs, StreamingPCs,
            PlaybackPhase, PhaseOf
<1>2. CASE pc[t] = "open"    BY <1>2
<1>3. CASE Streaming(t)      BY <1>3
<1>4. CASE pc[t] = "perform" BY <1>4
<1> QED
  BY <1>2, <1>3, <1>4

\* A step of the streaming thread opens or closes the device of the playback,
\* or is invisible.
LEMMA StreamStep ==
  ASSUME IInv, IInv', NEW t \in Threads, Stream(t)
  PROVE  [Playback!Next]_(Playback!vars)
<1>1. Active(t) /\ Active(t)'
  BY DEF Stream, OpenSink, LockForReading, BreakOnStop, ReadBytes, LockForPlaying,
     PlayBytes, InnerTest, Rewind, OuterTest, CloseSink, Goto, LoopHead, IInv,
     TypeOK, Active, ActivePCs, StreamingPCs
<1>2. PlaybackPhase = PhaseOf(pc[t])
  BY <1>1, PhaseIsMatched DEF PhaseMatches
<1>3. PlaybackPhase' = PhaseOf(pc'[t])
  <2>1. IInv' => PhaseMatches'
    BY PhaseIsMatched, PTL
  <2> QED
    BY <1>1, <2>1 DEF PhaseMatches, Active
<1>4. CASE OpenSink(t)
  <2>1. PlaybackPhase = "starting"
    BY <1>2, <1>4 DEF OpenSink, PhaseOf, StreamingPCs
  <2>2. sinkOpen = FALSE
    BY <1>1, <1>4 DEF OpenSink, IInv, TypeOK, LocksMatchStreamer, Active,
       Streaming, ActivePCs, StreamingPCs
  <2>3. CASE sinkOpen' = TRUE /\ Goto(t, "lock")
    BY <1>3, <1>4, <2>1, <2>3
    DEF OpenSink, Goto, IInv, TypeOK, PhaseOf, StreamingPCs, Playback!Next, Playback!Open
  <2>4. CASE UNCHANGED sinkOpen /\ Goto(t, "perform")
    BY <1>3, <1>4, <2>1, <2>2, <2>4
    DEF OpenSink, Goto, IInv, TypeOK, PhaseOf, StreamingPCs, Playback!Next, Playback!Open
  <2> QED
    BY <1>4, <2>3, <2>4 DEF OpenSink
<1>5. CASE CloseSink(t)
  BY <1>2, <1>3, <1>5
  DEF CloseSink, Goto, IInv, TypeOK, PhaseOf, StreamingPCs, Playback!Next, Playback!Close
<1>6. CASE ~OpenSink(t) /\ ~CloseSink(t)
  <2>1. UNCHANGED sinkOpen /\ pc[t] \in StreamingPCs /\ pc'[t] \in StreamingPCs
    BY <1>6 DEF Stream, LockForReading, BreakOnStop, ReadBytes, LockForPlaying,
       PlayBytes, InnerTest, Rewind, OuterTest, Goto, LoopHead, IInv, TypeOK,
       StreamingPCs
  <2> QED
    BY <1>2, <1>3, <2>1 DEF PhaseOf, StreamingPCs, Playback!vars
<1> QED
  BY <1>4, <1>5, <1>6

\* -play, -_finished: and the other calls are steps of the playback too.
LEMMA MainStep ==
  ASSUME IInv, IInv',
         \/ \E t \in Threads : Finished(t)
         \/ play \/ pause \/ resume \/ stop \/ setLoops
         \/ Enter("seekWait") \/ Enter("volumeWait") \/ BlockingCall
  PROVE  [Playback!Next]_(Playback!vars)
<1>1. PhaseMatches /\ (IInv' => PhaseMatches')
  BY PhaseIsMatched, PTL
<1>2. CASE \E t \in Threads : FinishedBegin(t)
  <2>1. PICK t \in Threads : FinishedBegin(t)
    BY <1>2
  <2>2. PlaybackPhase = "over"
    BY <1>1, <2>1 DEF FinishedBegin, PhaseMatches, PhaseOf, Active, ActivePCs, StreamingPCs
  <2>3. PlaybackPhase' = "none"
    BY <1>1, <2>1 DEF FinishedBegin, PhaseMatches
  <2> QED
    BY <2>1, <2>2, <2>3 DEF FinishedBegin, Playback!Next, Playback!Finish
<1>3. CASE \E t \in Threads : FinishedEnd(t)
  <2>1. PICK t \in Threads : FinishedEnd(t)
    BY <1>3
  <2>2. pc[t] = "waiting" /\ pc' = [pc EXCEPT ![t] = "idle"] /\ UNCHANGED sinkOpen
    BY <2>1 DEF FinishedEnd, Goto
  <2>3. UNCHANGED PlaybackPhase
    BY <2>2 DEF IInv, TypeOK, PlaybackPhase, Streaming, StreamingPCs
  <2> QED
    BY <2>2, <2>3 DEF Playback!vars
<1>4. CASE play
  <2>1. PICK t \in Threads : pc[t] = "idle" /\ pc' = [pc EXCEPT ![t] = "open"]
    BY <1>4 DEF play, Goto
  <2>2. PlaybackPhase = "none"
    BY <1>1, <1>4 DEF play, MayPlay, PhaseMatches
  <2>3. PlaybackPhase' = "starting"
    BY <2>1 DEF IInv, TypeOK, PlaybackPhase
  <2> QED
    BY <1>4, <2>2, <2>3 DEF play, Playback!Next, Playback!Play
<1>5. CASE \/ pause \/ resume \/ stop \/ setLoops
           \/ Enter("seekWait") \/ Enter("volumeWait") \/ BlockingCall
  <2>1. UNCHANGED <<pc, sinkOpen>>
    BY <1>5 DEF pause, resume, stop, setLoops, Enter, BlockingCall, SeekLock,
       SeekEnd, VolumeLock, VolumeEnd
  <2> QED
    BY <2>1 DEF PlaybackPhase, Streaming, Playback!vars
<1> QED
  BY <1>2, <1>3, <1>4, <1>5 DEF Finished

\* NSSound's threads and locks implement the playback -play promises: each
\* accepted -play opens and closes the device at most once, in that order, and
\* is answered by exactly one -_finished: before another is accepted.
THEOREM ImplementsPlayback == Spec => PlaybackSpec
<1>1. Init => Playback!Init
  BY DEF Init, Playback!Init, PlaybackPhase, Streaming, StreamingPCs
<1>2. IInv /\ IInv' /\ [Next]_vars => [Playback!Next]_(Playback!vars)
  <2> SUFFICES ASSUME IInv, IInv', [Next]_vars
               PROVE  [Playback!Next]_(Playback!vars)
    OBVIOUS
  <2>1. CASE \E t \in Threads : Stream(t)
    BY <2>1, StreamStep
  <2>2. CASE \/ \E t \in Threads : Finished(t)
             \/ play \/ pause \/ resume \/ stop \/ setLoops
             \/ Enter("seekWait") \/ Enter("volumeWait") \/ BlockingCall
    BY <2>2, MainStep
  <2>3. CASE UNCHANGED vars
    BY <2>3 DEF vars, PlaybackPhase, Streaming, Playback!vars
  <2> QED
    BY <2>1, <2>2, <2>3 DEF Next
<1> QED
  BY InitIInv, NextIInv, <1>1, <1>2, PTL DEF Spec, PlaybackSpec, Playback!Spec
=============================================================================
