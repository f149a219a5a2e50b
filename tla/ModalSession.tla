---------------------------- MODULE ModalSession ----------------------------
(***************************************************************************)
(* The event loops of NSApplication (Source/NSApplication.m).  -run, and   *)
(* every -runModalForWindow: or -runModalSession: that the handler of an   *)
(* event or of a timer calls, is a frame of the main thread's stack; the   *)
(* sessions these calls push form the chain that starts at _session.  A    *)
(* session is also begun, run and ended by the application itself, in any  *)
(* order it likes, from any handler.  Another thread may stop the modal    *)
(* loop at any time; it tests the session and then writes to it, and the   *)
(* main thread may do anything in between.                                 *)
(***************************************************************************)
EXTENDS Naturals, Sequences

CONSTANTS
    Windows,
    None,
    Panels,             \* instances of NSPanel: raised to the modal level
    WorksWhenModal,     \* windows that answer YES to -worksWhenModal
    ReleasedWhenClosed, \* windows that -close takes out of -windows
    MaxSessions,        \* bound on the chain
    MaxFrames,          \* bound on the nesting of event loops
    MaxQueue            \* bound on the events that wait in the server's queue

ASSUME WindowsAssumption ==
    /\ None \notin Windows \cup 1..MaxSessions
    /\ Panels \subseteq Windows
    /\ WorksWhenModal \subseteq Windows
    /\ ReleasedWhenClosed \subseteq Windows
ASSUME BoundsAssumption ==
    MaxSessions \in Nat /\ MaxFrames \in Nat \ {0} /\ MaxQueue \in Nat

VARIABLES
    chain,      \* the sessions from _session back, innermost last
    stack,      \* the event loops that are running, innermost last
    exc,        \* the exception that is unwinding the stack
    queue,      \* the display server's event queue
    running,    \* _app_is_running
    exists,     \* window is in -windows
    visible,    \* window is on screen
    level,      \* window level
    threadStop  \* the stop another thread has tested for but not yet written

windowVars == <<exists, visible, level>>
vars == <<chain, stack, exc, queue, running, windowVars, threadStop>>

Sessions == 1..MaxSessions
Codes == {"stopped", "aborted"}           \* NSRunStoppedResponse, NSRunAbortedResponse
Levels == {"normal", "modal"}

Session == [id: Sessions, window: Windows, entry: Levels,
            state: Codes \cup {"continues"}, owner: {"loop", "app"}]
Frame == [kind: {"run", "window", "session"}, id: Sessions \cup {None},
          pc: {"poll", "polling", "done", "wait", "handler", "callback"}]
Event == [kind: {"input"}, window: Windows] \cup
         [kind: {"appkit", "null"}, window: {None}]

Init ==
    /\ chain = <<>>
    /\ stack = <<[kind |-> "run", id |-> None, pc |-> "poll"]>>
    /\ exc = "none"
    /\ queue = <<>>
    /\ running = TRUE
    /\ exists = [w \in Windows |-> TRUE]
    /\ visible \in [Windows -> BOOLEAN]
    /\ level = [w \in Windows |-> "normal"]
    /\ threadStop = None

-----------------------------------------------------------------------------
(* The stack of event loops and the chain of sessions.                     *)

Top == stack[Len(stack)]
Goto(pc) == stack' = [stack EXCEPT ![Len(stack)].pc = pc]
Push(kind, id) == Append(stack, [kind |-> kind, id |-> id, pc |-> "poll"])
Pop == SubSeq(stack, 1, Len(stack) - 1)

\* The application's own code is what the main thread executes.
InApplication == /\ stack # <<>> /\ exc = "none"
                 /\ Top.pc \in {"handler", "callback", "polling"}

\* An event loop is what the main thread executes.
InLoop(kinds) == stack # <<>> /\ exc = "none" /\ Top.kind \in kinds

Innermost == chain[Len(chain)]
InChain(id) == \E k \in DOMAIN chain : chain[k].id = id
Position(id) == CHOOSE k \in DOMAIN chain : chain[k].id = id
SessionOf(id) == chain[Position(id)]
InStack(id) == \E k \in DOMAIN stack : stack[k].id = id

Fresh == CHOOSE id \in Sessions :
            /\ ~InChain(id) /\ ~InStack(id)
            /\ \A other \in Sessions : InChain(other) \/ InStack(other) \/ id <= other

\* -close: out of the screen, and out of -windows if released when closed.
ExistsAfterClose(w) == [exists EXCEPT ![w] = @ /\ w \notin ReleasedWhenClosed]

\* -beginModalSessionForWindow: pushes a session that remembers the window's
\* level, raises a panel to the modal level and orders the window front.
Begun(w, owner) ==
    /\ chain' = Append(chain, [id |-> Fresh, window |-> w, entry |-> level[w],
                               state |-> "continues", owner |-> owner])
    /\ level' = IF w \in Panels THEN [level EXCEPT ![w] = "modal"] ELSE level
    /\ visible' = [visible EXCEPT ![w] = TRUE]
    /\ UNCHANGED exists

\* -endModalSession: frees every session above this one and then this one ...
MutantRemaining(id) == SubSeq(chain, 1, Len(chain) - 1)
Remaining(id) == SubSeq(chain, 1, Position(id) - 1)

\* ... each giving its window back the level it found; a window that has
\* several of them ends with the level the outermost found.
MutantFreed(id) == {Position(id)}
Freed(id) == Position(id)..Len(chain)

Restored(id) ==
    [w \in Windows |->
        LET freed == {k \in Freed(id) : chain[k].window = w}
        IN  IF exists[w] /\ freed # {}
            THEN chain[CHOOSE k \in freed : \A j \in freed : k <= j].entry
            ELSE level[w]]

\* The window of the session that is innermost now is ordered front again.
FrontAgain(rest) ==
    IF rest # <<>> /\ exists[rest[Len(rest)].window]
    THEN [visible EXCEPT ![rest[Len(rest)].window] = TRUE]
    ELSE visible

Ended(id) ==
    /\ chain' = Remaining(id)
    /\ level' = Restored(id)
    /\ visible' = FrontAgain(Remaining(id))

\* -stopModalWithCode: only a session that continues takes a code.
MutantTakesCode == chain # <<>>
TakesCode == chain # <<>> /\ Innermost.state = "continues"

Stopped(code) ==
    IF TakesCode
    THEN chain' = [chain EXCEPT ![Len(chain)].state = code]
    ELSE chain' = chain

-----------------------------------------------------------------------------
(* The event loops.                                                        *)

\* -run: while (_app_is_running) wait for an event ...
RunLoop ==
    /\ InLoop({"run"}) /\ Top.pc = "poll"
    /\ IF running THEN Goto("wait") ELSE stack' = <<>>
    /\ UNCHANGED <<chain, exc, queue, running, windowVars, threadStop>>

\* ... and dispatch it, unless it is the dummy event of -stop:.
RunDispatch ==
    /\ InLoop({"run"}) /\ Top.pc = "wait" /\ queue # <<>>
    /\ queue' = Tail(queue)
    /\ Goto(IF Head(queue).kind = "null" THEN "poll" ELSE "handler")
    /\ UNCHANGED <<chain, exc, running, windowVars, threadStop>>

\* The events -runModalSession: dispatches; it throws all others away.
Handled(e, s) ==
    \/ e.kind = "appkit"
    \/ /\ e.kind = "input" /\ exists[e.window]
       /\ e.window = s.window \/ e.window \in WorksWhenModal

\* -runModalSession: takes the events that are already there.
ModalDispatch ==
    /\ InLoop({"window", "session"}) /\ Top.pc = "poll"
    /\ SessionOf(Top.id).state = "continues" /\ queue # <<>>
    /\ queue' = Tail(queue)
    /\ IF Handled(Head(queue), SessionOf(Top.id)) THEN Goto("handler") ELSE UNCHANGED stack
    /\ UNCHANGED <<chain, exc, running, windowVars, threadStop>>

\* It leaves its loop when the session was stopped or it found no event ...
LoopDone ==
    /\ InLoop({"window", "session"})
    /\ \/ Top.pc = "done"
       \/ /\ Top.pc = "poll"
          /\ SessionOf(Top.id).state # "continues" \/ queue = <<>>

\* ... and asserts that its session is still the innermost one.
SessionChanged ==
    /\ LoopDone
    /\ Innermost.id # Top.id
    /\ exc' = "other"
    /\ UNCHANGED <<chain, stack, queue, running, windowVars, threadStop>>

\* -runModalSession: answers the application, which called it.
SessionReturns ==
    /\ LoopDone /\ Innermost.id = Top.id
    /\ Top.kind = "session"
    /\ stack' = Pop
    /\ UNCHANGED <<chain, exc, queue, running, windowVars, threadStop>>

MutantBlocks == Top.kind = "window"
Blocks == Top.kind = "window" /\ Innermost.state = "continues"

\* -runModalForWindow: blocks until there are more events (DPSPeekEvent) ...
ModalWait ==
    /\ LoopDone /\ Innermost.id = Top.id /\ Blocks
    /\ Goto("wait")
    /\ UNCHANGED <<chain, exc, queue, running, windowVars, threadStop>>

ModalWakeUp ==
    /\ InLoop({"window"}) /\ Top.pc = "wait" /\ queue # <<>>
    /\ Goto("poll")
    /\ UNCHANGED <<chain, exc, queue, running, windowVars, threadStop>>

\* ... or ends its session and returns the code.
ModalReturns ==
    /\ LoopDone /\ Innermost.id = Top.id
    /\ Top.kind = "window" /\ Innermost.state # "continues"
    /\ Ended(Top.id)
    /\ stack' = Pop
    /\ UNCHANGED <<exc, queue, running, exists, threadStop>>

\* A timer fires while a loop waits in the run loop, or in the one pass over
\* the run loop that -runModalSession: makes when it finds the queue empty.
TimerFires ==
    /\ \/ /\ InLoop({"run", "window"}) /\ Top.pc = "wait"
          /\ Goto("callback")
       \/ /\ InLoop({"window", "session"}) /\ Top.pc = "poll"
          /\ SessionOf(Top.id).state = "continues" /\ queue = <<>>
          /\ Goto("polling")
    /\ UNCHANGED <<chain, exc, queue, running, windowVars, threadStop>>

\* The handler of an event returns; a modal loop then checks whether the
\* window of the innermost session has gone away.
WindowGone(w) == ~exists[w] \/ ~visible[w]

MutantChecksWindow == FALSE
ChecksWindow == Top.kind # "run"

HandlerReturns ==
    /\ InApplication /\ Top.pc = "handler"
    /\ Goto("poll")
    /\ IF ChecksWindow /\ WindowGone(Innermost.window)
       THEN Stopped("stopped") ELSE UNCHANGED chain
    /\ UNCHANGED <<exc, queue, running, windowVars, threadStop>>

\* After a timer a loop that waits looks at the queue; one that polls has
\* found no event, whatever the timer posted.
InTimer == Top.pc \in {"callback", "polling"}
TimerOver == Goto(IF Top.pc = "callback" THEN "wait" ELSE "done")

CallbackReturns ==
    /\ InApplication /\ InTimer
    /\ TimerOver
    /\ UNCHANGED <<chain, exc, queue, running, windowVars, threadStop>>

-----------------------------------------------------------------------------
(* Exceptions.                                                             *)

\* Out of a handler into the loop that dispatched the event: -run reports it
\* (_handleException:), -runModalSession: passes it on to its caller, and
\* -runModalForWindow: ends its session, closes the window and swallows an
\* NSAbortModalException.
Unwind ==
    /\ exc # "none" /\ ~InTimer
    /\ \/ /\ Top.kind = "run"
          /\ Goto("poll") /\ exc' = "none"
          /\ UNCHANGED <<chain, windowVars>>
       \/ /\ Top.kind = "session"
          /\ stack' = Pop
          /\ UNCHANGED <<chain, exc, windowVars>>
       \/ /\ Top.kind = "window"
          /\ chain' = Remaining(Top.id)
          /\ level' = Restored(Top.id)
          /\ LET w == SessionOf(Top.id).window
             IN  /\ visible' = [FrontAgain(Remaining(Top.id)) EXCEPT ![w] = FALSE]
                 /\ exists' = ExistsAfterClose(w)
          /\ stack' = Pop
          /\ exc' = IF exc = "abort" THEN "none" ELSE exc
    /\ UNCHANGED <<queue, running, threadStop>>

\* Out of a timer into the run loop, which reports it.
CaughtByTimer ==
    /\ exc # "none" /\ InTimer
    /\ TimerOver /\ exc' = "none"
    /\ UNCHANGED <<chain, queue, running, windowVars, threadStop>>

\* The application catches what a loop it started let through.
CaughtByHandler ==
    /\ exc # "none" /\ Top.pc = "handler"
    /\ exc' = "none"
    /\ UNCHANGED <<chain, stack, queue, running, windowVars, threadStop>>

-----------------------------------------------------------------------------
(* What the handlers of the application may call.                          *)

runModalForWindow(w) ==
    /\ InApplication /\ exists[w]
    /\ Len(chain) < MaxSessions /\ Len(stack) < MaxFrames
    /\ Begun(w, "loop")
    /\ stack' = Push("window", Fresh)
    /\ UNCHANGED <<exc, queue, running, threadStop>>

beginModalSessionForWindow(w) ==
    /\ InApplication /\ exists[w]
    /\ Len(chain) < MaxSessions
    /\ Begun(w, "app")
    /\ UNCHANGED <<stack, exc, queue, running, threadStop>>

\* With any other session the call raises, which RaiseException covers.
runModalSession ==
    /\ InApplication /\ chain # <<>> /\ Len(stack) < MaxFrames
    /\ Innermost.owner = "app" /\ ~InStack(Innermost.id)
    /\ stack' = Push("session", Innermost.id)
    /\ UNCHANGED <<chain, exc, queue, running, windowVars, threadStop>>

\* The application ends a session it began, not one that a loop still runs
\* and not one below such a session.
endModalSession(id) ==
    /\ InApplication /\ InChain(id)
    /\ \A k \in Position(id)..Len(chain) :
          chain[k].owner = "app" /\ ~InStack(chain[k].id)
    /\ Ended(id)
    /\ UNCHANGED <<stack, exc, queue, running, exists, threadStop>>

\* -stopModal, -stopModalWithCode:, -abortModal, -endSheet:
stopModalWithCode(code) ==
    /\ InApplication
    /\ Stopped(code)
    /\ UNCHANGED <<stack, exc, queue, running, windowVars, threadStop>>

\* -stop: ends the innermost modal session or else -run, whose loop a dummy
\* event wakes up.  The queue needs no second one when it is full.
MutantNullEvent == [kind |-> "input", window |-> None]
NullEvent == [kind |-> "null", window |-> None]

MutantWithNullEvent == queue
WithNullEvent == IF Len(queue) > MaxQueue THEN queue ELSE Append(queue, NullEvent)

stop ==
    /\ InApplication
    /\ IF chain # <<>>
       THEN Stopped("stopped") /\ UNCHANGED <<queue, running>>
       ELSE /\ running' = FALSE
            /\ queue' = WithNullEvent
            /\ UNCHANGED chain
    /\ UNCHANGED <<stack, exc, windowVars, threadStop>>

close(w) ==
    /\ InApplication /\ exists[w]
    /\ visible' = [visible EXCEPT ![w] = FALSE]
    /\ exists' = ExistsAfterClose(w)
    /\ UNCHANGED <<chain, stack, exc, queue, running, level, threadStop>>

orderFront(w) ==
    /\ InApplication /\ exists[w] /\ ~visible[w]
    /\ visible' = [visible EXCEPT ![w] = TRUE]
    /\ UNCHANGED <<chain, stack, exc, queue, running, exists, level, threadStop>>

\* NSAbortModalException or any other.
RaiseException ==
    /\ InApplication
    /\ exc' \in {"abort", "other"}
    /\ UNCHANGED <<chain, stack, queue, running, windowVars, threadStop>>

-----------------------------------------------------------------------------
(* The display server and another thread.                                  *)

PostEvent(e) ==
    /\ stack # <<>>
    /\ Len(queue) < MaxQueue
    /\ e.kind = "input" => exists[e.window] /\ visible[e.window]
    /\ queue' = Append(queue, e)
    /\ UNCHANGED <<chain, stack, exc, running, windowVars, threadStop>>

\* -stopModalWithCode: called from a thread that is not the main one tests
\* _session->runState ...
StopFromThread(code) ==
    /\ stack # <<>> /\ threadStop = None
    /\ TakesCode
    /\ threadStop' = [id |-> Innermost.id, code |-> code]
    /\ UNCHANGED <<chain, stack, exc, queue, running, windowVars>>

\* ... and writes it without a lock: to the session it tested, unless that is
\* freed, or, if _session is read again, to the one that is innermost now;
\* when there is none left the program dies.
StoreFromThread ==
    /\ stack # <<>> /\ threadStop # None
    /\ \/ /\ chain' = [k \in DOMAIN chain |->
                        IF chain[k].id = threadStop.id
                        THEN [chain[k] EXCEPT !.state = threadStop.code] ELSE chain[k]]
          /\ UNCHANGED <<stack, exc>>
       \/ /\ chain # <<>>
          /\ chain' = [chain EXCEPT ![Len(chain)].state = threadStop.code]
          /\ UNCHANGED <<stack, exc>>
       \/ /\ chain = <<>>
          /\ stack' = <<>> /\ exc' = "none"
          /\ UNCHANGED chain
    /\ threadStop' = None
    /\ UNCHANGED <<queue, running, windowVars>>

LoopStep ==
    \/ RunLoop \/ RunDispatch
    \/ ModalDispatch \/ SessionChanged \/ SessionReturns
    \/ ModalWait \/ ModalWakeUp \/ ModalReturns
    \/ Unwind

TimerReturns == CallbackReturns \/ CaughtByTimer

ApplicationCall ==
    \/ \E w \in Windows :
         \/ runModalForWindow(w) \/ beginModalSessionForWindow(w)
         \/ close(w) \/ orderFront(w)
    \/ runModalSession
    \/ \E id \in Sessions : endModalSession(id)
    \/ \E code \in Codes : stopModalWithCode(code)
    \/ stop
    \/ RaiseException

Environment ==
    \/ \E e \in Event : e.kind # "null" /\ PostEvent(e)
    \/ \E code \in Codes : StopFromThread(code)
    \/ StoreFromThread
    \/ TimerFires

\* -run has returned: the program leaves.
Terminated == stack = <<>> /\ UNCHANGED vars

Next ==
    \/ LoopStep \/ HandlerReturns \/ TimerReturns \/ CaughtByHandler
    \/ ApplicationCall \/ Environment \/ Terminated

Spec == Init /\ [][Next]_vars

\* The main thread keeps running, timers do not starve the events it waits
\* for, and a handler or a timer that is not kept in loops it started returns.
\* Nothing is assumed about events: the user may do nothing.
Fairness == SF_vars(LoopStep) /\ SF_vars(HandlerReturns) /\ SF_vars(TimerReturns)

FairSpec == Spec /\ Fairness

-----------------------------------------------------------------------------
(* Properties.                                                             *)

\* The types of NSApplication's loop state; -run is the outermost loop.
TypeOK ==
    /\ chain \in Seq(Session) /\ Len(chain) <= MaxSessions
    /\ stack \in Seq(Frame) /\ Len(stack) <= MaxFrames
    /\ \A k \in DOMAIN stack : (stack[k].kind = "run") <=> (k = 1)
    /\ exc \in {"none", "abort", "other"}
    /\ queue \in Seq(Event) /\ Len(queue) <= MaxQueue + 1
    /\ running \in BOOLEAN
    /\ exists \in [Windows -> BOOLEAN]
    /\ visible \in [Windows -> BOOLEAN]
    /\ level \in [Windows -> Levels]
    /\ threadStop \in [id: Sessions, code: Codes] \cup {None}

\* However the loops end (by a stop, by the death of their window, by an
\* exception that unwinds several of them, with or without sessions the
\* application left open), the sessions -endModalSession: leaves in the chain
\* are those of the loops that still run, nested as these are: no loop looks
\* at a freed session and none leaves its session behind.
SessionsMatchLoops ==
    /\ \A k \in DOMAIN stack : stack[k].kind # "run" => InChain(stack[k].id)
    /\ \A j, k \in DOMAIN stack :
         stack[j].kind # "run" /\ j < k => Position(stack[j].id) < Position(stack[k].id)
    /\ \A k \in DOMAIN chain : chain[k].owner = "loop" => InStack(chain[k].id)

\* A panel floats at the modal level exactly while a session holds it: the
\* levels beginModalSessionForWindow: saved come back in whatever order and
\* however many at a time endModalSession: frees the sessions.
LevelsRestored ==
    \A w \in Windows : exists[w] =>
        level[w] = IF w \in Panels /\ \E k \in DOMAIN chain : chain[k].window = w
                   THEN "modal" ELSE "normal"

\* The other thread writes a code that it tested for in an earlier state.
LateStore(code) ==
    /\ threadStop # None /\ threadStop' = None
    /\ threadStop.code = code

\* A handler, a timer and another thread may all call stopModalWithCode:.  What
\* they do on the main thread never replaces the code a session has taken nor
\* reaches a session below the innermost one; the one write that can is the
\* write of another thread whose test is already behind it.
FirstStopOrLateStore ==
    [][\A k \in DOMAIN chain \cap DOMAIN chain' :
          chain[k].id = chain'[k].id /\ chain[k].state # chain'[k].state
              => \/ k = Len(chain) /\ chain[k].state = "continues"
                 \/ LateStore(chain'[k].state)]_vars

\* The innermost loop is the modal loop of the session at position k.
InLoopOf(k) ==
    /\ stack # <<>> /\ Top.kind = "window" /\ k = Len(chain)
    /\ Top.id = chain[k].id

\* A modal loop that is stopped while it handles an event, or by a timer that
\* fires while it polls, returns without another event (-runModalForWindow: looks
\* at the state before it blocks).
StopInHandlerReturns ==
    \A k \in 1..MaxSessions :
        (InLoopOf(k) /\ Top.pc \notin {"wait", "callback"} /\ chain[k].state # "continues")
            ~> ~(InLoopOf(k) /\ chain[k].state # "continues")

\* A modal loop whose window a handler closed ends, though no stop was called.
GoneWindowEndsLoop ==
    \A k \in 1..MaxSessions :
        (InLoopOf(k) /\ Top.pc = "handler" /\ WindowGone(chain[k].window))
            ~> ~(InLoopOf(k) /\ WindowGone(chain[k].window))

\* In a program that runs no modal loop, -stop: makes -run return without
\* another event from the user, whether a handler or a timer calls it.
StopEndsRun == [](Len(stack) <= 1) => (~running ~> stack = <<>>)

\* -stop: is commented "add dummy event to queue to assure loop cycles at least
\* one more time": -run then returns, unless it is inside a modal loop.
StopCyclesLoop == ~running ~> (stack = <<>> \/ Len(stack) > 1)

\* -abortModal is documented: "Halts a currently running modal event loop
\* ... only use this to halt the loop from elsewhere, such as another thread."
AbortHaltsLoop ==
    \A k \in 1..MaxSessions :
        (InLoopOf(k) /\ chain[k].state = "aborted")
            ~> ~(InLoopOf(k) /\ chain[k].state = "aborted")
=============================================================================
