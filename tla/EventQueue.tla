----------------------------- MODULE EventQueue -----------------------------
(***************************************************************************)
(* The event queue of the display server (Source/GSDisplayServer.m) below  *)
(* nextEventMatchingMask:untilDate:inMode:dequeue: of NSApplication.  A    *)
(* call that finds no event runs the run loop, whose callbacks (the back   *)
(* end's input handler, timers) post and discard events and may start such *)
(* calls of their own; the outer call then goes on from the position it    *)
(* had reached.                                                            *)
(***************************************************************************)
EXTENDS Naturals, Sequences, FiniteSets

CONSTANTS
    Types,      \* types of events a mask can name
    Null,       \* the type of null_event, which only NSAnyEventMask matches
    None,       \* nil
    MaxTime,    \* bound on the timestamps; synthetic events have 0
    MaxQueue,   \* bound on the events that wait
    MaxCalls    \* bound on the nesting of calls

ASSUME TypesAssumption == Null \notin Types
ASSUME BoundsAssumption ==
    MaxTime \in Nat /\ MaxQueue \in Nat /\ MaxCalls \in Nat \ {0}

VARIABLES
    queue,      \* event_queue
    calls,      \* the calls of getEventMatchingMask:... that run, innermost last
    answer      \* what the call that returned in the last step returned

vars == <<queue, calls, answer>>

Event == [type: Types, time: 0..MaxTime] \cup [type: {Null}, time: {0}]
AnyEventMask == Types \cup {Null}
Masks == {AnyEventMask} \cup (SUBSET Types \ {{}})

Call == [mask: Masks, dequeue: BOOLEAN,
         open: BOOLEAN,         \* the limit date has not passed
         pos: Nat,              \* events scanned so far
         at: {"scan", "runLoop", "callback"},
         disturbed: BOOLEAN]    \* the part of the queue it scanned has changed

Init == queue = <<>> /\ calls = <<>> /\ answer = None

-----------------------------------------------------------------------------
(* The queue.                                                              *)

Matches(mask, e) == e.type \in mask

Without(s, removed) ==
    LET kept == DOMAIN s \ removed
        nth(n) == CHOOSE j \in kept : Cardinality({i \in kept : i <= j}) = n
    IN  [n \in 1..Cardinality(kept) |-> s[nth(n)]]

\* A call is disturbed when an event it has passed leaves the queue or one
\* comes in before an event it has passed.
Disturbed(cs, positions) ==
    [k \in DOMAIN cs |->
        [cs[k] EXCEPT !.disturbed = @ \/ \E p \in positions : p <= cs[k].pos]]

\* The positions discardEventsMatchingMask:beforeEvent: removes, from the end
\* of the queue to its start.
Discarded(mask, when) ==
    {p \in DOMAIN queue : Matches(mask, queue[p]) /\ queue[p].time < when}

-----------------------------------------------------------------------------
(* getEventMatchingMask:beforeDate:inMode:dequeue:                         *)

Top == calls[Len(calls)]
Goto(at) == calls' = [calls EXCEPT ![Len(calls)].at = at]
Outer == SubSeq(calls, 1, Len(calls) - 1)

\* Application code runs: outside of any call, or in a callback of the run
\* loop of the innermost one.
InApplication == calls # <<>> => Top.at = "callback"

\* The scan goes on from the last position, or takes the head for any event.
MutantFirstUnseen(c) == c.pos + 2
FirstUnseen(c) == IF c.mask = AnyEventMask THEN 1 ELSE c.pos + 1

Found(c) == {p \in FirstUnseen(c)..Len(queue) : Matches(c.mask, queue[p])}

\* pos += i when the scan finds nothing: all there is has been seen.
MutantScanned(c) == Len(queue) + 1
Scanned(c) ==
    IF c.mask = AnyEventMask \/ Len(queue) <= c.pos THEN c.pos ELSE Len(queue)

\* removeObjectAtIndex: pos, after pos += i
MutantRemovedAt(c, p) == c.pos + 1
RemovedAt(c, p) == p

\* nextEventMatchingMask:... never returns null_event.
MutantAnswer(e) == e
Answer(e) == IF e.type = Null THEN None ELSE e

Return(c, p) ==
    /\ answer' = Answer(queue[p])
    /\ queue' = IF c.dequeue THEN Without(queue, {RemovedAt(c, p)}) ELSE queue
    /\ calls' = IF c.dequeue THEN Disturbed(Outer, {RemovedAt(c, p)}) ELSE Outer

ReturnNil == calls' = Outer /\ answer' = None /\ UNCHANGED queue

nextEventMatchingMask(mask, open, dequeue) ==
    /\ InApplication /\ Len(calls) < MaxCalls
    /\ calls' = Append(calls, [mask |-> mask, dequeue |-> dequeue, open |-> open,
                               pos |-> 0, at |-> "scan", disturbed |-> FALSE])
    /\ answer' = None
    /\ UNCHANGED queue

ScanFinds ==
    /\ calls # <<>> /\ Top.at = "scan"
    /\ \E p \in Found(Top) :
         /\ \A q \in Found(Top) : p <= q
         /\ Return(Top, p)

ScanFails ==
    /\ calls # <<>> /\ Top.at = "scan"
    /\ Found(Top) = {}
    /\ calls' = [calls EXCEPT ![Len(calls)].pos = Scanned(Top),
                              ![Len(calls)].at = "runLoop"]
    /\ answer' = None
    /\ UNCHANGED queue

\* runMode:beforeDate: has handled input or reached the limit.
RunLoopReturns ==
    /\ calls # <<>> /\ Top.at = "runLoop"
    /\ IF Top.open THEN Goto("scan") /\ answer' = None /\ UNCHANGED queue
                   ELSE ReturnNil

\* runMode:beforeDate: answers NO: there are no input sources.
NoInputSources ==
    /\ calls # <<>> /\ Top.at = "runLoop"
    /\ ReturnNil

\* The limit date passes.
LimitPasses ==
    /\ \E k \in DOMAIN calls :
         calls[k].open /\ calls' = [calls EXCEPT ![k].open = FALSE]
    /\ answer' = None
    /\ UNCHANGED queue

CallbackStarts ==
    /\ calls # <<>> /\ Top.at = "runLoop"
    /\ Goto("callback")
    /\ answer' = None
    /\ UNCHANGED queue

CallbackReturns ==
    /\ calls # <<>> /\ Top.at = "callback"
    /\ Goto("runLoop")
    /\ answer' = None
    /\ UNCHANGED queue

-----------------------------------------------------------------------------
(* What application code and the back end do to the queue.                 *)

Inserted(e, atStart) == IF atStart THEN <<e>> \o queue ELSE Append(queue, e)

postEvent(e, atStart) ==
    /\ InApplication /\ Len(queue) < MaxQueue
    /\ queue' = Inserted(e, atStart)
    /\ calls' = IF atStart THEN Disturbed(calls, {1}) ELSE calls
    /\ answer' = None

discardEventsMatchingMask(mask, when) ==
    /\ InApplication /\ queue # <<>>
    /\ queue' = Without(queue, Discarded(mask, when))
    /\ calls' = Disturbed(calls, Discarded(mask, when))
    /\ answer' = None

GetEvent == ScanFinds \/ ScanFails \/ RunLoopReturns
CallbackStep == CallbackStarts \/ CallbackReturns

Next ==
    \/ GetEvent \/ NoInputSources \/ LimitPasses \/ CallbackStep
    \/ \E mask \in Masks, open, dequeue \in BOOLEAN :
         nextEventMatchingMask(mask, open, dequeue)
    \/ \E e \in Event, atStart \in BOOLEAN : postEvent(e, atStart)
    \/ \E mask \in Masks, when \in 0..MaxTime + 1 :
         discardEventsMatchingMask(mask, when)

Spec == Init /\ [][Next]_vars

\* A scan ends; a callback that is not kept in a call it made returns; the run
\* loop returns once it has handled input, however many sources have some.
Fairness == WF_vars(ScanFinds \/ ScanFails) /\ SF_vars(RunLoopReturns)
            /\ SF_vars(CallbackReturns)

FairSpec == Spec /\ Fairness

-----------------------------------------------------------------------------
(* Properties.                                                             *)

\* The types of the queue and of the stack of calls; only the innermost call
\* is not in a callback.
TypeOK ==
    /\ queue \in Seq(Event) /\ Len(queue) <= MaxQueue
    /\ calls \in Seq(Call) /\ Len(calls) <= MaxCalls
    /\ \A k \in DOMAIN calls : k < Len(calls) => calls[k].at = "callback"
    /\ answer \in [type: Types, time: 0..MaxTime] \cup {None}

\* The position getEventMatchingMask: keeps while the run loop runs is worth
\* what it stands for: whatever nested calls, posts and discards happen in
\* the meantime, the call has either been disturbed or no event it has passed
\* is one it waits for.
ScannedHonestly ==
    \A k \in DOMAIN calls : LET c == calls[k] IN
        ~c.disturbed => /\ c.pos <= Len(queue)
                        /\ \A p \in 1..c.pos : ~Matches(c.mask, queue[p])

Returned == Len(calls') < Len(calls)

\* t is what stays of s, in its order, when the events at positions go.
Stays(t, s, positions) ==
    \E from \in [1..Len(t) -> DOMAIN s] :
        /\ \A n \in 1..Len(t) : t[n] = s[from[n]]
        /\ \A m, n \in 1..Len(t) : m < n => from[m] < from[n]
        /\ {from[n] : n \in 1..Len(t)} = DOMAIN s \ positions

\* An event leaves the queue in two ways only and takes no other with it: the
\* innermost call returns that very event and was asked to dequeue it, or a
\* discard names its type and it is older than the limit, all events of that
\* kind going and all others staying.
NothingLost ==
    [][\/ queue' = queue
       \/ \E e \in Event : queue' \in {<<e>> \o queue, Append(queue, e)}
       \/ /\ Returned /\ Top.dequeue
          /\ \E p \in DOMAIN queue : /\ Matches(Top.mask, queue[p])
                                     /\ answer' = Answer(queue[p])
                                     /\ Stays(queue', queue, {p})
       \/ \E mask \in Masks, when \in 0..MaxTime + 1 :
            Stays(queue', queue, {p \in DOMAIN queue : /\ queue[p].type \in mask
                                                      /\ queue[p].time < when})]_vars

\* "Scans through the event queue to find the first event whose type matches
\* mask": so does a call that was not disturbed, although it may have scanned
\* the queue in several parts.
FirstMatch ==
    [][Returned /\ answer' # None /\ ~Top.disturbed =>
        \E p \in DOMAIN queue :
            /\ queue[p] = answer' /\ Matches(Top.mask, queue[p])
            /\ \A q \in 1..(p - 1) : ~Matches(Top.mask, queue[q])]_vars

Waits(k) ==
    /\ Len(calls) = k /\ ~Top.disturbed
    /\ \E p \in DOMAIN queue : Matches(Top.mask, queue[p])

\* A call that was not disturbed does not wait for ever beside an event it was
\* called for: a post by a callback ends the wait.
MatchEndsWait == \A k \in 1..MaxCalls : Waits(k) ~> ~Waits(k)
=============================================================================
