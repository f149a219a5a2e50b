# A verification project for GNUstep's gui library

TLA+ models of the parts of libs-gui whose correctness depends on the order in
which things happen: threads, nested event loops, and methods that call each
other back. Every definition is translated from the Objective-C source;
`PROJECT.json` ("map") names the lines.

* Model checking: `tlc -config MCSound.cfg MCSound.tla`, and likewise for the
  other configurations.
* Proofs: `tlapm SoundProofs.tla`, and likewise for `AppFocusProofs`,
  `DocumentProofs`, `DocumentRecoveryProofs`, `DocumentsProofs`, `EventQueueProofs`,
  `ModalSessionProofs` and `TextStorageProofs`.

## 1. The system

libs-gui is the AppKit of GNUstep: a library of some 300 classes that a program
links with. One thread, the main thread, runs the event loop of `NSApplication`;
almost everything happens in handlers that this loop calls. What is hard to test
is therefore in a few places: handlers that start loops of their own, threads
that do work beside the main one, state that is kept in two objects and brought
in line by notifications, files that are written in steps.

### Components

| component | state | operations | hard because of | what makes it correct |
|---|---|---|---|---|
| NSSound | source, sink, condition lock, lock, two flags | play, pause, resume, stop, seek, volume; the thread `_stream`; `_finished:` | a thread and the main thread, unlocked flags, locks created and destroyed while used | one thread at a time, locks never used after they are destroyed, every playback ends and is answered once, nobody blocks for ever |
| NSApplication: event loops | `_session` chain, `_app_is_running`, the C stack, the event queue | run, runModalForWindow:, runModalSession:, begin/end, stop:, stopModal, abortModal | loops inside handlers inside loops, timers, exceptions, another thread | sessions and loops nest alike, window levels are restored, a stopped loop returns |
| NSApplication/NSWindow: activation and focus | key and main (kept twice), visible, miniaturized, `_hidden`, `_inactive`, `_hidden_key`, `_hidden_main` | makeKey..., orderFront/Out, miniaturize, activate, deactivate, hide, unhide, events of the window manager | methods that call each other through notifications, lists remembered from one call to a later one | both records agree, the focus is on screen, windows come back |
| GSDisplayServer: event queue | `event_queue` | get, peek, discard, post | the run loop runs inside a scan of the queue | no event lost or delivered twice, order kept |
| NSTextStorage | `_editCount`, edited range, mask, delta; layout managers | beginEditing, endEditing, edited:..., processEditing | edits inside the notifications and layout managers an edit triggers | layout managers see changes that add up to the text's change |
| NSAnimation, GSAnimator | progress, marks, links to other animations, the blocking mode | start, stop, marks, startWhen/stopWhen | delegates change the marks and stop the animation while it advances; a threaded mode | each mark is reported once, stop is final |
| NSDocument | change count, file and autosave URLs, files on disk | updateChangeCount:, safe write, autosave, close | a failure or a crash between two steps | no version is lost, edited state is honest |
| NSDocumentController | documents, autosave records | close all, review, reopen autosaved | a chain of callbacks over a list that shrinks | every document is asked once, one answer to the caller |
| other components (PROJECT.json) | | | | not modelled, with the reason there |

How they interact: the display server puts events into its queue; the loops of
NSApplication take them out and call `-[NSWindow sendEvent:]`, which changes key
and main status and activates the application; handlers begin modal sessions,
which decide which windows get events and which windows deactivation leaves on
screen. NSSound performs its last act on the main thread, which the main
thread does when its run loop is idle. Handlers also edit text storages, which
tell their layout managers, and documents, whose change counts follow the undo
manager's notifications; `terminate:` asks the document controller, which asks the
documents, which save themselves.

## 2. The modules

| module | what it is |
|---|---|
| `SoundPlayback` | abstract: what `-play` promises |
| `Sound` | NSSound, its thread and its locks; implements `SoundPlayback` |
| `SoundProofs` | theorems about `Sound` |
| `ModalSession` | the event loops of NSApplication |
| `ModalSessionProofs` | theorems about `ModalSession` |
| `AppFocus` | key, main, activation, hiding |
| `AppFocusProofs` | theorems about `AppFocus` |
| `EventQueue` | the display server's queue, calls nested in callbacks |
| `EventQueueProofs` | theorems about `EventQueue` |
| `TextStorage` | edits added up and told to the layout managers |
| `TextStorageProofs` | theorems about `TextStorage` |
| `DocumentStore` | abstract: what saving a document promises |
| `Document` | one NSDocument, its change counts and each step of a save on disk; implements `DocumentStore` |
| `DocumentProofs` | theorems about `Document`: types, and that it implements `DocumentStore` |
| `DocumentRecoveryProofs` | theorems about `Document`: the counts, and what a crash leaves |
| `Documents` | NSDocumentController and NSApplication: all documents, the autosaving timer, closing, quitting, reopening |
| `DocumentsProofs` | theorems about `Documents` |
| `MC`... | what TLC is run on, one for each module with runs |

`ModalSession` stands on a queue that is first in, first out and holds no events
that a mask excludes; `EventQueue` is that queue in full, and its callbacks are what
`ModalSession` calls timers. `Documents` treats as one step what `Document` takes
apart: it may, because a save, an autosave and a removal of the autosaved file run
inside one call on the main thread, and a crash between their steps is what
`Document` is about.

Definitions whose names begin with `Mutant` are variants of the definition that
follows them, each with one plausible mistake. They are used nowhere in the
specifications: put in the place of the original, each makes TLC find one of the
properties violated, which shows that the property says something.

### Sound

State: `locks` (the two locks exist), `readCond`, `readOwner` and `playOwner`
(condition and owners of `_readLock` and `_playbackLock`), `shouldStop`,
`shouldLoop`, `position` (of the source), `sinkOpen`; for each thread its place
`pc` in `-_stream` and two local variables; `call`, the blocking call the main
thread is in. One action per statement of `-_stream` between which another
thread can be seen (lock, test of the flag, read, lock, play, the tests of the
two loops, rewind, close). The methods of the main thread that only *try* the
lock are one step, because nothing they read can be changed between their
statements except by themselves; those that wait for a lock are two
(`SeekLock`/`SeekEnd`, `VolumeLock`/`VolumeEnd`). `-_finished:` is two steps,
since it destroys the locks and then calls a delegate, which may call `-play`.

The abstract module has two variables. The mapping `PlaybackPhase` reads the
phase off the program counters: a thread that waits for the delegate to return
is already "none", because `-play` accepts a new playback at that moment.

### ModalSession

State: `chain` (the sessions from `_session` back, with run state, window, entry
level, and who is responsible for ending them), `stack` (the event loops on the
main thread's C stack; each polls the queue, waits in the run loop, or is inside
an event's handler or a timer's callback), `exc` (the exception that unwinds the
stack), `queue`, `running`, and the windows' existence, visibility and level.
An application may call anything from a handler or a callback. It ends a session
it began itself, but not one that a loop below it still runs: that is the
contract of `-endModalSession:`, and without it the code reads freed memory.
Exceptions unwind through the three kinds of loop as the `NS_HANDLER` blocks
say. Another thread may stop the innermost session at any time; it tests the session
(`StopFromThread`, which leaves `threadStop`) and writes to it without a lock
(`StoreFromThread`), and whatever the main thread does in between may happen: the
write then replaces another code, or goes to a session that is not the one tested.
Timers fire while a loop waits and while it polls.

### AppFocus

State: `app`, a record of the fields of NSApplication and of the sets of windows
with each flag of NSWindow; `modal`, the windows of the modal sessions. The program
starts before `-run`, with no window on screen and nothing active; `launch` says how
far `-finishLaunching` is, which registers for the notifications and records a main
window, and `running` is `_app_is_running`, without which
`_lossOfKeyOrMainWindow` does nothing. Because
the methods call each other (makeKeyAndOrderFront: unhides, unhide: activates,
activation unhides and makes key) each is an operator from a record to a record,
composed as in the code, and an action applies one. Two cycles of the code are
cut where it cannot go round: activation that begins at an application which is
not hidden (`Activated`), and deminiaturization of all windows inside an unhiding.
Notifications to NSApplication (`_windowDidBecomeKey:` and its siblings) are part
of the methods that post them, once the launch has registered for them. The order of
the windows on screen belongs to the display server and that of `-windows` to the
program, so a method that goes through a list of windows is given any order.

### EventQueue

State: `queue`; `calls`, the calls of `getEventMatchingMask:...` on the C stack, each
with its mask, the position `pos` it has scanned up to, whether its limit date has
passed, and where it is: scanning, in the run loop, or in a callback of the run
loop; `answer`, what the call that returned last gave back. A scan is one action,
since nothing happens between its statements; the run loop is where callbacks
happen, and they may post at either end, discard, and start a call of their own.
`NSAnyEventMask` takes the head without scanning, and null events are answered as
nil, as in the code. `disturbed` is not in the code: it says that the part of the
queue a call has scanned was changed under it.

### TextStorage

State: the text; `editCount`, `editedMask`, `editedRange`, `editedDelta`; the list
of layout managers and, for each, the text its glyphs stand for (`seen`); `passes`,
the calls of `-processEditing` on the C stack, each between two of the moments at
which it calls other code: observers of the will-process notification, the fixing of
attributes, observers of the did-process notification, one layout manager after the
other. In all of them `beginEditing`, `endEditing`, edits of characters and
attributes, and changes of the list are allowed. Edits made while a pass counts as a
`beginEditing` are added to the edit being processed; edits made by a layout manager
begin a pass inside the pass. A layout manager replaces the range it is told by the
text that is there now. `Unknown` marks one that is out of step with what it is told,
and of which the properties say nothing until it is removed: one passed over or told
late because of a nested pass or a change of the list; the one that raises and those
after it; and one that ran ahead, because it made its glyphs of the new text in the
telling loop, before its turn (`ToBeTold`).

### Document

State: the contents with their undo and redo stacks, the two counts and two flags,
the file URL and the document's entry in the controller's list of autosaved documents
(`entry`, there exactly while the document has an autosaved file URL); `call`, the
save, autosave, revert or close under way and its next step on disk; on disk the
files and backups under each name, the autosaved contents and the entry in the list
that was written (`record`). Each change of the disk is an action, and `Crash` may
come between any two. The move to the backup, the write of the contents and the
write of the list may fail; the last fails silently, and `record` then stays what it
was (`ListWritten`). The removals, of an old backup and of the autosaved file, are
taken to succeed: the code looks at neither. `Launch` reads the list and presents the
autosaved contents with the file URL of the entry. `acknowledged` and `exported`
are not in the code: what the user was last told to be safe, and that Save To wrote
over the document's own file.

The abstract module has a store, one version under each name, and the contents. The
mapping takes the backup for a file that is missing.

### Documents

State: the phase of the program; the controller's list; for each document the
change state, the autosaved file and its number; the autosaved files and the list of
them on disk; the entries still to be reopened; `call`, the loop over the documents
under way (autosaving, closing all, closing for the termination) with the documents
it still has to visit; `deferred`, that the delegate has answered `NSTerminateLater`.
A document is a piece of the user's work, which lives on in its autosaved file;
numbers begin at 1 in each launch, as `_untitledCount` does, so a document that was
reopened and keeps its file, and a new one that is given the number in the name of
that file, autosave to one file. `settled` is not in the code: the work saved or given
up by an answer. The list is taken to be written whenever it is to be; `Document` has
the failures.

## 3. What is checked

| run | bounds | shows |
|---|---|---|
| `sound` | 2 threads, 2 buffers; fairness | `LocksMatchStreamer`, `LockDiscipline`, `PlaybackSpec` (refinement); `PauseSilences`, `StopFinishes`, `MainReturns` (liveness) |
| `sound_stop` | 2 threads, 1 buffer; fairness | `StopClosesDevice` is violated |
| `modal` | 2 windows, 2 sessions, 3 loops, 1 event waiting, 1 other thread | `SessionsMatchLoops`, `LevelsRestored`, `FirstStopOrLateStore` |
| `modal_live` | 1 panel, 2 sessions, 3 loops, 1 event; fairness | `StopInHandlerReturns`, `GoneWindowEndsLoop`, `StopEndsRun` |
| `modal_abort`, `modal_stop` | as `modal_live` | `AbortHaltsLoop`, `StopCyclesLoop` are violated |
| `focus` | 2 document windows, 1 modal session, from before the launch | `FocusAgrees`, `FocusOnScreen`, `InactiveListHonest`, `HiddenIsInactive`, `WindowsComeBack`, `ModalWindowsStay`, `KeyHandedOn` |
| `focus_modal` | 2 document windows and a panel, 1 modal session | `BeginMakesKey` is violated |
| `event_queue` | 2 types of events and null, timestamps 0 and 1, 2 events waiting, 2 nested calls; fairness | `ScannedHonestly`, `NothingLost`, `FirstMatch`; `MatchEndsWait` (liveness) |
| `text_storage` | 2 characters, text of 2, 2 layout managers, 1 open `beginEditing` in each place, 2 nested passes, 3 edits until all passes have ended | `EditedRangeCovers`, `ToldRangesFit`, `LayoutFollowsText` |
| `document` | 2 names, 2 versions, 2 changes to undo | `EditedIsHonest`, `AutosaveIsHonest`, `NothingAcknowledgedIsLost`, `StoreSpec` (refinement) |
| `documents` | 3 documents, 3 numbers in one launch | `RecordsMatch`, `AutosavedWorkStays`, `UnsavedWorkKept` |

Each property is stated in words above its definition. Every run of the table
also checks the module's type invariant where it checks safety.

Why the bounds are enough. *Sound*: `-play` may be called again while the thread of
the previous playback still waits for the delegate, so two threads are alive at once
and a third could only repeat the second; two buffers give a first, a last and an
empty read. *ModalSession*: with two sessions `-endModalSession:` frees one alone or
two together, and both may be on the same panel; three loops (`-run` and two modal
ones) let an exception unwind one loop into another; the two windows differ in
everything the code tests (panel or not, released when closed or not, works when modal
or not). The queue holds one event beside the dummy event of `-stop:`; more sessions
are left to the proofs. *AppFocus*: two windows let one lose the status the other
takes, or lose it with no other to take it; one cannot be hidden, one works when
modal, and either may be set to hide on deactivation. Windows that cannot be main, and
the choice among several candidates, are left to the proofs, which hold for any
windows. *EventQueue*: the shortest disturbance is a nested call that takes one of two
events, and two types tell a mask that matches from one that does not. *TextStorage*:
two layout managers let one be told before and one after an edit by the first; three
edits are one of the application, one of an observer and one of a layout manager; a
text of two has places before, inside and after a range. *Document*: two versions tell
the old from the new, and with two names Save As and Save To can go elsewhere; with
two changes to undo a change can follow one that was undone. *Documents*: with three
documents the list is left with one before and one after the document that refuses,
and with three numbers a new document can get the number of a reopened one.

The last three runs use symmetry: of characters and of layout managers, of names and
of versions, of documents. None of the modules chooses one of these by `CHOOSE` or
compares them by anything but equality, and only invariants, action properties and
a refinement of safety are checked there.

### Fairness

`Sound` assumes strong fairness of each thread's steps (a thread that can take
the lock again and again gets it), of `-_finished:` (the main thread comes back
to its run loop) and of blocking calls of the main thread. It assumes nothing
about what the application calls. `ModalSession` assumes strong fairness of the
steps of loops, of the return of handlers and of the return of timers: the main
thread is not stopped, and code of the application that is not kept in a loop it
started returns. Strong fairness is needed because timers interrupt a loop that
waits: they must not keep it from the events for ever. Nothing is assumed about
events, so what these properties promise happens without the user.

`EventQueue` assumes weak fairness of the scan, and strong fairness of the run loop
returning to it and of a callback returning: the run loop returns when a source has
been served, and callbacks may come again and again in between. `MatchEndsWait`
needs no fairness of the clock, and returns of the run loop with nothing done
are allowed. The three modules of documents and text assume no fairness: all they
promise is safety.

### Where the code and its documentation disagree

* `-[NSSound stop]` is documented to close the device. A `-pause` that follows
  before the thread has run blocks the thread again, with the device open and
  `_shouldStop` set (`StopClosesDevice`). `StopFinishes` is what does hold.
* `-abortModal` is documented to halt a loop from another thread. It sets the run
  state and posts no event, so a loop that waits for events keeps waiting
  (`AbortHaltsLoop`). A stop in an event's handler is noticed
  (`StopInHandlerReturns`).
* `-stop:` posts a dummy event so that `-run` cycles once more. A modal loop
  that the same timer runs afterwards discards it (`StopCyclesLoop`). Without
  modal loops `-run` does return (`StopEndsRun`).
* `-beginModalSessionForWindow:` is documented to make the window key after
  ordering it front; the code does so before, without effect on a window that was
  not on screen (`BeginMakesKey`).

Also noticed while modelling, and part of the models, without a run of their own:
`-sound:didFinishPlaying:` is documented as not called, and it is;
`-orderWindow:relativeTo:` is documented to unhide the application and does not;
`-keyWindow` is documented to be nil while the application is inactive, but
`-makeKeyWindow` does not look; `-unhideWithoutActivation` activates when the
application has to be brought back by deminiaturizing; `_hidden` is not revised
when a hidden window is closed, so unhiding orders it in again.

Noticed in the same way in the other modules:

* Event loops: another thread that calls `-stopModalWithCode:` tests `_session` and
  writes to it without a lock (NSApplication.m:2019-2026). Its late write can replace
  the code of the first stop, stop another session, or go to one that has been freed.
* Focus: `-finishLaunching` records a main window that has never become main
  (NSApplication.m:1083-1096), so the branch "Bogus attempt" (4237) can be reached: two
  windows are then main, and deactivation leaves one of them so. Before `-run` and after
  `-stop:` a window ordered out or miniaturized stays key and main (NSWindow.m:335-339).
  A window that is both visible and miniaturized, or a main window recorded while off
  the screen, can be chosen to become key next and refuses, and then no window is key.
* Event queue: a call keeps its position while the run loop runs. An event that a
  callback posts at the start of the queue, or that a removal shifts below the
  position, is not found by that call, although it is documented to return the
  first match.
* Text storage: when a layout manager edits, those after it hear of the later change
  before the earlier one; removing a layout manager while they are told passes over
  the next; an exception while attributes are fixed leaves `_editCount` raised, so
  that no later edit is processed; the range saved before attributes are fixed
  does not move when an observer edits to its left; while the managers are told
  `_editCount` is 0, so one whose turn has not come can generate glyphs
  (GSLayoutManager.m:713) and is then told a change that it already has.
* Document: a write that fails leaves only the backup, and nothing puts it back; Save
  To over the document's own file followed by undoing makes `-isDocumentEdited` answer
  NO although the file differs; a crash between the write and the removal of the
  record makes the next launch present the older autosaved contents;
  whether the list of autosaved documents was written is not looked at
  (NSDocumentController.m:1769-1776) and the count is cleared all the same
  (NSDocument.m:996-997), so the document can report that nothing is left to autosave
  while no list leads to its contents.
* Document controller: the numbers restart at each launch, so a new document can be
  given the autosaved file of a reopened one, and each overwrites or removes the work
  of the other (`Overwritten`); the list is rewritten for the first document that is
  reopened, so a crash or a failure during reopening forgets the others
  (`NotReopened`); an answer YES after `NSTerminateLater` closes documents that were
  edited meanwhile without asking; `-reviewUnsavedDocumentsWithAlertTitle:...` with a
  delegate hands the delegate's selector to an alert sheet, which calls it with other
  arguments (a FIXME in the source).

## 4. What is proved

For every number of threads and buffers (`SoundProofs`):

* `TypeCorrect`, `StreamerSafe`, `LocksOwned`: the type invariant,
  `LocksMatchStreamer` and `LockDiscipline` are invariants. Together they are
  inductive (`IInv`): that a thread holds a lock only at the places where the
  code holds it needs that only one thread is active, and that needs that the
  locks exist exactly while one is.
* `ImplementsPlayback`: `Sound` refines `SoundPlayback`. Every step is shown,
  under `IInv`, to be a step of the abstract module or to leave the phase and the
  device unchanged; since at most one thread is active, the phase is that
  thread's.

For any windows, any subsets that can become key, main, and so on, and any
nesting of modal sessions (`AppFocusProofs`):

* `TypeCorrect`, `FocusConsistent`, `FocusVisible`: the type invariant,
  `FocusAgrees` and `FocusOnScreen`. That the record of the application names the key
  window is an invariant from the launch on (`Good`). The rest is not: the launch
  records a main window that is not main, and windows that lost the screen while the
  application did not run stay key. So the other half is a relation between the record
  before and after a method (`Agreed`): a main window that is named stays named, and
  a running application has no further window key or main off the screen. It is
  transitive, so a method inherits it from those it calls, and there is one lemma per
  method, in the order in which they call each other. Between the two halves of a
  method it fails (a window being ordered out is off screen while still key), so
  ordering out and miniaturizing are one lemma each with the loss of the focus.
* `InactiveHonest`, `HiddenInactive`: the invariants about what deactivation and
  hiding remember. They are inductive on top of `Good`, once stated on records
  (`Tidy`, `Waiting`).
* `WindowsReturn`, `ModalWindowsSpared`, `KeyIsHandedOn`: the action properties. Two
  more relations on records carry them: a method that brings windows back loses none
  and keeps a key window (`Rises`), one that takes windows away loses only what the
  properties allow (`Falls`). `Rises` is transitive, so it goes through activation,
  which unhides, which activates; every action is one or the other, and either
  implies the three properties.

Methods that go through a list of windows are recursive functions over the list, in
any order; `Iteration` and `UpTo` replace the induction over data that the provers
cannot do by one over a set of numbers.

For any windows, of which any are panels, are released when closed or work when
modal, and for any number of sessions, loops and waiting events
(`ModalSessionProofs`):

* `TypesOK`, `SessionsMatch`, `LevelsComeBack`: the type invariant,
  `SessionsMatchLoops` and `LevelsRestored`. The inductive invariant (`IInv`) says
  for a chain and a stack that the sessions have different identities, that each
  loop above `-run` has its session in the chain and in the order of the loops, that
  the sessions owned by a loop have one, and that those `-runModalSession:` runs are
  the application's own. The levels are restored because of an invariant about
  each session and not only the last: the level it saved is the modal one exactly
  if an older session holds the same panel. So when `-endModalSession:` frees a
  session together with those above it, the last to set a panel's level sets what
  belongs to the sessions that remain. That a new session gets an identity no
  other has is a pigeonhole argument (`FreshIsNew`).
* `FirstStopDecides`: `FirstStopOrLateStore`. A session keeps its place in the chain
  while it lives, the main thread writes a state only to the innermost session and
  only over "continues", and so whatever else replaces a state is the store of a thread
  whose test is behind it.

For any types of events, any bound on the queue and any depth of nesting
(`EventQueueProofs`):

* `EventQueueTypeOK`, `PositionsAreHonest`: the type invariant and `ScannedHonestly`,
  which together are inductive. What takes work is that taking positions out of a
  sequence keeps the order and the elements of the rest (`WithoutProperties`), so that
  a removal to the right of a call's position does not bring an unseen event into
  the part it has seen.
* `FirstMatchIsReturned`: the action property follows from the invariant, since the
  scan takes the least match after the position and there is none up to it.
* `NothingIsLost`: the action property. `Stays` says with an order-preserving map of
  positions what the removal in the code does with a filtered copy, and
  `WithoutStays` shows that the two agree.

For any characters, layout managers, length of the text, open `beginEditing` and
nested passes (`TextStorageProofs`):

* `TypesOK`, `RecordCovers`, `ToldFit`, `LayoutFollows`: the type invariant,
  `EditedRangeCovers`, `ToldRangesFit` and `LayoutFollowsText`. The inductive
  invariant (`IInv`) says of each layout manager what it lacks at each moment of
  each pass: what is on record if it has been told already or nobody has been told
  yet, and otherwise, as long as nothing new is on record, what the pass has
  saved to tell (`SeenInv`). A pass that a layout manager starts inside a pass leaves
  nothing promised to those the outer one still has to tell: they are `Unknown`
  (`OuterInv`), like those that ran ahead, while those told before one that raises keep
  the text they were told. The
  range a pass saved keeps fitting the text while observers edit (`SavedFits`). The
  step that matters is that a record which covers the differences, extended by one
  more edit as `-edited:range:changeInLength:` does, covers the new ones. The theorems
  cover the edits that the model allows, as many of them as one likes.

For any names, versions and depth of undoing (`DocumentProofs`):

* `DocumentTypeOK`: the type invariant. It is inductive only with `SavingInv`: the
  operation of the call fits its step, a call that saves has contents and a name,
  and the file exists that is moved or has been written.
* `SavingImplementsStore`: every step of a save is, under that invariant, a step of
  `DocumentStore`, wherever it fails: removing the old backup changes nothing because
  the file is there, moving the file changes nothing because the backup takes its
  place, the write is the abstract save.

Also for any names, versions and depth of undoing (`DocumentRecoveryProofs`, on top of
the invariants of `DocumentProofs`):

* `EditedHonest`, `AutosaveHonest`: `EditedIsHonest` and `AutosaveIsHonest`. A count
  that is zero says nothing by itself after the next undo, so the invariant speaks of
  every value: the contents so many changes back, or forth, are those in the file
  (`SavedInv`), and likewise for the autosaved contents (`AutosaveInv`), as long as
  the "permanently modified" flag has not been set.
* `AcknowledgedKept`: `NothingAcknowledgedIsLost`. Its invariant (`AcknowledgedInv`) says
  what the next launch would present in each kind of call; it needs how far a call has
  come (`ProgressInv`) and that the document has an entry in the controller's list
  only while there are autosaved contents that it leads to (`EntryInv`). What is written
  on disk is another matter: where the list could not be written, the properties say
  what the last one that was written leads to. The conjunction, `RecoveryInv`,
  is inductive.

For any number of documents and of numbers (`DocumentsProofs`):

* `DocumentsTypeOK`: the type invariant, of which the hard part is that a loop over
  the documents holds only open ones, each once, while the list shrinks.
* `UnsavedWorkIsKept`: the action property. The invariant it needs (`AgreedInv`) says
  that where the program goes on to quit, every edited document that is still open is
  settled, unless the answer is a late one.
* `ListMatchesDocuments`: `RecordsMatch`. The inductive invariant adds to the above that
  no two documents of a launch have the same number (`NumbersInv`), what is still to be
  reopened (`PendingInv`), and that the list on disk leads to the files of the open
  documents, once it has been written (`ListedInv`).
* `AutosavedWorkIsFound`: `AutosavedWorkStays`, from the same invariants. Each file holds
  one work (`SharedFile` says which documents may use the same one), so a step that
  writes or removes a file, or rewrites the list, is followed through each document:
  either its work is still found (`Stays`), or it is the document that is saved or
  closed, or one of the two shares a number of an earlier launch, or the work was not
  reopened.

The assumptions are those named in the modules: the main thread and "no owner" are
none of the threads; there are finitely many windows; main windows can become key;
only windows that can be main can be miniaturized; panels, windows released when
closed and windows that work when modal are windows; `Null` is no type of event; no
version is `Absent`; the bounds are natural numbers. `None` is no window, session,
name, document or number, and not one of the entries `[location |-> ...]` of the list
on disk: it stands for `nil`, so it must differ from everything that a variable may
hold instead.

Every invariant and every action property that a passing run checks is stated by a
theorem. Not proved, only model-checked, are the liveness properties
(`PauseSilences`, `StopFinishes`, `MainReturns`, `StopInHandlerReturns`,
`GoneWindowEndsLoop`, `StopEndsRun`, `MatchEndsWait`): they rest on fairness, which is
about ENABLED, and that is out of the prover's reach. The four properties that the
code violates are counterexamples of TLC.

## 5. What is abstracted or left out

* Sound data, plug-ins, names, coding. A failing sink is a choice of `PlayBytes`.
  The locks' internals are the library's; a lock is an owner and a condition.
* The contents of events: an event is for a window, for the window manager's
  business, or the dummy one. Services, menus and `updateWindows` are left out.
* `-runModalForWindow:relativeToWindow:` and sheets are `-runModalForWindow:`
  with other placement; they call it and add no state of their own.
* Windows that are not created yet, the menu's window and the icon's; hiding by
  miniaturizing every window (`GSSuppressAppIcon`, Windows); observers that change
  the focus inside a notification; a window that is freed (in `AppFocus`).
* What the display server does on its own: it is the actor that delivers events.
* Text: the attribute runs, so that a change of attributes is a change of characters
  of the same length; exceptions while attributes are fixed (the notification centre
  keeps those of observers to itself); deallocation.
* Documents: subclasses that override `writeWithBackupToFile:...`, file types and
  extensions, printing. The write itself is atomic, as `NSDocument` asks of
  NSFileWrapper. A document has one window, which is released when it is closed, as
  `-[NSWindowController setDocument:]` arranges. Panels are answers, chosen freely.
* Everything with status `not_modelled` in `PROJECT.json`: mostly drawing, geometry and
  decoding, which are data and sequential, and clients of processes outside this
  repository.

## 6. Plan

Done: `Sound` with `SoundPlayback`, `ModalSession`, `AppFocus`, `EventQueue`,
`TextStorage`, `Document` with `DocumentStore`, `Documents`, and the proofs of
section 4. Left, in the order of importance:

1. Proofs of the safety part of the liveness properties: that a loop whose session
   is stopped or whose window is gone never waits again, and that a thread told to
   stop passes no lock it could wait for, as action properties and invariants.
2. `AppFocus`: hiding by miniaturizing, re-entrant observers.
3. `Animation`: progress, marks, links, callbacks that stop or change the marks, and
   the blocking modes (NSAnimation, GSAnimator).
