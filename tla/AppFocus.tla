------------------------------ MODULE AppFocus ------------------------------
(***************************************************************************)
(* Which window is key, which is main and which are on screen, while the   *)
(* application is activated, deactivated, hidden and unhidden              *)
(* (Source/NSApplication.m, Source/NSWindow.m).  The methods call each     *)
(* other, so each is an operator from the state of the application to its  *)
(* next state, and an action applies one of them to the variable app.      *)
(*                                                                         *)
(* The windows are ordinary ones: not the menu, not the application icon,  *)
(* already created by the display server.  The order of the windows on     *)
(* screen belongs to the server, and that of -windows to the program:      *)
(* whenever a method goes through a list of windows, it is given any order *)
(* (front, list).                                                          *)
(*                                                                         *)
(* The program starts before -run: until -finishLaunching has registered   *)
(* for their notifications, windows become key and main and resign without *)
(* the application's knowing it.                                           *)
(***************************************************************************)
EXTENDS Naturals, Sequences, FiniteSets

CONSTANTS
    Windows,
    None,
    CanBecomeKey,       \* resizable or titled
    CanBecomeMain,      \* and not an NSPanel
    CanHide,
    Miniaturizable,
    WorksWhenModal,
    MaxModal            \* bound on the nesting of modal sessions

ASSUME WindowsAssumption ==
    /\ IsFiniteSet(Windows)
    /\ None \notin Windows
    /\ CanBecomeKey \subseteq Windows
    /\ CanBecomeMain \subseteq CanBecomeKey
    /\ Miniaturizable \subseteq CanBecomeMain
    /\ CanHide \subseteq Windows /\ WorksWhenModal \subseteq Windows
    /\ MaxModal \in Nat

VARIABLES app, modal

vars == <<app, modal>>

App == [
    visible: SUBSET Windows,            \* NSWindow's _f.visible
    mini: SUBSET Windows,               \* _f.is_miniaturized
    key: SUBSET Windows,                \* _f.is_key
    main: SUBSET Windows,               \* _f.is_main
    hidesOnDeactivate: SUBSET Windows,
    keyWindow: Windows \cup {None},     \* NSApplication's _key_window
    mainWindow: Windows \cup {None},
    active: BOOLEAN,
    hidden: BOOLEAN,
    unhideOnActivation: BOOLEAN,
    hiddenKey: Windows \cup {None},     \* _hidden_key
    hiddenMain: Windows \cup {None},
    hiddenList: SUBSET Windows,         \* _hidden
    inactive: SUBSET Windows,           \* _inactive
    running: BOOLEAN,                   \* _app_is_running
    launch: {"before", "during", "after"}]  \* of -finishLaunching

\* -init: nothing is on screen yet and nobody has activated the application.
Init ==
    /\ app = [visible |-> {}, mini |-> {}, key |-> {}, main |-> {},
              hidesOnDeactivate |-> Windows \ CanBecomeMain,
              keyWindow |-> None, mainWindow |-> None,
              active |-> FALSE, hidden |-> FALSE, unhideOnActivation |-> TRUE,
              hiddenKey |-> None, hiddenMain |-> None,
              hiddenList |-> {}, inactive |-> {},
              running |-> FALSE, launch |-> "before"]
    /\ modal = <<>>

Orders(ws) == {list \in [1..Cardinality(ws) -> ws] :
                 \A w \in ws : \E k \in DOMAIN list : list[k] = w}

\* The first window of the list that is one of the candidates.
First(front, candidates) ==
    LET found == {k \in DOMAIN front : front[k] \in candidates}
    IN  IF found = {} THEN None
        ELSE front[CHOOSE k \in found : \A j \in found : k <= j]

-----------------------------------------------------------------------------
(* NSWindow: key and main.  Each posts a notification that NSApplication,  *)
(* once it is launched, answers by changing its own record.                *)

Observes(s) == s.launch = "after"

\* _windowDidBecomeKey:, _windowDidBecomeMain: keep a record they have.
Recorded(s, named, w) == IF Observes(s) /\ named = None THEN w ELSE named

\* _windowDidResignKey:, _windowDidResignMain:
Forgotten(s, named, w) == IF Observes(s) /\ named = w THEN None ELSE named

resignKeyWindow(s, w) ==
    IF w \in s.key
    THEN [s EXCEPT !.key = @ \ {w}, !.keyWindow = Forgotten(s, @, w)]
    ELSE s

resignMainWindow(s, w) ==
    IF w \in s.main
    THEN [s EXCEPT !.main = @ \ {w}, !.mainWindow = Forgotten(s, @, w)]
    ELSE s

becomeKeyWindow(s, w) ==
    IF w \notin s.key
    THEN [s EXCEPT !.key = @ \cup {w}, !.keyWindow = Recorded(s, @, w)]
    ELSE s

becomeMainWindow(s, w) ==
    IF w \notin s.main
    THEN [s EXCEPT !.main = @ \cup {w}, !.mainWindow = Recorded(s, @, w)]
    ELSE s

OnScreen(s, w) == w \in s.visible /\ w \notin s.mini

MutantMakeKeyWindow(s, w) ==
    IF OnScreen(s, w) /\ w \in CanBecomeKey \ s.key
    THEN becomeKeyWindow(s, w)
    ELSE s

makeKeyWindow(s, w) ==
    IF OnScreen(s, w) /\ w \in CanBecomeKey \ s.key
    THEN becomeKeyWindow(resignKeyWindow(s, s.keyWindow), w)
    ELSE s

makeMainWindow(s, w) ==
    IF OnScreen(s, w) /\ w \in CanBecomeMain \ s.main
    THEN becomeMainWindow(resignMainWindow(s, s.mainWindow), w)
    ELSE s

MutantLossOfKey(s, w, front) ==
    IF w \notin s.key THEN s
    ELSE makeKeyWindow(resignKeyWindow(s, w), s.mainWindow)

\* _lossOfKeyOrMainWindow: the main window, or the first visible window that
\* can, becomes key in the place of w ...
LossOfKey(s, w, front) ==
    LET next == IF s.mainWindow \in CanBecomeKey \ {w} THEN s.mainWindow
                ELSE First(front, (s.visible \cap CanBecomeKey) \ {w})
    IN  IF w \notin s.key THEN s
        ELSE IF next = None THEN resignKeyWindow(s, w)
        ELSE makeKeyWindow(resignKeyWindow(s, w), next)

\* ... and the key window, or the first visible window that can, becomes main.
LossOfMain(s, w, front) ==
    LET next == IF s.keyWindow \in CanBecomeMain \cap s.visible THEN s.keyWindow
                ELSE First(front, (s.visible \cap CanBecomeMain) \ {w})
    IN  IF w \notin s.main THEN s
        ELSE IF next = None THEN resignMainWindow(s, w)
        ELSE makeMainWindow(resignMainWindow(s, w), next)

MutantLoss(s, w, front) == IF s.running THEN LossOfKey(s, w, front) ELSE s

lossOfKeyOrMainWindow(s, w, front) ==
    IF s.running THEN LossOfMain(LossOfKey(s, w, front), w, front) ELSE s

-----------------------------------------------------------------------------
(* NSWindow: on and off the screen.                                        *)

MutantReordered(s, ws) == s.inactive

\* A window that hides on deactivation and is ordered in or out while the
\* application is inactive is no longer one that activation brings back.
Reordered(s, ws) ==
    IF s.active THEN s.inactive ELSE s.inactive \ (ws \cap s.hidesOnDeactivate)

\* -orderFront:, -orderFrontRegardless for each of the windows ws.
OrderIn(s, ws) ==
    [s EXCEPT !.visible = @ \cup ws, !.inactive = Reordered(s, ws)]

\* -orderOut:, -close
OrderOut(s, w, front) ==
    LET lost == lossOfKeyOrMainWindow([s EXCEPT !.visible = @ \ {w}], w, front)
    IN  [lost EXCEPT !.inactive = Reordered(s, {w})]

\* Orders out those of the windows ws in the list, from the back to the front.
OrderOutAll(s, ws, front) ==
    LET n == Len(front)
        out[k \in 0..n] ==
            IF k = 0 THEN s
            ELSE LET w == front[n + 1 - k]
                 IN  IF w \in ws THEN OrderOut(out[k - 1], w, front) ELSE out[k - 1]
    IN  out[n]

\* -miniaturize:
Miniaturize(s, w, front) ==
    LET lost == lossOfKeyOrMainWindow([s EXCEPT !.mini = @ \cup {w}], w, front)
    IN  [lost EXCEPT !.visible = @ \ {w}]

\* -makeKeyAndOrderFront: of a window that is not miniaturized, up to the
\* [NSApp unhide: self] it ends with.
Shown(s, w) ==
    IF w \in CanBecomeKey
    THEN makeMainWindow(makeKeyWindow(OrderIn(s, {w}), w), w)
    ELSE OrderIn(s, {w})

-----------------------------------------------------------------------------
(* NSApplication: activation.                                              *)

MutantReappeared(s) == [s EXCEPT !.active = TRUE, !.inactive = {}]

\* -activateIgnoringOtherApps: starts by ordering in what deactivation had
\* ordered out (the application is already active when it does), ...
Reappeared(s) ==
    [OrderIn([s EXCEPT !.active = TRUE], s.inactive) EXCEPT !.inactive = {}]

\* ... then makes the windows key and main that were so before, ...
KeyRestored(s) ==
    IF s.keyWindow = None /\ s.hiddenKey # None
    THEN [makeKeyWindow(s, s.hiddenKey) EXCEPT !.hiddenKey = None] ELSE s

MainRestored(s) ==
    IF s.mainWindow = None /\ s.hiddenMain # None
    THEN [makeMainWindow(s, s.hiddenMain) EXCEPT !.hiddenMain = None] ELSE s

MutantFocusRestored(s) ==
    LET r == MainRestored(KeyRestored(s))
    IN  OrderIn(r, {r.keyWindow})

\* ... and orders the key window front, or else makes the main window key, which
\* deminiaturizes it.
FocusRestored(s) ==
    LET r == MainRestored(KeyRestored(s))
    IN  CASE r.keyWindow # None -> OrderIn(r, {r.keyWindow})
          [] r.keyWindow = None /\ r.mainWindow # None ->
                 Shown([r EXCEPT !.mini = @ \ {r.mainWindow}], r.mainWindow)
          [] OTHER -> r

\* Activation of an application that is not hidden.
Activated(s) == IF s.active THEN s ELSE FocusRestored(Reappeared(s))

\* -makeKeyAndOrderFront: while the application is not hidden.
ShownActive(s, w) ==
    IF w \in CanBecomeKey THEN Activated(Shown(s, w)) ELSE Shown(s, w)

\* Deminiaturizes the windows of the list, one after the other.
DeminiaturizeAll(s, list) ==
    LET shown[k \in 0..Len(list)] ==
            IF k = 0 THEN s
            ELSE ShownActive([shown[k - 1] EXCEPT !.mini = @ \ {list[k]}], list[k])
    IN  shown[Len(list)]

\* -unhideWithoutActivation: the windows -hide: ordered out come back; if it
\* ordered out none, the miniaturized ones do.
UnhiddenWithoutActivation(s, list) ==
    LET r == [s EXCEPT !.hidden = FALSE]
    IN  IF ~s.hidden THEN s
        ELSE [(IF s.hiddenList = {} THEN DeminiaturizeAll(r, list)
                                    ELSE OrderIn(r, s.hiddenList))
                EXCEPT !.hiddenList = {}]

Unhidden(s, list) ==
    Activated(IF s.hidden
              THEN [UnhiddenWithoutActivation(s, list) EXCEPT !.unhideOnActivation = FALSE]
              ELSE s)

MutantActivate(s, list) == IF s.active THEN s ELSE FocusRestored(Reappeared(s))

activateIgnoringOtherApps(s, list) ==
    LET r == Reappeared(s)
    IN  IF s.active THEN s
        ELSE FocusRestored(IF r.unhideOnActivation THEN Unhidden(r, list) ELSE r)

ShownUnhidden(s, w, list) ==
    IF w \in CanBecomeKey THEN Unhidden(Shown(s, w), list) ELSE Shown(s, w)

deminiaturize(s, w, list) ==
    IF w \in s.mini THEN ShownUnhidden([s EXCEPT !.mini = @ \ {w}], w, list) ELSE s

makeKeyAndOrderFront(s, w, list) == ShownUnhidden(deminiaturize(s, w, list), w, list)

\* -deactivate and -hide: remember the key and the main window and let them
\* resign.
FocusSaved(s) ==
    LET k == IF s.keyWindow = None THEN s.hiddenKey ELSE s.keyWindow
        m == IF s.mainWindow = None THEN s.hiddenMain ELSE s.mainWindow
    IN  [resignMainWindow(resignKeyWindow(s, s.keyWindow), s.mainWindow)
           EXCEPT !.hiddenKey = k, !.hiddenMain = m]

ModalWindows == {modal[k] : k \in DOMAIN modal}

\* The windows -deactivate takes off the screen: those that hide on
\* deactivation, other than those of modal sessions.
MutantLeaving(s) == (s.visible \cap CanHide) \cap s.hidesOnDeactivate
Leaving(s) == ((s.visible \cap CanHide) \ ModalWindows) \cap s.hidesOnDeactivate

Deactivated(s, front) ==
    LET r == [FocusSaved(s) EXCEPT !.active = FALSE]
    IN  IF ~s.active THEN s
        ELSE [OrderOutAll(r, Leaving(s), front) EXCEPT !.inactive = @ \cup Leaving(s)]

\* -hide: orders out every other window, the miniaturized ones included, and
\* deactivates.
Hidden(s, front) ==
    LET gone == ((s.visible \cup s.mini) \cap CanHide)
                  \ (IF s.active THEN s.hidesOnDeactivate ELSE {})
        r == [FocusSaved(s) EXCEPT !.hidden = TRUE]
    IN  [Deactivated([OrderOutAll(r, gone, front) EXCEPT !.hiddenList = gone], front)
           EXCEPT !.unhideOnActivation = TRUE]

-----------------------------------------------------------------------------
(* NSApplication: launch.                                                  *)

\* -finishLaunching: establishes the key and the main window.  The first window
\* of the list that is key is recorded and the others resign; so for main.  If
\* there were others, the recorded windows come front.  If no window is main,
\* the first that could be is recorded, without being made main.
Established(s, list) ==
    LET k == First(list, s.key)
        m == First(list, s.main)
        duplicates == s.key # {k} \ {None} \/ s.main # {m} \ {None}
        r == IF duplicates THEN OrderIn(s, {k, m} \ {None}) ELSE s
    IN  [r EXCEPT !.key = {k} \ {None}, !.main = {m} \ {None}, !.keyWindow = k,
                  !.mainWindow = IF m = None THEN First(list, r.visible \cap CanBecomeMain)
                                 ELSE m,
                  !.launch = "after"]

-----------------------------------------------------------------------------
(* What the application calls.                                             *)

MakeKeyWindow(w) == app' = makeKeyWindow(app, w) /\ UNCHANGED modal
MakeMainWindow(w) == app' = makeMainWindow(app, w) /\ UNCHANGED modal
OrderFront(w) == app' = OrderIn(app, {w}) /\ UNCHANGED modal

\* Orders of the windows that -unhide: may deminiaturize, and of all.
MiniOrders == Orders(app.mini)
Fronts == Orders(Windows)

MakeKeyAndOrderFront(w) ==
    /\ \E list \in MiniOrders : app' = makeKeyAndOrderFront(app, w, list)
    /\ UNCHANGED modal

Deminiaturize(w) ==
    /\ \E list \in MiniOrders : app' = deminiaturize(app, w, list)
    /\ UNCHANGED modal

\* -orderOut:, and -close: which does nothing more to a window on screen.
OrderWindowOut(w) ==
    /\ \E front \in Fronts : app' = OrderOut(app, w, front)
    /\ UNCHANGED modal

MiniaturizeWindow(w) ==
    /\ w \in Miniaturizable /\ OnScreen(app, w)
    /\ \E front \in Fronts : app' = Miniaturize(app, w, front)
    /\ UNCHANGED modal

\* -setHidesOnDeactivate: acts at once if the application is inactive.
SetHidesOnDeactivate(w) ==
    LET on == [app EXCEPT !.hidesOnDeactivate = @ \cup {w}]
        off == [app EXCEPT !.hidesOnDeactivate = @ \ {w}]
    IN  /\ \/ /\ w \notin app.hidesOnDeactivate
              /\ app.active \/ w \notin app.visible
              /\ app' = on
           \/ /\ w \notin app.hidesOnDeactivate
              /\ ~app.active /\ w \in app.visible
              /\ \E front \in Fronts :
                   app' = [OrderOut(on, w, front) EXCEPT !.inactive = @ \cup {w}]
           \/ /\ w \in app.hidesOnDeactivate
              /\ app.active \/ w \notin app.inactive
              /\ app' = off
           \/ /\ w \in app.inactive \cap app.hidesOnDeactivate
              /\ ~app.active
              /\ app' = OrderIn([off EXCEPT !.inactive = @ \ {w}], {w})
        /\ UNCHANGED modal

Activate ==
    /\ \E list \in MiniOrders : app' = activateIgnoringOtherApps(app, list)
    /\ UNCHANGED modal

Deactivate ==
    /\ \E front \in Fronts : app' = Deactivated(app, front)
    /\ UNCHANGED modal

Hide ==
    /\ ~app.hidden
    /\ \E front \in Fronts : app' = Hidden(app, front)
    /\ UNCHANGED modal

Unhide ==
    /\ \E list \in MiniOrders : app' = Unhidden(app, list)
    /\ UNCHANGED modal

UnhideWithoutActivation ==
    /\ \E list \in MiniOrders : app' = UnhiddenWithoutActivation(app, list)
    /\ UNCHANGED modal

\* -run: the first call lets the delegate know that the launch begins ...
Run ==
    /\ ~app.running /\ app.launch # "during"
    /\ app' = [app EXCEPT !.running = TRUE,
                          !.launch = IF @ = "before" THEN "during" ELSE @]
    /\ UNCHANGED modal

\* ... and then launches; an application that was hidden meanwhile stays inactive.
FinishLaunching ==
    /\ app.launch = "during"
    /\ \E list \in Fronts, minis \in MiniOrders :
         LET s == Established(app, list)
         IN  app' = IF s.hidden THEN s ELSE activateIgnoringOtherApps(s, minis)
    /\ UNCHANGED modal

\* -stop: outside a modal session.
Stop ==
    /\ modal = <<>>
    /\ app' = [app EXCEPT !.running = FALSE]
    /\ UNCHANGED modal

\* -beginModalSessionForWindow: makes the window key, if the application is
\* active, and then orders it front.
BeginModalSession(w) ==
    /\ Len(modal) < MaxModal
    /\ app' = OrderIn(IF app.active THEN makeKeyWindow(app, w) ELSE app, {w})
    /\ modal' = Append(modal, w)

\* -endModalSession: the next modal window is ordered front and made key.
EndModalSession(n) ==
    /\ n < Len(modal)
    /\ modal' = SubSeq(modal, 1, n)
    /\ app' = IF n = 0 THEN app
              ELSE LET r == OrderIn(app, {modal[n]})
                   IN  IF app.active THEN makeKeyWindow(r, modal[n]) ELSE r

-----------------------------------------------------------------------------
(* What the user does, through the window manager and the event queue.     *)

\* Events reach the program through -run or a modal loop.
HandlesEvents == app.running \/ modal # <<>>

\* During a modal session events for other windows are ignored.
Reachable(w) == w \in WorksWhenModal \/ \A k \in DOMAIN modal : k = Len(modal) => w = modal[k]

\* GSAppKitWindowFocusIn deminiaturizes the window even if it then ignores it.
FocusIn(w) ==
    /\ HandlesEvents
    /\ \E list \in MiniOrders :
         LET r == deminiaturize(app, w, list)
         IN  app' = IF Reachable(w) /\ w \in CanBecomeKey
                    THEN activateIgnoringOtherApps(makeMainWindow(makeKeyWindow(r, w), w), list)
                    ELSE r
    /\ UNCHANGED modal

\* NSLeftMouseDown in a window on screen.
MouseDown(w) ==
    /\ HandlesEvents
    /\ OnScreen(app, w) /\ Reachable(w)
    /\ \E list \in MiniOrders :
         app' = activateIgnoringOtherApps(
                  IF w \in app.key THEN app ELSE makeKeyAndOrderFront(app, w, list), list)
    /\ UNCHANGED modal

\* GSAppKitWindowDeminiaturize: the window manager already did it, which it
\* cannot do to a window that -hide: or -deactivate ordered out.
DidDeminiaturize(w) ==
    /\ HandlesEvents
    /\ w \in app.mini \ (app.inactive \cup app.hiddenList)
    /\ app' = [app EXCEPT !.mini = @ \ {w}, !.visible = @ \cup {w}]
    /\ UNCHANGED modal

WindowCall(w) ==
    \/ MakeKeyWindow(w) \/ MakeMainWindow(w) \/ MakeKeyAndOrderFront(w)
    \/ OrderFront(w) \/ OrderWindowOut(w)
    \/ MiniaturizeWindow(w) \/ Deminiaturize(w)
    \/ SetHidesOnDeactivate(w)

ApplicationCall ==
    \/ Run \/ FinishLaunching \/ Stop
    \/ Activate \/ Deactivate \/ Hide \/ Unhide \/ UnhideWithoutActivation
    \/ \E w \in Windows : BeginModalSession(w)
    \/ \E n \in 0..MaxModal : EndModalSession(n)

Next ==
    \/ \E w \in Windows : WindowCall(w)
    \/ ApplicationCall
    \/ \E w \in Windows : FocusIn(w) \/ MouseDown(w) \/ DidDeminiaturize(w)

Spec == Init /\ [][Next]_vars

-----------------------------------------------------------------------------
(* Properties.                                                             *)

\* The types of NSApplication's and NSWindow's instance variables.
TypeOK ==
    /\ app \in App
    /\ modal \in Seq(Windows) /\ Len(modal) <= MaxModal

MainAgrees == app.main = {app.mainWindow} \ {None}

\* Once launched, the application and its windows agree on which window is key,
\* and there is at most one, whatever path of calls made it so.  They need not
\* agree on the main window, since the launch may record one that never became
\* main; but once they do, no path of calls makes them differ again.
FocusAgrees ==
    /\ [](Observes(app) => app.key = {app.keyWindow} \ {None})
    /\ [][Observes(app) /\ MainAgrees => MainAgrees']_vars

OffScreen(s, ws) == {w \in ws : ~OnScreen(s, w)}

\* While the application runs no window is left key or main off the screen:
\* ordering out, miniaturizing, hiding and deactivating all take the focus away,
\* also when they take several windows away.  Only windows that were key or main
\* off the screen before -run or after -stop: are so.
FocusOnScreen ==
    [][app.running => /\ OffScreen(app', app'.key) \subseteq OffScreen(app, app.key)
                      /\ OffScreen(app', app'.main) \subseteq OffScreen(app, app.main)]_vars

\* _inactive lists exactly windows that activation has to bring back: off the
\* screen, hiding on deactivation, and none while the application is active;
\* in particular none that was explicitly ordered in or out since.
InactiveListHonest ==
    /\ app.inactive \subseteq app.hidesOnDeactivate \ app.visible
    /\ app.active => app.inactive = {}

\* A hidden application is inactive until it is unhidden, and the next
\* activation will unhide it.
HiddenIsInactive == app.hidden => ~app.active /\ app.unhideOnActivation

\* Activation brings back every window that deactivation ordered out and
\* unhiding every window that -hide: did.
WindowsComeBack ==
    [][/\ ~app.active /\ app'.active => app.inactive \subseteq app'.visible
       /\ app.hidden /\ ~app'.hidden => app.hiddenList \subseteq app'.visible]_vars

\* Deactivation does not take the window of a modal session off the screen.
ModalWindowsStay ==
    [][app.active /\ ~app'.active /\ ~app'.hidden
         => ModalWindows \cap app.visible \subseteq app'.visible]_vars

\* A window that loses the key status while the application stays active hands
\* it on if another window on screen can take it (_lossOfKeyOrMainWindow).
\* Not so if the window it chooses then refuses: a miniaturized one that counts
\* as visible, which -unhide: leaves behind, or a main window off the screen.
KeyHandedOn ==
    [][app.key # {} /\ app'.key = {} /\ app.active /\ app'.active
         /\ app.visible \cap app.mini = {}
         /\ (app.mainWindow = None \/ OnScreen(app, app.mainWindow))
         => (app.visible \cap CanBecomeKey) \subseteq app.key]_vars

\* "Set up modal session for theWindow, and, if it is not visible already, puts
\* it up on screen, ... It is then ordered front and made key or main window."
BeginMakesKey ==
    [][\A w \in CanBecomeKey : BeginModalSession(w) /\ app.active /\ w \notin app.mini
         => w \in app'.key]_vars
=============================================================================
