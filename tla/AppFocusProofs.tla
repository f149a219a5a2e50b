--------------------------- MODULE AppFocusProofs ---------------------------
(***************************************************************************)
(* Proofs about AppFocus, for any windows: once launched the application   *)
(* and its windows agree on the key window, and on the main window from    *)
(* the first time they do; a running application leaves no window key or   *)
(* main off the screen; what hiding and deactivation take away comes back, *)
(* but no more; and the key status is handed on.                           *)
(***************************************************************************)
EXTENDS AppFocus, FiniteSetTheorems, WellFoundedInduction, TLAPS

\* Once launched, the application's record names the window that is key ...
Good(s) == s \in App /\ (Observes(s) => s.key = {s.keyWindow} \ {None})

\* ... and possibly the window that is main.
MainNamed(s) == s.main = {s.mainWindow} \ {None}

\* From s to r the main window stays named, and no further window is key or main
\* off the screen.
Agreed(r, s) ==
    /\ Observes(s) /\ MainNamed(s) => MainNamed(r)
    /\ s.running => /\ OffScreen(r, r.key) \subseteq OffScreen(s, s.key)
                    /\ OffScreen(r, r.main) \subseteq OffScreen(s, s.main)

\* What every method keeps.
Steady(r, s) == Agreed(r, s) /\ r.running = s.running /\ (Observes(s) => Observes(r))

LEMMA SteadyTransitive ==
    ASSUME NEW s, NEW q, NEW r, Steady(q, s), Steady(r, q) PROVE Steady(r, s)
BY DEF Steady, Agreed

LEMMA SteadyReflexive == ASSUME NEW s PROVE Steady(s, s)
BY DEF Steady, Agreed

-----------------------------------------------------------------------------
(* Finite sequences.                                                       *)

LEMMA LeastExists ==
    ASSUME NEW S \in SUBSET Nat, S # {}
    PROVE  \E k \in S : \A j \in S : k <= j
<1> DEFINE R == OpToRel(<, Nat)
<1>1. IsWellFoundedOn(R, Nat)
  BY NatLessThanWellFounded, Zenon
<1>2. \A x, y \in Nat : (<<y, x>> \in R) <=> y < x
  BY Zenon DEF OpToRel
<1> HIDE DEF R
<1>3. PICK x \in S : \A y \in S : <<y, x>> \notin R
  BY <1>1, WFMin, Zenon
<1>4. \A y \in S : ~ (y < x)
  BY <1>2, <1>3, Zenon
<1> QED BY <1>4

\* Induction up to n over a set of numbers.
LEMMA UpTo ==
    ASSUME NEW n \in Nat, NEW P \in SUBSET (0..n), 0 \in P,
           \A k \in 1..n : k - 1 \in P => k \in P
    PROVE  n \in P
<1> DEFINE rest == (0..n) \ P
<1>1. CASE rest # {}
  <2>1. PICK k \in rest : \A j \in rest : k <= j
    <3>1. rest \in SUBSET Nat
      OBVIOUS
    <3> HIDE DEF rest
    <3> QED BY <1>1, <3>1, LeastExists
  <2>2. k \in 1..n /\ k - 1 \in 0..n
    BY <2>1
  <2>3. k - 1 \notin rest
    BY <2>1, <2>2
  <2> QED BY <2>1, <2>2, <2>3
<1>2. CASE rest = {}
  BY <1>2
<1> QED BY <1>1, <1>2

\* Applying n steps, one after the other.
Steps(step, n, S) == step \in [1..n -> [S -> S]]

IsRun(f, start, step, n, S) ==
    f \in [0..n -> S] /\ f[0] = start /\ \A k \in 1..n : f[k] = step[k][f[k - 1]]

LEMMA Iteration ==
    ASSUME NEW S, NEW n \in Nat, NEW start \in S, NEW step, Steps(step, n, S)
    PROVE  \E f : IsRun(f, start, step, n, S)
<1> DEFINE Runs(f, k) == f[0] = start /\ \A j \in 1..k : f[j] = step[j][f[j - 1]]
           P == {k \in 0..n : \E f \in [0..k -> S] : Runs(f, k)}
<1> USE DEF Steps
<1>1. 0 \in P
  <2> DEFINE f == [j \in 0..0 |-> start]
  <2>1. f \in [0..0 -> S] /\ Runs(f, 0)
    OBVIOUS
  <2> HIDE DEF f, Runs
  <2> QED BY <2>1
<1>2. ASSUME NEW k \in 1..n, k - 1 \in P PROVE k \in P
  <2>1. PICK f \in [0..(k - 1) -> S] : Runs(f, k - 1)
    BY <1>2
  <2> DEFINE x == step[k][f[k - 1]]
             g == [j \in 0..k |-> IF j = k THEN x ELSE f[j]]
  <2>2. x \in S
    BY <2>1
  <2>3. g \in [0..k -> S]
    <3>1. \A j \in 0..k : j # k => f[j] \in S
      BY <2>1
    <3> QED BY <2>2, <3>1
  <2>4. Runs(g, k)
    <3>1. g[0] = start /\ g[k] = x /\ g[k - 1] = f[k - 1]
      BY <2>1
    <3>2. \A j \in 1..(k - 1) : g[j] = f[j] /\ g[j - 1] = f[j - 1]
      OBVIOUS
    <3> HIDE DEF g
    <3>3. ASSUME NEW j \in 1..k PROVE g[j] = step[j][g[j - 1]]
      <4>1. CASE j = k
        BY <3>1, <4>1
      <4>2. CASE j # k
        BY <2>1, <3>2, <4>2
      <4> QED BY <4>1, <4>2
    <3> QED BY <3>1, <3>3
  <2> HIDE DEF g, Runs
  <2>5. k \in 0..n
    OBVIOUS
  <2> QED BY <2>3, <2>4, <2>5
<1> HIDE DEF Runs
<1>3. P \in SUBSET (0..n)
  OBVIOUS
<1> HIDE DEF P
<1>4. n \in P
  BY <1>1, <1>2, <1>3, UpTo
<1> QED BY <1>4 DEF P, Runs, IsRun

\* An order of some of the windows is a sequence of them.
LEMMA OrderIsSequence ==
    ASSUME NEW ws \in SUBSET Windows, NEW list \in Orders(ws)
    PROVE  /\ Len(list) \in Nat /\ list \in [1..Len(list) -> Windows]
           /\ \A w \in ws : \E k \in 1..Len(list) : list[k] = w
<1>1. Cardinality(ws) \in Nat
  BY WindowsAssumption, FS_Subset, FS_CardinalityType
<1> DEFINE n == Cardinality(ws)
<1>2. list \in [1..n -> ws] /\ \A w \in ws : \E k \in 1..n : list[k] = w
  BY DEF Orders
<1> HIDE DEF n
<1>3. n \in Nat
  BY <1>1 DEF n
<1>4. list \in Seq(ws) /\ Len(list) = n
  BY <1>2, <1>3
<1> QED BY <1>2, <1>3, <1>4

LEMMA FirstIsCandidate ==
    ASSUME NEW front \in Fronts, NEW candidates \in SUBSET Windows
    PROVE  /\ First(front, candidates) \in candidates \cup {None}
           /\ candidates # {} => First(front, candidates) \in candidates
<1> DEFINE found == {k \in DOMAIN front : front[k] \in candidates}
<1>1. /\ Len(front) \in Nat /\ front \in [1..Len(front) -> Windows]
      /\ \A w \in Windows : \E k \in 1..Len(front) : front[k] = w
  BY OrderIsSequence DEF Fronts
<1>2. found \in SUBSET Nat /\ (candidates # {} => found # {})
  BY <1>1
<1>3. CASE found = {}
  BY <1>2, <1>3 DEF First
<1>4. CASE found # {}
  <2>1. (CHOOSE k \in found : \A j \in found : k <= j) \in found
    BY <1>2, <1>4, LeastExists
  <2> QED BY <1>4, <2>1 DEF First
<1> QED BY <1>3, <1>4

-----------------------------------------------------------------------------
(* Key and main.                                                           *)

\* A method that only moves the focus leaves the rest of the state alone.
FocusMoved(r, s) ==
    /\ r.visible = s.visible /\ r.mini = s.mini
    /\ r.hidesOnDeactivate = s.hidesOnDeactivate
    /\ r.active = s.active /\ r.hidden = s.hidden
    /\ r.unhideOnActivation = s.unhideOnActivation
    /\ r.hiddenList = s.hiddenList /\ r.inactive = s.inactive
    /\ r.running = s.running /\ r.launch = s.launch

MainSame(r, s) == r.main = s.main /\ r.mainWindow = s.mainWindow
KeySame(r, s) == r.key = s.key /\ r.keyWindow = s.keyWindow

LEMMA FocusMovedTransitive ==
    ASSUME NEW s, NEW q, NEW r, FocusMoved(q, s), FocusMoved(r, q) PROVE FocusMoved(r, s)
BY DEF FocusMoved

LEMMA NamedWindow ==
    ASSUME NEW s, NEW n \in Windows \cup {None}, NEW v \in Windows \cup {None}
    PROVE  /\ Recorded(s, n, v) \in Windows \cup {None}
           /\ Observes(s) => Recorded(s, None, v) = v
           /\ Forgotten(s, n, v) \in Windows \cup {None}
           /\ Observes(s) => Forgotten(s, v, v) = None
           /\ n # v => Forgotten(s, n, v) = n
BY DEF Recorded, Forgotten

LEMMA ResignKey ==
    ASSUME NEW s, NEW v \in Windows \cup {None}, Good(s)
    PROVE  LET r == resignKeyWindow(s, v)
           IN  Good(r) /\ FocusMoved(r, s) /\ MainSame(r, s) /\ r.key = s.key \ {v}
<1> DEFINE r == resignKeyWindow(s, v)
           n == Forgotten(s, s.keyWindow, v)
<1>1. n \in Windows \cup {None} /\ (s.keyWindow # v => n = s.keyWindow)
  BY NamedWindow DEF Good, App
<1>2. Observes(s) /\ v \in s.key => n = None /\ s.key = {v}
  BY NamedWindow DEF Good
<1> HIDE DEF n
<1>3. CASE v \in s.key
  <2>1. r = [s EXCEPT !.key = s.key \ {v}, !.keyWindow = n]
    BY <1>3 DEF resignKeyWindow, n
  <2> HIDE DEF r
  <2>2. r \in App /\ r.key = s.key \ {v} /\ r.keyWindow = n
    BY <1>1, <2>1 DEF Good, App
  <2>3. FocusMoved(r, s) /\ MainSame(r, s)
    BY <2>1 DEF Good, App, FocusMoved, MainSame
  <2>4. Good(r)
    BY <1>2, <1>3, <2>2, <2>3 DEF Good, FocusMoved, Observes
  <2> QED BY <2>2, <2>3, <2>4 DEF r
<1>4. CASE v \notin s.key
  BY <1>4 DEF resignKeyWindow, FocusMoved, MainSame
<1> QED BY <1>3, <1>4

LEMMA ResignMain ==
    ASSUME NEW s, NEW v \in Windows \cup {None}, Good(s)
    PROVE  LET r == resignMainWindow(s, v)
           IN  /\ Good(r) /\ FocusMoved(r, s) /\ KeySame(r, s) /\ r.main = s.main \ {v}
               /\ Observes(s) /\ MainNamed(s) => MainNamed(r)
<1> DEFINE r == resignMainWindow(s, v)
           n == Forgotten(s, s.mainWindow, v)
<1>1. n \in Windows \cup {None}
  BY NamedWindow DEF Good, App
<1>2. Observes(s) /\ MainNamed(s) /\ v \in s.main => n = None /\ s.main = {v}
  BY NamedWindow DEF MainNamed
<1> HIDE DEF n
<1>3. CASE v \in s.main
  <2>1. r = [s EXCEPT !.main = s.main \ {v}, !.mainWindow = n]
    BY <1>3 DEF resignMainWindow, n
  <2> HIDE DEF r
  <2>2. r \in App /\ r.main = s.main \ {v} /\ r.mainWindow = n
    BY <1>1, <2>1 DEF Good, App
  <2>3. FocusMoved(r, s) /\ KeySame(r, s)
    BY <2>1 DEF Good, App, FocusMoved, KeySame
  <2>4. Good(r)
    BY <2>2, <2>3 DEF Good, FocusMoved, KeySame, Observes
  <2>5. Observes(s) /\ MainNamed(s) => MainNamed(r)
    BY <1>2, <1>3, <2>2 DEF MainNamed
  <2> QED BY <2>2, <2>3, <2>4, <2>5 DEF r
<1>4. CASE v \notin s.main
  BY <1>4 DEF resignMainWindow, FocusMoved, KeySame
<1> QED BY <1>3, <1>4

LEMMA MakeKey ==
    ASSUME NEW s, NEW v \in Windows \cup {None}, Good(s)
    PROVE  LET r == makeKeyWindow(s, v)
           IN  /\ Good(r) /\ FocusMoved(r, s) /\ MainSame(r, s)
               /\ \A u \in r.key \ s.key : u = v /\ OnScreen(s, v)
               /\ s.key # {} => r.key # {}
               /\ OnScreen(s, v) /\ v \in CanBecomeKey => v \in r.key
<1>1. CASE OnScreen(s, v) /\ v \in CanBecomeKey \ s.key
  <2> DEFINE q == resignKeyWindow(s, s.keyWindow)
             r == becomeKeyWindow(q, v)
             n == Recorded(q, q.keyWindow, v)
  <2>1. s.keyWindow \in Windows \cup {None} /\ v \in Windows
    BY <1>1, WindowsAssumption DEF Good, App
  <2>2. Good(q) /\ FocusMoved(q, s) /\ MainSame(q, s) /\ q.key = s.key \ {s.keyWindow}
    BY <2>1, ResignKey
  <2> HIDE DEF q
  <2>3. n \in Windows \cup {None} /\ v \notin q.key
    BY <1>1, <2>1, <2>2, NamedWindow DEF Good, App
  <2>4. Observes(q) => q.key = {} /\ n = v
    <3>1. Observes(q) => q.key = {}
      BY <2>2 DEF Good, Observes, FocusMoved
    <3>2. Observes(q) => q.keyWindow = None
      BY <2>2, <3>1, WindowsAssumption DEF Good, App
    <3> QED BY <2>1, <3>1, <3>2, NamedWindow
  <2> HIDE DEF n
  <2>5. r = [q EXCEPT !.key = q.key \cup {v}, !.keyWindow = n]
    BY <2>3 DEF becomeKeyWindow, n
  <2> HIDE DEF r
  <2>6. r \in App /\ r.key = q.key \cup {v} /\ r.keyWindow = n
    BY <2>1, <2>2, <2>3, <2>5 DEF Good, App
  <2>7. FocusMoved(r, q) /\ MainSame(r, q)
    BY <2>2, <2>5 DEF Good, App, FocusMoved, MainSame
  <2>8. Good(r)
    BY <2>1, <2>4, <2>6, <2>7, WindowsAssumption DEF Good, Observes, FocusMoved
  <2>9. FocusMoved(r, s) /\ MainSame(r, s)
    BY <2>2, <2>7, FocusMovedTransitive DEF MainSame
  <2>10. makeKeyWindow(s, v) = r
    BY <1>1 DEF makeKeyWindow, q, r
  <2> QED BY <1>1, <2>2, <2>6, <2>8, <2>9, <2>10
<1>2. CASE ~ (OnScreen(s, v) /\ v \in CanBecomeKey \ s.key)
  BY <1>2 DEF makeKeyWindow, FocusMoved, MainSame
<1> QED BY <1>1, <1>2

LEMMA MakeMain ==
    ASSUME NEW s, NEW v \in Windows \cup {None}, Good(s)
    PROVE  LET r == makeMainWindow(s, v)
           IN  /\ Good(r) /\ FocusMoved(r, s) /\ KeySame(r, s)
               /\ \A u \in r.main \ s.main : u = v /\ OnScreen(s, v)
               /\ Observes(s) /\ MainNamed(s) => MainNamed(r)
<1>1. CASE OnScreen(s, v) /\ v \in CanBecomeMain \ s.main
  <2> DEFINE q == resignMainWindow(s, s.mainWindow)
             r == becomeMainWindow(q, v)
             n == Recorded(q, q.mainWindow, v)
  <2>1. s.mainWindow \in Windows \cup {None} /\ v \in Windows
    BY <1>1, WindowsAssumption DEF Good, App
  <2>2. /\ Good(q) /\ FocusMoved(q, s) /\ KeySame(q, s) /\ q.main = s.main \ {s.mainWindow}
        /\ Observes(s) /\ MainNamed(s) => MainNamed(q)
    BY <2>1, ResignMain
  <2> HIDE DEF q
  <2>3. n \in Windows \cup {None} /\ v \notin q.main
    BY <1>1, <2>1, <2>2, NamedWindow DEF Good, App
  <2>4. Observes(s) /\ MainNamed(s) => q.main = {} /\ n = v
    <3>1. Observes(s) /\ MainNamed(s) => q.main = {}
      BY <2>2 DEF MainNamed
    <3>2. Observes(s) /\ MainNamed(s) => q.mainWindow = None
      BY <2>2, <3>1, WindowsAssumption DEF MainNamed, Good, App
    <3>3. Observes(s) => Observes(q)
      BY <2>2 DEF Observes, FocusMoved
    <3> QED BY <2>1, <3>1, <3>2, <3>3, NamedWindow
  <2> HIDE DEF n
  <2>5. r = [q EXCEPT !.main = q.main \cup {v}, !.mainWindow = n]
    BY <2>3 DEF becomeMainWindow, n
  <2> HIDE DEF r
  <2>6. r \in App /\ r.main = q.main \cup {v} /\ r.mainWindow = n
    BY <2>1, <2>2, <2>3, <2>5 DEF Good, App
  <2>7. FocusMoved(r, q) /\ KeySame(r, q)
    BY <2>2, <2>5 DEF Good, App, FocusMoved, KeySame
  <2>8. Good(r)
    BY <2>2, <2>6, <2>7 DEF Good, Observes, FocusMoved, KeySame
  <2>9. FocusMoved(r, s) /\ KeySame(r, s)
    BY <2>2, <2>7, FocusMovedTransitive DEF KeySame
  <2>10. Observes(s) /\ MainNamed(s) => MainNamed(r)
    BY <2>1, <2>4, <2>6, WindowsAssumption DEF MainNamed
  <2>11. makeMainWindow(s, v) = r
    BY <1>1 DEF makeMainWindow, q, r
  <2> QED BY <1>1, <2>2, <2>6, <2>8, <2>9, <2>10, <2>11
<1>2. CASE ~ (OnScreen(s, v) /\ v \in CanBecomeMain \ s.main)
  BY <1>2 DEF makeMainWindow, FocusMoved, KeySame
<1> QED BY <1>1, <1>2

\* So each of them keeps what every method keeps.
LEMMA KeyMoveSteady ==
    ASSUME NEW s, NEW r, FocusMoved(r, s), MainSame(r, s),
           \A u \in r.key \ s.key : OnScreen(s, u)
    PROVE  Steady(r, s)
<1>1. \A u : OnScreen(r, u) <=> OnScreen(s, u)
  BY DEF OnScreen, FocusMoved
<1>2. OffScreen(r, r.key) \subseteq OffScreen(s, s.key)
  BY <1>1 DEF OffScreen
<1>3. OffScreen(r, r.main) \subseteq OffScreen(s, s.main)
  BY <1>1 DEF OffScreen, MainSame
<1> QED BY <1>2, <1>3 DEF Steady, Agreed, MainNamed, Observes, FocusMoved, MainSame

LEMMA MainMoveSteady ==
    ASSUME NEW s, NEW r, FocusMoved(r, s), KeySame(r, s),
           \A u \in r.main \ s.main : OnScreen(s, u),
           Observes(s) /\ MainNamed(s) => MainNamed(r)
    PROVE  Steady(r, s)
<1>1. \A u : OnScreen(r, u) <=> OnScreen(s, u)
  BY DEF OnScreen, FocusMoved
<1>2. OffScreen(r, r.main) \subseteq OffScreen(s, s.main)
  BY <1>1 DEF OffScreen
<1>3. OffScreen(r, r.key) \subseteq OffScreen(s, s.key)
  BY <1>1 DEF OffScreen, KeySame
<1> QED BY <1>2, <1>3 DEF Steady, Agreed, Observes, FocusMoved

LEMMA MakeKeySteady ==
    ASSUME NEW s, NEW v \in Windows \cup {None}, Good(s)
    PROVE  Good(makeKeyWindow(s, v)) /\ Steady(makeKeyWindow(s, v), s)
<1> DEFINE r == makeKeyWindow(s, v)
<1>1. /\ Good(r) /\ FocusMoved(r, s) /\ MainSame(r, s)
      /\ \A u \in r.key \ s.key : u = v /\ OnScreen(s, v)
  BY MakeKey
<1> HIDE DEF r
<1>2. Steady(r, s)
  BY <1>1, KeyMoveSteady
<1> QED BY <1>1, <1>2 DEF r

LEMMA MakeMainSteady ==
    ASSUME NEW s, NEW v \in Windows \cup {None}, Good(s)
    PROVE  Good(makeMainWindow(s, v)) /\ Steady(makeMainWindow(s, v), s)
<1> DEFINE r == makeMainWindow(s, v)
<1>1. /\ Good(r) /\ FocusMoved(r, s) /\ KeySame(r, s)
      /\ \A u \in r.main \ s.main : u = v /\ OnScreen(s, v)
      /\ Observes(s) /\ MainNamed(s) => MainNamed(r)
  BY MakeMain
<1> HIDE DEF r
<1>2. Steady(r, s)
  BY <1>1, MainMoveSteady
<1> QED BY <1>1, <1>2 DEF r

-----------------------------------------------------------------------------
(* A window that goes away hands the focus on.                             *)

\* The focus is handed on whenever another window on screen can take it.
HandsOn(r, s, w) ==
    s.key # {} /\ r.key = {} /\ (s.visible \cap s.mini) \subseteq {w}
      /\ (s.mainWindow \in {None, w} \/ OnScreen(s, s.mainWindow))
      => s.key = {w} /\ s.visible \cap CanBecomeKey \subseteq {w}

LEMMA LoseKey ==
    ASSUME NEW s, NEW w \in Windows, NEW front \in Fronts, Good(s), ~OnScreen(s, w)
    PROVE  LET r == LossOfKey(s, w, front)
           IN  /\ Good(r) /\ FocusMoved(r, s) /\ MainSame(r, s) /\ w \notin r.key
               /\ \A u \in r.key \ s.key : OnScreen(s, u)
               /\ HandsOn(r, s, w)
<1> DEFINE candidates == (s.visible \cap CanBecomeKey) \ {w}
           next == IF s.mainWindow \in CanBecomeKey \ {w} THEN s.mainWindow
                   ELSE First(front, candidates)
           q == resignKeyWindow(s, w)
           r == makeKeyWindow(q, next)
           l == LossOfKey(s, w, front)
<1>1. candidates \in SUBSET Windows /\ None \notin candidates /\ None \notin CanBecomeKey
  BY WindowsAssumption
<1>2. /\ next \in Windows \cup {None} /\ next # w /\ (next # None => next \in CanBecomeKey)
      /\ candidates # {} /\ s.mainWindow \notin CanBecomeKey \ {w} => next \in candidates
  BY <1>1, FirstIsCandidate, WindowsAssumption DEF Good, App
<1>3. next = None => candidates = {}
  BY <1>1, <1>2
<1>4. s.mainWindow \in CanBecomeKey \ {w} => next = s.mainWindow
  OBVIOUS
<1>5. Good(q) /\ FocusMoved(q, s) /\ MainSame(q, s) /\ q.key = s.key \ {w}
  BY ResignKey
<1>6. l = IF w \notin s.key THEN s ELSE IF next = None THEN q ELSE r
  BY DEF LossOfKey
<1> HIDE DEF next, q, l
<1>7. /\ Good(r) /\ FocusMoved(r, q) /\ MainSame(r, q)
      /\ \A u \in r.key \ q.key : u = next /\ OnScreen(q, next)
      /\ OnScreen(q, next) /\ next \in CanBecomeKey => next \in r.key
  BY <1>2, <1>5, MakeKey
<1> HIDE DEF r
<1>8. \A u : OnScreen(q, u) <=> OnScreen(s, u)
  BY <1>5 DEF OnScreen, FocusMoved
<1>9. FocusMoved(r, s) /\ MainSame(r, s)
  BY <1>5, <1>7, FocusMovedTransitive DEF MainSame
<1>10. CASE w \notin s.key
  BY <1>6, <1>10 DEF FocusMoved, MainSame, HandsOn, l
<1>11. CASE w \in s.key /\ next = None
  <2>1. l = q
    BY <1>6, <1>11
  <2>2. HandsOn(q, s, w)
    BY <1>3, <1>5, <1>11 DEF HandsOn
  <2> QED BY <1>5, <2>1, <2>2 DEF l
<1>12. CASE w \in s.key /\ next # None
  <2>1. l = r
    BY <1>6, <1>12
  <2>2. w \notin r.key /\ \A u \in r.key \ s.key : OnScreen(s, u)
    BY <1>2, <1>5, <1>7, <1>8
  <2>3. HandsOn(r, s, w)
    <3> SUFFICES ASSUME r.key = {}, (s.visible \cap s.mini) \subseteq {w},
                        s.mainWindow \in {None, w} \/ OnScreen(s, s.mainWindow)
                 PROVE  FALSE
      BY DEF HandsOn
    <3>1. CASE s.mainWindow \in CanBecomeKey \ {w}
      <4>1. next = s.mainWindow /\ OnScreen(s, s.mainWindow)
        BY <1>1, <1>4, <3>1
      <4> QED BY <1>2, <1>7, <1>8, <1>12, <4>1
    <3>2. CASE s.mainWindow \notin CanBecomeKey \ {w}
      <4>1. next \in candidates
        BY <1>1, <1>2, <1>12, <3>2, FirstIsCandidate DEF next
      <4>2. OnScreen(s, next)
        BY <4>1 DEF OnScreen
      <4> QED BY <1>2, <1>7, <1>8, <1>12, <4>2
    <3> QED BY <3>1, <3>2
  <2> QED BY <1>7, <1>9, <2>1, <2>2, <2>3 DEF l
<1> QED BY <1>10, <1>11, <1>12 DEF l

LEMMA LoseMain ==
    ASSUME NEW s, NEW w \in Windows, NEW front \in Fronts, Good(s), ~OnScreen(s, w)
    PROVE  LET r == LossOfMain(s, w, front)
           IN  /\ Good(r) /\ FocusMoved(r, s) /\ KeySame(r, s) /\ w \notin r.main
               /\ \A u \in r.main \ s.main : OnScreen(s, u)
               /\ Observes(s) /\ MainNamed(s) => MainNamed(r)
<1> DEFINE candidates == (s.visible \cap CanBecomeMain) \ {w}
           next == IF s.keyWindow \in CanBecomeMain \cap s.visible THEN s.keyWindow
                   ELSE First(front, candidates)
           q == resignMainWindow(s, w)
           r == makeMainWindow(q, next)
           l == LossOfMain(s, w, front)
<1>1. candidates \in SUBSET Windows
  BY WindowsAssumption
<1>2. next \in Windows \cup {None}
  BY <1>1, FirstIsCandidate, WindowsAssumption DEF Good, App
<1>3. /\ Good(q) /\ FocusMoved(q, s) /\ KeySame(q, s) /\ q.main = s.main \ {w}
      /\ Observes(s) /\ MainNamed(s) => MainNamed(q)
  BY ResignMain
<1>4. (l = s /\ w \notin s.main) \/ l = q \/ l = r
  BY DEF LossOfMain
<1> HIDE DEF next, q, l
<1>5. /\ Good(r) /\ FocusMoved(r, q) /\ KeySame(r, q)
      /\ \A u \in r.main \ q.main : u = next /\ OnScreen(q, next)
      /\ Observes(q) /\ MainNamed(q) => MainNamed(r)
  BY <1>2, <1>3, MakeMain
<1> HIDE DEF r
<1>6. \A u : OnScreen(q, u) <=> OnScreen(s, u)
  BY <1>3 DEF OnScreen, FocusMoved
<1>7. FocusMoved(r, s) /\ KeySame(r, s) /\ (Observes(s) => Observes(q))
  BY <1>3, <1>5, FocusMovedTransitive DEF KeySame, Observes, FocusMoved
<1>8. w \notin r.main /\ \A u \in r.main \ s.main : OnScreen(s, u)
  BY <1>3, <1>5, <1>6
<1>9. CASE l = s /\ w \notin s.main
  BY <1>9 DEF FocusMoved, KeySame, l
<1>10. CASE l = q
  BY <1>3, <1>10 DEF l
<1>11. CASE l = r
  BY <1>3, <1>5, <1>7, <1>8, <1>11 DEF l
<1> QED BY <1>4, <1>9, <1>10, <1>11

LEMMA LoseBoth ==
    ASSUME NEW s, NEW w \in Windows, NEW front \in Fronts, Good(s), ~OnScreen(s, w)
    PROVE  LET r == lossOfKeyOrMainWindow(s, w, front)
           IN  /\ Good(r) /\ FocusMoved(r, s) /\ Steady(r, s)
               /\ s.running => w \notin r.key \cup r.main
               /\ HandsOn(r, s, w)
<1> DEFINE k == LossOfKey(s, w, front)
           r == LossOfMain(k, w, front)
<1>1. /\ Good(k) /\ FocusMoved(k, s) /\ MainSame(k, s) /\ w \notin k.key
      /\ \A u \in k.key \ s.key : OnScreen(s, u)
      /\ HandsOn(k, s, w)
  BY LoseKey
<1> HIDE DEF k
<1>2. Steady(k, s) /\ ~OnScreen(k, w)
  BY <1>1, KeyMoveSteady DEF OnScreen, FocusMoved
<1>3. /\ Good(r) /\ FocusMoved(r, k) /\ KeySame(r, k) /\ w \notin r.main
      /\ \A u \in r.main \ k.main : OnScreen(k, u)
      /\ Observes(k) /\ MainNamed(k) => MainNamed(r)
  BY <1>1, <1>2, LoseMain
<1> HIDE DEF r
<1>4. Steady(r, s)
  BY <1>2, <1>3, MainMoveSteady, SteadyTransitive
<1>5. FocusMoved(r, s)
  BY <1>1, <1>3, FocusMovedTransitive
<1>6. w \notin r.key \cup r.main /\ HandsOn(r, s, w)
  BY <1>1, <1>3 DEF KeySame, HandsOn
<1>7. CASE s.running
  BY <1>3, <1>4, <1>5, <1>6, <1>7 DEF lossOfKeyOrMainWindow, k, r
<1>8. CASE ~s.running
  BY <1>8, SteadyReflexive DEF lossOfKeyOrMainWindow, FocusMoved, HandsOn
<1> QED BY <1>7, <1>8

-----------------------------------------------------------------------------
(* What is hidden and what deactivation ordered out.                       *)

\* The list of windows that activation brings back is true.
Tidy(s) ==
    /\ s.inactive \subseteq s.hidesOnDeactivate \ s.visible
    /\ s.active => s.inactive = {}

\* A hidden application waits to be unhidden.
Waiting(s) == s.hidden => ~s.active /\ s.unhideOnActivation

\* A method that brings windows back loses none, and keeps a focus.
Rises(r, s) ==
    /\ s.visible \subseteq r.visible
    /\ s.inactive \subseteq r.visible \cup r.inactive
    /\ s.active => r.active
    /\ r.hidden => s.hidden /\ r.hiddenList = s.hiddenList
    /\ s.hidden /\ ~r.hidden => s.hiddenList \subseteq r.visible
    /\ s.key # {} => r.key # {}

\* A method that takes windows away neither activates nor unhides the
\* application, spares modal windows when it deactivates it, and hands on the
\* key status when it does not.
Falls(r, s) ==
    /\ r.active => s.active
    /\ s.hidden => r.hidden
    /\ s.active /\ ~r.active /\ ~r.hidden => ModalWindows \cap s.visible \subseteq r.visible
    /\ s.key # {} /\ r.key = {} /\ r.active /\ s.visible \cap s.mini = {}
         /\ (s.mainWindow = None \/ OnScreen(s, s.mainWindow))
         => s.visible \cap CanBecomeKey \subseteq s.key

SameMode(r, s) ==
    r.active = s.active /\ r.hidden = s.hidden /\ r.unhideOnActivation = s.unhideOnActivation

\* The state is sound, and what every method keeps is kept.
Sound(r, s) == Good(r) /\ Tidy(r) /\ Steady(r, s)

\* The same, of a method that brings windows back.
Restores(r, s) == Sound(r, s) /\ Rises(r, s)

LEMMA RestoresTransitive ==
    ASSUME NEW s, NEW q, NEW r, Restores(q, s), Restores(r, q) PROVE Restores(r, s)
<1>1. Steady(r, s)
  BY SteadyTransitive DEF Restores, Sound
<1>2. Rises(r, s)
  BY DEF Restores, Rises
<1> QED BY <1>1, <1>2 DEF Restores, Sound

LEMMA RestoresReflexive ==
    ASSUME NEW s, Good(s), Tidy(s) PROVE Restores(s, s)
BY SteadyReflexive DEF Restores, Sound, Rises

LEMMA SameModeWaits ==
    ASSUME NEW s, NEW r, Waiting(s), SameMode(r, s) PROVE Waiting(r)
BY DEF Waiting, SameMode

LEMMA FocusMovedRestores ==
    ASSUME NEW s, NEW r, Tidy(s), Good(r), Steady(r, s), FocusMoved(r, s),
           s.key # {} => r.key # {}
    PROVE  Restores(r, s) /\ SameMode(r, s)
BY DEF FocusMoved, Tidy, Rises, SameMode, Restores, Sound

LEMMA MakeKeyRestores ==
    ASSUME NEW s, NEW v \in Windows \cup {None}, Good(s), Tidy(s)
    PROVE  LET r == makeKeyWindow(s, v)
           IN  Restores(r, s) /\ SameMode(r, s) /\ FocusMoved(r, s)
<1> DEFINE r == makeKeyWindow(s, v)
<1>1. Good(r) /\ Steady(r, s) /\ FocusMoved(r, s) /\ (s.key # {} => r.key # {})
  BY MakeKey, MakeKeySteady
<1> HIDE DEF r
<1>2. Restores(r, s) /\ SameMode(r, s)
  BY <1>1, FocusMovedRestores
<1> QED BY <1>1, <1>2 DEF r

LEMMA MakeMainRestores ==
    ASSUME NEW s, NEW v \in Windows \cup {None}, Good(s), Tidy(s)
    PROVE  LET r == makeMainWindow(s, v)
           IN  Restores(r, s) /\ SameMode(r, s) /\ FocusMoved(r, s) /\ r.key = s.key
<1> DEFINE r == makeMainWindow(s, v)
<1>1. Good(r) /\ Steady(r, s) /\ FocusMoved(r, s) /\ r.key = s.key
  BY MakeMain, MakeMainSteady DEF KeySame
<1> HIDE DEF r
<1>2. Restores(r, s) /\ SameMode(r, s)
  BY <1>1, FocusMovedRestores
<1> QED BY <1>1, <1>2 DEF r

-----------------------------------------------------------------------------
(* On and off the screen.                                                  *)

\* A change of the fields that are not about the focus, which leaves on screen
\* what was there and was key or main.
LEMMA SettingSteady ==
    ASSUME NEW s, NEW r, r.key = s.key, r.keyWindow = s.keyWindow, r.main = s.main,
           r.mainWindow = s.mainWindow, r.running = s.running, r.launch = s.launch,
           \A v \in s.key \cup s.main : OnScreen(s, v) => OnScreen(r, v)
    PROVE  Steady(r, s)
<1>1. /\ OffScreen(r, r.key) \subseteq OffScreen(s, s.key)
      /\ OffScreen(r, r.main) \subseteq OffScreen(s, s.main)
  BY DEF OffScreen
<1> QED BY <1>1 DEF Steady, Agreed, Observes, MainNamed

LEMMA OrderInRestores ==
    ASSUME NEW s, Good(s), Tidy(s), NEW ws \in SUBSET Windows
    PROVE  LET r == OrderIn(s, ws)
           IN  /\ Restores(r, s) /\ SameMode(r, s)
               /\ r.visible = s.visible \cup ws /\ r.key = s.key /\ r.main = s.main
               /\ r.mini = s.mini /\ r.keyWindow = s.keyWindow /\ r.launch = s.launch
               /\ r.hiddenList = s.hiddenList /\ r.hidesOnDeactivate = s.hidesOnDeactivate
<1> DEFINE x == Reordered(s, ws)
           r == OrderIn(s, ws)
<1>1. /\ x \subseteq s.inactive /\ (s.active => x = s.inactive)
      /\ ~s.active => x = s.inactive \ (ws \cap s.hidesOnDeactivate)
  BY DEF Reordered
<1>2. x \in SUBSET Windows
  BY <1>1 DEF Good, App
<1>3. r = [s EXCEPT !.visible = s.visible \cup ws, !.inactive = x]
  BY DEF OrderIn
<1> HIDE DEF x, r
<1>4. r \in App
  BY <1>2, <1>3 DEF Good, App
<1>5. /\ r.visible = s.visible \cup ws /\ r.inactive = x /\ r.key = s.key
      /\ r.keyWindow = s.keyWindow /\ r.main = s.main /\ r.mainWindow = s.mainWindow
      /\ r.hidesOnDeactivate = s.hidesOnDeactivate /\ SameMode(r, s)
      /\ r.hiddenList = s.hiddenList /\ r.mini = s.mini
      /\ r.running = s.running /\ r.launch = s.launch
  BY <1>3 DEF Good, App, SameMode
<1>6. Good(r)
  BY <1>4, <1>5 DEF Good, Observes
<1>7. Tidy(r)
  BY <1>1, <1>5 DEF Tidy, SameMode
<1>8. Steady(r, s)
  BY <1>5, SettingSteady DEF OnScreen
<1>9. Rises(r, s)
  BY <1>1, <1>5 DEF Rises, SameMode
<1> QED BY <1>5, <1>6, <1>7, <1>8, <1>9 DEF Restores, Sound, r

LEMMA OrderOutFalls ==
    ASSUME NEW s, Good(s), Tidy(s), NEW w \in Windows, NEW front \in Fronts
    PROVE  LET r == OrderOut(s, w, front)
           IN  /\ Sound(r, s) /\ SameMode(r, s) /\ Falls(r, s)
               /\ r.visible = s.visible \ {w} /\ r.hidesOnDeactivate = s.hidesOnDeactivate
               /\ r.inactive \subseteq s.inactive
<1> DEFINE q == [s EXCEPT !.visible = s.visible \ {w}]
           lost == lossOfKeyOrMainWindow(q, w, front)
           x == Reordered(s, {w})
           r == [lost EXCEPT !.inactive = x]
<1>1. /\ q \in App /\ q.visible = s.visible \ {w} /\ q.mini = s.mini
      /\ q.key = s.key /\ q.keyWindow = s.keyWindow /\ MainSame(q, s)
      /\ q.hidesOnDeactivate = s.hidesOnDeactivate /\ q.inactive = s.inactive
      /\ SameMode(q, s) /\ q.running = s.running /\ q.launch = s.launch
  BY DEF Good, App, SameMode, MainSame
<1> HIDE DEF q
<1>2. Good(q) /\ ~OnScreen(q, w)
  BY <1>1 DEF Good, Observes, OnScreen
<1>3. /\ Good(lost) /\ FocusMoved(lost, q) /\ Steady(lost, q)
      /\ q.running => w \notin lost.key \cup lost.main
      /\ HandsOn(lost, q, w)
  BY <1>2, LoseBoth
<1>4. x \subseteq s.inactive
  BY DEF Reordered
<1>5. x \in SUBSET Windows
  BY <1>4 DEF Good, App
<1> HIDE DEF lost, x
<1>6. /\ r \in App /\ r.visible = lost.visible /\ r.mini = lost.mini /\ r.inactive = x
      /\ r.key = lost.key /\ r.keyWindow = lost.keyWindow /\ r.main = lost.main
      /\ r.mainWindow = lost.mainWindow /\ SameMode(r, lost)
      /\ r.hidesOnDeactivate = lost.hidesOnDeactivate
      /\ r.running = lost.running /\ r.launch = lost.launch
  BY <1>3, <1>5 DEF Good, App, SameMode
<1> HIDE DEF r
<1>7. r.visible = s.visible \ {w} /\ r.hidesOnDeactivate = s.hidesOnDeactivate
  BY <1>1, <1>3, <1>6 DEF FocusMoved
<1>8. SameMode(r, s)
  BY <1>1, <1>3, <1>6 DEF FocusMoved, SameMode
<1>9. Good(r) /\ Tidy(r)
  BY <1>3, <1>4, <1>6, <1>7, <1>8 DEF Good, Observes, Tidy, SameMode
<1>10. Steady(r, s)
  <2>1. Steady(r, lost)
    BY <1>6, SettingSteady DEF OnScreen
  <2>2. Steady(r, q)
    BY <1>3, <2>1, SteadyTransitive
  <2>3. \A v : v # w => (OnScreen(q, v) <=> OnScreen(s, v))
    BY <1>1 DEF OnScreen
  <2>4. s.running => /\ OffScreen(r, r.key) \subseteq OffScreen(q, q.key) \ {w}
                     /\ OffScreen(r, r.main) \subseteq OffScreen(q, q.main) \ {w}
    BY <1>1, <1>3, <1>6, <2>2 DEF Steady, Agreed, OffScreen
  <2>5. s.running => /\ OffScreen(r, r.key) \subseteq OffScreen(s, s.key)
                     /\ OffScreen(r, r.main) \subseteq OffScreen(s, s.main)
    BY <1>1, <2>3, <2>4 DEF OffScreen, MainSame
  <2> QED BY <1>1, <2>2, <2>5 DEF Steady, Agreed, Observes, MainNamed, MainSame
<1>11. Falls(r, s)
  <2>1. s.visible \cap s.mini = {} => (q.visible \cap q.mini) \subseteq {w}
    BY <1>1
  <2>2. s.mainWindow = None \/ OnScreen(s, s.mainWindow)
          => q.mainWindow \in {None, w} \/ OnScreen(q, q.mainWindow)
    BY <1>1 DEF OnScreen, MainSame
  <2> QED BY <1>1, <1>3, <1>6, <1>8, <2>1, <2>2 DEF Falls, SameMode, HandsOn
<1>12. OrderOut(s, w, front) = r
  BY DEF OrderOut, q, lost, x, r
<1> QED BY <1>4, <1>6, <1>7, <1>8, <1>9, <1>10, <1>11, <1>12 DEF Sound

LEMMA MiniaturizeFalls ==
    ASSUME NEW s, Good(s), Tidy(s), NEW w \in Windows, NEW front \in Fronts
    PROVE  LET r == Miniaturize(s, w, front)
           IN  Sound(r, s) /\ SameMode(r, s) /\ Falls(r, s)
<1> DEFINE q == [s EXCEPT !.mini = s.mini \cup {w}]
           lost == lossOfKeyOrMainWindow(q, w, front)
           r == [lost EXCEPT !.visible = lost.visible \ {w}]
<1>1. /\ q \in App /\ q.visible = s.visible /\ q.mini = s.mini \cup {w}
      /\ q.key = s.key /\ q.keyWindow = s.keyWindow /\ MainSame(q, s)
      /\ q.hidesOnDeactivate = s.hidesOnDeactivate /\ q.inactive = s.inactive
      /\ SameMode(q, s) /\ q.running = s.running /\ q.launch = s.launch
  BY DEF Good, App, SameMode, MainSame
<1> HIDE DEF q
<1>2. Good(q) /\ ~OnScreen(q, w)
  BY <1>1 DEF Good, Observes, OnScreen
<1>3. /\ Good(lost) /\ FocusMoved(lost, q) /\ Steady(lost, q)
      /\ q.running => w \notin lost.key \cup lost.main
      /\ HandsOn(lost, q, w)
  BY <1>2, LoseBoth
<1> HIDE DEF lost
<1>4. /\ r \in App /\ r.visible = lost.visible \ {w} /\ r.mini = lost.mini
      /\ r.inactive = lost.inactive /\ r.key = lost.key /\ r.keyWindow = lost.keyWindow
      /\ r.main = lost.main /\ r.mainWindow = lost.mainWindow /\ SameMode(r, lost)
      /\ r.hidesOnDeactivate = lost.hidesOnDeactivate
      /\ r.running = lost.running /\ r.launch = lost.launch
  BY <1>3 DEF Good, App, SameMode
<1> HIDE DEF r
<1>5. SameMode(r, s)
  BY <1>1, <1>3, <1>4 DEF FocusMoved, SameMode
<1>6. Good(r) /\ Tidy(r)
  BY <1>1, <1>3, <1>4, <1>5 DEF Good, Observes, Tidy, FocusMoved, SameMode
<1>7. Steady(r, s)
  <2>1. \A v : v # w => (OnScreen(q, v) <=> OnScreen(s, v))
    BY <1>1 DEF OnScreen
  <2>2. \A v : v # w => (OnScreen(r, v) <=> OnScreen(lost, v))
    BY <1>4 DEF OnScreen
  <2>3. s.running => /\ OffScreen(lost, lost.key) \subseteq OffScreen(q, q.key) \ {w}
                     /\ OffScreen(lost, lost.main) \subseteq OffScreen(q, q.main) \ {w}
    BY <1>1, <1>3 DEF Steady, Agreed, OffScreen
  <2>4. s.running => /\ OffScreen(r, r.key) \subseteq OffScreen(s, s.key)
                     /\ OffScreen(r, r.main) \subseteq OffScreen(s, s.main)
    BY <1>1, <1>3, <1>4, <2>1, <2>2, <2>3 DEF OffScreen, MainSame
  <2>5. Observes(s) /\ MainNamed(s) => MainNamed(r)
    BY <1>1, <1>3, <1>4 DEF Steady, Agreed, Observes, MainNamed, MainSame
  <2> QED BY <1>1, <1>3, <1>4, <2>4, <2>5 DEF Steady, Agreed, Observes
<1>8. Falls(r, s)
  <2>1. s.visible \cap s.mini = {} => (q.visible \cap q.mini) \subseteq {w}
    BY <1>1
  <2>2. s.mainWindow = None \/ OnScreen(s, s.mainWindow)
          => q.mainWindow \in {None, w} \/ OnScreen(q, q.mainWindow)
    BY <1>1 DEF OnScreen, MainSame
  <2> QED BY <1>1, <1>3, <1>4, <1>5, <2>1, <2>2 DEF Falls, SameMode, HandsOn
<1>9. Miniaturize(s, w, front) = r
  BY DEF Miniaturize, q, lost, r
<1> QED BY <1>5, <1>6, <1>7, <1>8, <1>9 DEF Sound

LEMMA ShownRestores ==
    ASSUME NEW s, Good(s), Tidy(s), NEW w \in Windows
    PROVE  LET r == Shown(s, w) IN Restores(r, s) /\ SameMode(r, s)
<1> DEFINE o == OrderIn(s, {w})
           k == makeKeyWindow(o, w)
           m == makeMainWindow(k, w)
<1>1. Restores(o, s) /\ SameMode(o, s)
  BY OrderInRestores
<1> HIDE DEF o
<1>2. Restores(k, o) /\ SameMode(k, o)
  BY <1>1, MakeKeyRestores DEF Restores, Sound
<1> HIDE DEF k
<1>3. Restores(m, k) /\ SameMode(m, k)
  BY <1>2, MakeMainRestores DEF Restores, Sound
<1> HIDE DEF m
<1>4. Restores(m, s) /\ SameMode(m, s)
  BY <1>1, <1>2, <1>3, RestoresTransitive DEF SameMode
<1> QED BY <1>1, <1>4 DEF Shown, m, k, o

\* Ordering windows out, one after the other, takes away those and no others.
LEMMA OrderOutAllKeeps ==
    ASSUME NEW s, Good(s), Tidy(s), NEW ws \in SUBSET Windows, NEW front \in Fronts
    PROVE  LET r == OrderOutAll(s, ws, front)
           IN  /\ Sound(r, s) /\ SameMode(r, s) /\ r.visible = s.visible \ ws
               /\ r.hidesOnDeactivate = s.hidesOnDeactivate /\ r.inactive \subseteq s.inactive
<1> DEFINE n == Len(front)
           after(k, x) == LET w == front[n + 1 - k]
                          IN  IF w \in ws THEN OrderOut(x, w, front) ELSE x
           S == {x \in App : /\ Sound(x, s) /\ SameMode(x, s)
                             /\ s.visible \ ws \subseteq x.visible /\ x.visible \subseteq s.visible
                             /\ x.hidesOnDeactivate = s.hidesOnDeactivate
                             /\ x.inactive \subseteq s.inactive}
           Runs(f) == f = [k \in 0..n |-> IF k = 0 THEN s ELSE after(k, f[k - 1])]
           out == CHOOSE f : Runs(f)
<1>1. /\ n \in Nat /\ front \in [1..n -> Windows]
      /\ \A w \in Windows : \E k \in 1..n : front[k] = w
  BY OrderIsSequence DEF Fronts
<1>2. OrderOutAll(s, ws, front) = out[n]
  BY DEF OrderOutAll
<1> HIDE DEF n
<1>3. s \in S
  BY SteadyReflexive DEF Good, Sound, SameMode
<1>4. ASSUME NEW k \in 1..n, NEW x \in S
      PROVE  /\ after(k, x) \in S /\ after(k, x).visible \subseteq x.visible
             /\ front[n + 1 - k] \in ws => front[n + 1 - k] \notin after(k, x).visible
  <2> DEFINE w == front[n + 1 - k]
             r == OrderOut(x, w, front)
  <2>1. w \in Windows
    <3>1. n + 1 - k \in 1..n
      BY <1>1
    <3> QED BY <1>1, <3>1
  <2>2. /\ Good(x) /\ Tidy(x) /\ Steady(x, s) /\ SameMode(x, s)
        /\ s.visible \ ws \subseteq x.visible /\ x.visible \subseteq s.visible
        /\ x.hidesOnDeactivate = s.hidesOnDeactivate /\ x.inactive \subseteq s.inactive
    BY DEF Sound
  <2>3. CASE w \in ws
    <3> HIDE DEF w
    <3>1. /\ Good(r) /\ Tidy(r) /\ Steady(r, x) /\ SameMode(r, x) /\ r.visible = x.visible \ {w}
          /\ r.hidesOnDeactivate = x.hidesOnDeactivate /\ r.inactive \subseteq x.inactive
      BY <2>1, <2>2, OrderOutFalls DEF Sound
    <3> HIDE DEF r
    <3>2. Sound(r, s) /\ SameMode(r, s)
      BY <2>2, <3>1, SteadyTransitive DEF Sound, SameMode
    <3>3. r \in S
      BY <2>2, <2>3, <3>1, <3>2 DEF Good
    <3>4. after(k, x) = r
      BY <2>3 DEF w, r
    <3> HIDE DEF S, after
    <3> QED BY <3>1, <3>3, <3>4 DEF w
  <2>4. CASE w \notin ws
    BY <2>4
  <2> QED BY <2>3, <2>4
<1>5. Runs(out)
  <2> DEFINE step == [k \in 1..n |-> [x \in S |-> after(k, x)]]
  <2>1. Steps(step, n, S)
    BY <1>4 DEF Steps
  <2>2. \A k \in 1..n : \A x \in S : step[k][x] = after(k, x)
    OBVIOUS
  <2> HIDE DEF step, S, after
  <2>3. PICK f : IsRun(f, s, step, n, S)
    BY <1>1, <1>3, <2>1, Iteration
  <2>4. f \in [0..n -> S] /\ f[0] = s /\ \A k \in 1..n : f[k] = after(k, f[k - 1])
    <3>1. /\ f \in [0..n -> S] /\ f[0] = s
          /\ \A k \in 1..n : f[k] = step[k][f[k - 1]]
      BY <2>3 DEF IsRun
    <3>2. \A k \in 1..n : f[k - 1] \in S
      BY <1>1, <3>1
    <3> QED BY <2>2, <3>1, <3>2, Zenon
  <2>5. f = [k \in 0..n |-> IF k = 0 THEN s ELSE after(k, f[k - 1])]
    BY <1>1, <2>4
  <2> QED BY <2>5
<1> HIDE DEF out
<1> DEFINE P == {k \in 0..n : /\ out[k] \in S
                              /\ \A j \in (n + 1 - k)..n : front[j] \in ws => front[j] \notin out[k].visible}
<1>6. out[0] = s /\ \A k \in 1..n : out[k] = after(k, out[k - 1])
  <2> HIDE DEF S, after
  <2> QED BY <1>1, <1>5
<1> HIDE DEF S, after, Runs
<1>7. 0 \in P
  BY <1>1, <1>3, <1>6
<1>8. ASSUME NEW k \in 1..n, k - 1 \in P PROVE k \in P
  <2>1. out[k - 1] \in S /\ out[k] = after(k, out[k - 1])
    BY <1>6, <1>8
  <2>2. /\ out[k] \in S /\ out[k].visible \subseteq out[k - 1].visible
        /\ front[n + 1 - k] \in ws => front[n + 1 - k] \notin out[k].visible
    BY <1>4, <2>1
  <2>3. \A j \in (n + 1 - k)..n : j = n + 1 - k \/ j \in (n + 1 - (k - 1))..n
    BY <1>1
  <2>4. \A j \in (n + 1 - k)..n : front[j] \in ws => front[j] \notin out[k].visible
    BY <1>8, <2>2, <2>3
  <2> QED BY <1>1, <2>2, <2>4
<1>9. n \in P
  <2>1. P \in SUBSET (0..n)
    OBVIOUS
  <2> HIDE DEF P
  <2> QED BY <1>1, <1>7, <1>8, <2>1, UpTo
<1>10. out[n] \in S /\ \A j \in 1..n : front[j] \in ws => front[j] \notin out[n].visible
  BY <1>1, <1>9
<1>11. out[n].visible \cap ws = {}
  BY <1>1, <1>10
<1> QED BY <1>2, <1>10, <1>11 DEF S

-----------------------------------------------------------------------------
(* The methods that bring windows back.                                    *)

LEMMA ReappearedRestores ==
    ASSUME NEW s, Good(s), Tidy(s)
    PROVE  LET r == Reappeared(s)
           IN  /\ Restores(r, s) /\ r.active /\ r.hidden = s.hidden
               /\ r.unhideOnActivation = s.unhideOnActivation
<1> DEFINE q == [s EXCEPT !.active = TRUE]
           o == OrderIn(q, s.inactive)
           r == [o EXCEPT !.inactive = {}]
<1>1. /\ s.inactive \in SUBSET Windows /\ q \in App /\ q.active /\ q.visible = s.visible
      /\ q.hidden = s.hidden /\ q.unhideOnActivation = s.unhideOnActivation
      /\ q.hiddenList = s.hiddenList /\ q.mini = s.mini /\ q.key = s.key
      /\ q.keyWindow = s.keyWindow /\ q.main = s.main /\ q.mainWindow = s.mainWindow
      /\ q.running = s.running /\ q.launch = s.launch
  BY DEF Good, App
<1> HIDE DEF q
<1>2. o = [q EXCEPT !.visible = s.visible \cup s.inactive, !.inactive = q.inactive]
  BY <1>1 DEF OrderIn, Reordered
<1> HIDE DEF o
<1>3. /\ r \in App /\ r.visible = s.visible \cup s.inactive /\ r.inactive = {} /\ r.active
      /\ r.hidden = s.hidden /\ r.unhideOnActivation = s.unhideOnActivation
      /\ r.hiddenList = s.hiddenList /\ r.mini = s.mini /\ r.key = s.key
      /\ r.keyWindow = s.keyWindow /\ r.main = s.main /\ r.mainWindow = s.mainWindow
      /\ r.running = s.running /\ r.launch = s.launch
  BY <1>1, <1>2 DEF App
<1> HIDE DEF r
<1>4. Good(r) /\ Tidy(r)
  BY <1>3 DEF Good, Observes, Tidy
<1>5. Steady(r, s)
  BY <1>3, SettingSteady DEF OnScreen
<1>6. Rises(r, s)
  BY <1>3 DEF Rises
<1> QED BY <1>3, <1>4, <1>5, <1>6 DEF Restores, Sound, Reappeared, q, o, r

LEMMA KeyRestoredRestores ==
    ASSUME NEW s, Good(s), Tidy(s)
    PROVE  LET r == KeyRestored(s) IN Restores(r, s) /\ SameMode(r, s)
<1> DEFINE q == makeKeyWindow(s, s.hiddenKey)
           r == [q EXCEPT !.hiddenKey = None]
<1>1. s.hiddenKey \in Windows \cup {None}
  BY DEF Good, App
<1>2. Restores(q, s) /\ SameMode(q, s) /\ Good(q)
  BY <1>1, MakeKeyRestores DEF Restores, Sound
<1> HIDE DEF q
<1>3. /\ r \in App /\ FocusMoved(r, q) /\ KeySame(r, q) /\ MainSame(r, q)
  BY <1>2 DEF Good, App, FocusMoved, KeySame, MainSame
<1> HIDE DEF r
<1>4. Good(r) /\ Steady(r, q)
  BY <1>2, <1>3, KeyMoveSteady DEF Good, Observes, FocusMoved, KeySame
<1>5. Restores(r, q) /\ SameMode(r, q)
  BY <1>2, <1>3, <1>4, FocusMovedRestores DEF KeySame, Restores, Sound
<1>6. Restores(r, s) /\ SameMode(r, s)
  BY <1>2, <1>5, RestoresTransitive DEF SameMode
<1> QED BY <1>6, RestoresReflexive DEF KeyRestored, q, r, SameMode

LEMMA MainRestoredRestores ==
    ASSUME NEW s, Good(s), Tidy(s)
    PROVE  LET r == MainRestored(s) IN Restores(r, s) /\ SameMode(r, s)
<1> DEFINE q == makeMainWindow(s, s.hiddenMain)
           r == [q EXCEPT !.hiddenMain = None]
<1>1. s.hiddenMain \in Windows \cup {None}
  BY DEF Good, App
<1>2. Restores(q, s) /\ SameMode(q, s) /\ Good(q)
  BY <1>1, MakeMainRestores DEF Restores, Sound
<1> HIDE DEF q
<1>3. /\ r \in App /\ FocusMoved(r, q) /\ KeySame(r, q) /\ MainSame(r, q)
  BY <1>2 DEF Good, App, FocusMoved, KeySame, MainSame
<1> HIDE DEF r
<1>4. Good(r) /\ Steady(r, q)
  BY <1>2, <1>3, KeyMoveSteady DEF Good, Observes, FocusMoved, KeySame
<1>5. Restores(r, q) /\ SameMode(r, q)
  BY <1>2, <1>3, <1>4, FocusMovedRestores DEF KeySame, Restores, Sound
<1>6. Restores(r, s) /\ SameMode(r, s)
  BY <1>2, <1>5, RestoresTransitive DEF SameMode
<1> QED BY <1>6, RestoresReflexive DEF MainRestored, q, r, SameMode

\* Deminiaturizing on its own, before the window is shown.
LEMMA UnminiaturizedRestores ==
    ASSUME NEW s, Good(s), Tidy(s), NEW ws
    PROVE  LET r == [s EXCEPT !.mini = s.mini \ ws] IN Restores(r, s) /\ SameMode(r, s)
<1> DEFINE r == [s EXCEPT !.mini = s.mini \ ws]
<1>1. /\ r \in App /\ r.mini = s.mini \ ws /\ r.visible = s.visible /\ r.key = s.key
      /\ r.keyWindow = s.keyWindow /\ r.main = s.main /\ r.mainWindow = s.mainWindow
      /\ r.inactive = s.inactive /\ r.hidesOnDeactivate = s.hidesOnDeactivate
      /\ r.hiddenList = s.hiddenList /\ SameMode(r, s)
      /\ r.running = s.running /\ r.launch = s.launch
  BY DEF Good, App, SameMode
<1> HIDE DEF r
<1>2. Good(r) /\ Tidy(r) /\ Rises(r, s)
  BY <1>1 DEF Good, Observes, Tidy, Rises, SameMode
<1>3. Steady(r, s)
  BY <1>1, SettingSteady DEF OnScreen
<1> QED BY <1>1, <1>2, <1>3 DEF Restores, Sound, r

LEMMA FocusRestoredRestores ==
    ASSUME NEW s, Good(s), Tidy(s)
    PROVE  LET r == FocusRestored(s) IN Restores(r, s) /\ SameMode(r, s)
<1> DEFINE k == KeyRestored(s)
           r == MainRestored(k)
<1>1. Restores(k, s) /\ SameMode(k, s)
  BY KeyRestoredRestores
<1> HIDE DEF k
<1>2. Restores(r, k) /\ SameMode(r, k)
  BY <1>1, MainRestoredRestores DEF Restores, Sound
<1> HIDE DEF r
<1>3. Restores(r, s) /\ SameMode(r, s)
  BY <1>1, <1>2, RestoresTransitive DEF SameMode
<1>4. /\ Good(r) /\ Tidy(r) /\ r.keyWindow \in Windows \cup {None}
      /\ r.mainWindow \in Windows \cup {None}
  BY <1>2 DEF Restores, Sound, Good, App
<1>5. CASE r.keyWindow # None
  <2> DEFINE o == OrderIn(r, {r.keyWindow})
  <2>1. Restores(o, r) /\ SameMode(o, r)
    BY <1>4, <1>5, OrderInRestores
  <2>2. FocusRestored(s) = o
    BY <1>5 DEF FocusRestored, r, k
  <2> HIDE DEF o
  <2> QED BY <1>3, <2>1, <2>2, RestoresTransitive DEF SameMode
<1>6. CASE r.keyWindow = None /\ r.mainWindow # None
  <2> DEFINE m == [r EXCEPT !.mini = r.mini \ {r.mainWindow}]
             o == Shown(m, r.mainWindow)
  <2>1. Restores(m, r) /\ SameMode(m, r)
    BY <1>4, UnminiaturizedRestores
  <2> HIDE DEF m
  <2>2. Restores(o, m) /\ SameMode(o, m)
    BY <1>4, <1>6, <2>1, ShownRestores DEF Restores, Sound
  <2>3. FocusRestored(s) = o
    BY <1>6 DEF FocusRestored, r, k, m
  <2> HIDE DEF o
  <2>4. Restores(o, r) /\ SameMode(o, r)
    BY <2>1, <2>2, RestoresTransitive DEF SameMode
  <2> QED BY <1>3, <2>3, <2>4, RestoresTransitive DEF SameMode
<1>7. CASE r.keyWindow = None /\ r.mainWindow = None
  BY <1>3, <1>7 DEF FocusRestored, r, k
<1> QED BY <1>5, <1>6, <1>7

LEMMA ActivatedRestores ==
    ASSUME NEW s, Good(s), Tidy(s)
    PROVE  LET r == Activated(s) IN Restores(r, s) /\ r.hidden = s.hidden
<1> DEFINE q == Reappeared(s)
           r == FocusRestored(q)
<1>1. Restores(q, s) /\ q.hidden = s.hidden
  BY ReappearedRestores
<1> HIDE DEF q
<1>2. Restores(r, q) /\ SameMode(r, q)
  BY <1>1, FocusRestoredRestores DEF Restores, Sound
<1> HIDE DEF r
<1>3. Restores(r, s) /\ r.hidden = s.hidden
  BY <1>1, <1>2, RestoresTransitive DEF SameMode
<1> QED BY <1>3, RestoresReflexive DEF Activated, q, r

IsList(list) == Len(list) \in Nat /\ list \in [1..Len(list) -> Windows]

LEMMA DeminiaturizeAllRestores ==
    ASSUME NEW s, Good(s), Tidy(s), NEW list, IsList(list)
    PROVE  LET r == DeminiaturizeAll(s, list) IN Restores(r, s) /\ r.hidden = s.hidden
<1> DEFINE n == Len(list)
           after(k, x) == ShownActive([x EXCEPT !.mini = x.mini \ {list[k]}], list[k])
           S == {x \in App : Restores(x, s) /\ x.hidden = s.hidden}
           Runs(f) == f = [k \in 0..n |-> IF k = 0 THEN s ELSE after(k, f[k - 1])]
           shown == CHOOSE f : Runs(f)
<1>1. n \in Nat /\ list \in [1..n -> Windows]
  BY DEF IsList
<1>2. DeminiaturizeAll(s, list) = shown[n]
  BY DEF DeminiaturizeAll
<1> HIDE DEF n
<1>3. s \in S
  BY RestoresReflexive DEF Good
<1>4. ASSUME NEW k \in 1..n, NEW x \in S PROVE after(k, x) \in S
  <2> DEFINE w == list[k]
             q == [x EXCEPT !.mini = x.mini \ {w}]
             m == Shown(q, w)
             a == Activated(m)
  <2>1. w \in Windows
    BY <1>1
  <2>2. Restores(x, s) /\ x.hidden = s.hidden /\ Good(x) /\ Tidy(x)
    BY DEF Restores, Sound
  <2> HIDE DEF w
  <2>3. Restores(q, x) /\ SameMode(q, x)
    BY <2>2, UnminiaturizedRestores
  <2> HIDE DEF q
  <2>4. Restores(m, q) /\ SameMode(m, q)
    BY <2>1, <2>3, ShownRestores DEF Restores, Sound
  <2> HIDE DEF m
  <2>5. Restores(a, m) /\ a.hidden = m.hidden
    BY <2>4, ActivatedRestores DEF Restores, Sound
  <2> HIDE DEF a
  <2>6. Restores(m, s) /\ m.hidden = s.hidden
    BY <2>2, <2>3, <2>4, RestoresTransitive DEF SameMode
  <2>7. Restores(a, s) /\ a.hidden = s.hidden
    BY <2>5, <2>6, RestoresTransitive
  <2>8. after(k, x) \in {a, m}
    BY DEF ShownActive, a, m, q, w
  <2> HIDE DEF after
  <2> QED BY <2>6, <2>7, <2>8 DEF Restores, Sound, Good
<1>5. Runs(shown)
  <2> DEFINE step == [k \in 1..n |-> [x \in S |-> after(k, x)]]
  <2>1. Steps(step, n, S)
    BY <1>4 DEF Steps
  <2>2. \A k \in 1..n : \A x \in S : step[k][x] = after(k, x)
    OBVIOUS
  <2> HIDE DEF step, S, after
  <2>3. PICK f : IsRun(f, s, step, n, S)
    BY <1>1, <1>3, <2>1, Iteration
  <2>4. f \in [0..n -> S] /\ f[0] = s /\ \A k \in 1..n : f[k] = after(k, f[k - 1])
    <3>1. /\ f \in [0..n -> S] /\ f[0] = s
          /\ \A k \in 1..n : f[k] = step[k][f[k - 1]]
      BY <2>3 DEF IsRun
    <3>2. \A k \in 1..n : f[k - 1] \in S
      BY <1>1, <3>1
    <3> QED BY <2>2, <3>1, <3>2, Zenon
  <2>5. f = [k \in 0..n |-> IF k = 0 THEN s ELSE after(k, f[k - 1])]
    BY <1>1, <2>4
  <2> QED BY <2>5
<1> HIDE DEF shown
<1> DEFINE P == {k \in 0..n : shown[k] \in S}
<1>6. shown[0] = s /\ \A k \in 1..n : shown[k] = after(k, shown[k - 1])
  <2> HIDE DEF S, after
  <2> QED BY <1>1, <1>5
<1> HIDE DEF S, after, Runs
<1>7. 0 \in P
  BY <1>1, <1>3, <1>6
<1>8. ASSUME NEW k \in 1..n, k - 1 \in P PROVE k \in P
  BY <1>1, <1>4, <1>6, <1>8
<1>9. n \in P
  <2>1. P \in SUBSET (0..n)
    OBVIOUS
  <2> HIDE DEF P
  <2> QED BY <1>1, <1>7, <1>8, <2>1, UpTo
<1> QED BY <1>2, <1>9 DEF S

LEMMA UnhiddenWithoutActivationRestores ==
    ASSUME NEW s, Good(s), Tidy(s), NEW list, IsList(list)
    PROVE  LET r == UnhiddenWithoutActivation(s, list) IN Restores(r, s) /\ ~r.hidden
<1> DEFINE r == [s EXCEPT !.hidden = FALSE]
           d == DeminiaturizeAll(r, list)
           o == OrderIn(r, s.hiddenList)
           q == IF s.hiddenList = {} THEN d ELSE o
           t == [q EXCEPT !.hiddenList = {}]
<1>1. /\ r \in App /\ ~r.hidden /\ r.visible = s.visible /\ r.mini = s.mini
      /\ r.inactive = s.inactive /\ r.active = s.active /\ r.key = s.key
      /\ r.keyWindow = s.keyWindow /\ r.main = s.main /\ r.mainWindow = s.mainWindow
      /\ r.hidesOnDeactivate = s.hidesOnDeactivate
      /\ r.running = s.running /\ r.launch = s.launch
  BY DEF Good, App
<1>2. s.hiddenList \in SUBSET Windows
  BY DEF Good, App
<1> HIDE DEF r
<1>3. Good(r) /\ Tidy(r) /\ Steady(r, s)
  BY <1>1, SettingSteady DEF Good, Observes, Tidy, OnScreen
<1>4. Restores(d, r) /\ d.hidden = r.hidden
  BY <1>3, DeminiaturizeAllRestores
<1>5. Restores(o, r) /\ o.hidden = r.hidden /\ s.hiddenList \subseteq o.visible
  BY <1>2, <1>3, OrderInRestores DEF SameMode
<1> HIDE DEF d, o
<1>6. Restores(q, r) /\ q.hidden = r.hidden /\ s.hiddenList \subseteq q.visible
  BY <1>4, <1>5
<1> HIDE DEF q
<1>7. /\ t \in App /\ t.visible = q.visible /\ t.mini = q.mini
      /\ t.inactive = q.inactive /\ t.active = q.active /\ t.hidden = q.hidden
      /\ t.key = q.key /\ t.keyWindow = q.keyWindow /\ t.main = q.main
      /\ t.mainWindow = q.mainWindow /\ t.hidesOnDeactivate = q.hidesOnDeactivate
      /\ t.running = q.running /\ t.launch = q.launch
  BY <1>6 DEF Restores, Sound, Good, App
<1> HIDE DEF t
<1>8. Good(t) /\ Tidy(t) /\ Steady(t, q)
  BY <1>6, <1>7, SettingSteady DEF Restores, Sound, Good, Observes, Tidy, OnScreen
<1>9. Steady(t, s)
  BY <1>3, <1>6, <1>8, SteadyTransitive DEF Restores, Sound
<1>10. Rises(t, s)
  BY <1>1, <1>6, <1>7 DEF Restores, Rises
<1>11. CASE s.hidden
  BY <1>1, <1>6, <1>7, <1>8, <1>9, <1>10, <1>11
     DEF UnhiddenWithoutActivation, t, q, d, o, r, Restores, Sound
<1>12. CASE ~s.hidden
  BY <1>12, RestoresReflexive DEF UnhiddenWithoutActivation
<1> QED BY <1>11, <1>12

LEMMA UnhiddenRestores ==
    ASSUME NEW s, Good(s), Tidy(s), NEW list, IsList(list)
    PROVE  LET r == Unhidden(s, list) IN Restores(r, s) /\ ~r.hidden
<1> DEFINE u == UnhiddenWithoutActivation(s, list)
           t == [u EXCEPT !.unhideOnActivation = FALSE]
           q == IF s.hidden THEN t ELSE s
           a == Activated(q)
<1>1. Restores(u, s) /\ ~u.hidden
  BY UnhiddenWithoutActivationRestores
<1> HIDE DEF u
<1>2. /\ t \in App /\ t.visible = u.visible /\ t.mini = u.mini
      /\ t.inactive = u.inactive /\ t.active = u.active /\ t.hidden = u.hidden
      /\ t.key = u.key /\ t.keyWindow = u.keyWindow /\ t.main = u.main
      /\ t.mainWindow = u.mainWindow /\ t.hidesOnDeactivate = u.hidesOnDeactivate
      /\ t.hiddenList = u.hiddenList
      /\ t.running = u.running /\ t.launch = u.launch
  BY <1>1 DEF Restores, Sound, Good, App
<1> HIDE DEF t
<1>3. Restores(t, u)
  BY <1>1, <1>2, SettingSteady
     DEF Restores, Sound, Good, Observes, Tidy, OnScreen, Rises
<1>4. Restores(q, s) /\ ~q.hidden
  BY <1>1, <1>2, <1>3, RestoresTransitive, RestoresReflexive
<1> HIDE DEF q
<1>5. Restores(a, q) /\ a.hidden = q.hidden
  BY <1>4, ActivatedRestores DEF Restores, Sound
<1> HIDE DEF a
<1>6. Restores(a, s) /\ ~a.hidden
  BY <1>4, <1>5, RestoresTransitive
<1> QED BY <1>6 DEF Unhidden, a, q, t, u

LEMMA ActivateRestores ==
    ASSUME NEW s, Good(s), Tidy(s), Waiting(s), NEW list, IsList(list)
    PROVE  LET r == activateIgnoringOtherApps(s, list) IN Restores(r, s) /\ Waiting(r)
<1> DEFINE r == Reappeared(s)
           u == Unhidden(r, list)
           q == IF r.unhideOnActivation THEN u ELSE r
           f == FocusRestored(q)
<1>1. Restores(r, s) /\ r.hidden = s.hidden /\ r.unhideOnActivation = s.unhideOnActivation
  BY ReappearedRestores
<1> HIDE DEF r
<1>2. Restores(u, r) /\ ~u.hidden
  BY <1>1, UnhiddenRestores DEF Restores, Sound
<1> HIDE DEF u
<1>3. Restores(q, s) /\ ~q.hidden
  BY <1>1, <1>2, RestoresTransitive DEF Waiting
<1> HIDE DEF q
<1>4. Restores(f, q) /\ SameMode(f, q)
  BY <1>3, FocusRestoredRestores DEF Restores, Sound
<1> HIDE DEF f
<1>5. Restores(f, s) /\ Waiting(f)
  BY <1>3, <1>4, RestoresTransitive DEF SameMode, Waiting
<1> QED BY <1>5, RestoresReflexive DEF activateIgnoringOtherApps, f, q, u, r

LEMMA ShownUnhiddenRestores ==
    ASSUME NEW s, Good(s), Tidy(s), Waiting(s), NEW w \in Windows, NEW list, IsList(list)
    PROVE  LET r == ShownUnhidden(s, w, list) IN Restores(r, s) /\ Waiting(r)
<1> DEFINE n == Shown(s, w)
           u == Unhidden(n, list)
<1>1. Restores(n, s) /\ Waiting(n)
  BY ShownRestores, SameModeWaits
<1> HIDE DEF n
<1>2. Restores(u, n) /\ ~u.hidden
  BY <1>1, UnhiddenRestores DEF Restores, Sound
<1> HIDE DEF u
<1>3. Restores(u, s) /\ Waiting(u)
  BY <1>1, <1>2, RestoresTransitive DEF Waiting
<1> QED BY <1>1, <1>3 DEF ShownUnhidden, n, u

LEMMA DeminiaturizeRestores ==
    ASSUME NEW s, Good(s), Tidy(s), Waiting(s), NEW w \in Windows, NEW list, IsList(list)
    PROVE  LET r == deminiaturize(s, w, list) IN Restores(r, s) /\ Waiting(r)
<1> DEFINE q == [s EXCEPT !.mini = s.mini \ {w}]
           r == ShownUnhidden(q, w, list)
<1>1. Restores(q, s) /\ Waiting(q)
  BY UnminiaturizedRestores, SameModeWaits
<1> HIDE DEF q
<1>2. Restores(r, q) /\ Waiting(r)
  BY <1>1, ShownUnhiddenRestores DEF Restores, Sound
<1> HIDE DEF r
<1>3. Restores(r, s)
  BY <1>1, <1>2, RestoresTransitive
<1> QED BY <1>2, <1>3, RestoresReflexive DEF deminiaturize, q, r

LEMMA MakeKeyAndOrderFrontRestores ==
    ASSUME NEW s, Good(s), Tidy(s), Waiting(s), NEW w \in Windows, NEW list, IsList(list)
    PROVE  LET r == makeKeyAndOrderFront(s, w, list) IN Restores(r, s) /\ Waiting(r)
<1> DEFINE q == deminiaturize(s, w, list)
           r == ShownUnhidden(q, w, list)
<1>1. Restores(q, s) /\ Waiting(q)
  BY DeminiaturizeRestores
<1> HIDE DEF q
<1>2. Restores(r, q) /\ Waiting(r)
  BY <1>1, ShownUnhiddenRestores DEF Restores, Sound
<1> HIDE DEF r
<1>3. Restores(r, s)
  BY <1>1, <1>2, RestoresTransitive
<1> QED BY <1>2, <1>3 DEF makeKeyAndOrderFront, q, r

\* -finishLaunching records one of the windows that say they are key.
LEMMA EstablishedRestores ==
    ASSUME NEW s, Good(s), Tidy(s), ~Observes(s), NEW list \in Fronts
    PROVE  LET r == Established(s, list) IN Restores(r, s) /\ SameMode(r, s)
<1> DEFINE k == First(list, s.key)
           m == First(list, s.main)
           duplicates == s.key # {k} \ {None} \/ s.main # {m} \ {None}
           r == IF duplicates THEN OrderIn(s, {k, m} \ {None}) ELSE s
           n == IF m = None THEN First(list, r.visible \cap CanBecomeMain) ELSE m
           e == [r EXCEPT !.key = {k} \ {None}, !.main = {m} \ {None}, !.keyWindow = k,
                          !.mainWindow = n, !.launch = "after"]
<1>1. /\ k \in s.key \cup {None} /\ (s.key # {} => k \in s.key)
      /\ m \in s.main \cup {None} /\ s.key \in SUBSET Windows /\ s.main \in SUBSET Windows
  BY FirstIsCandidate DEF Good, App
<1> HIDE DEF k, m, duplicates
<1>2. Restores(r, s) /\ SameMode(r, s) /\ r.key = s.key /\ r.main = s.main
      /\ r.launch = s.launch
  <2>1. {k, m} \ {None} \in SUBSET Windows
    BY <1>1
  <2> DEFINE o == OrderIn(s, {k, m} \ {None})
  <2>2. Restores(o, s) /\ SameMode(o, s) /\ o.key = s.key /\ o.main = s.main
        /\ o.launch = s.launch
    BY <2>1, OrderInRestores
  <2> HIDE DEF o
  <2>3. r = o \/ r = s
    BY DEF o
  <2> HIDE DEF r
  <2> QED BY <2>2, <2>3, RestoresReflexive DEF SameMode
<1> HIDE DEF r
<1>3. n \in Windows \cup {None}
  <2>1. r.visible \cap CanBecomeMain \in SUBSET Windows
    BY WindowsAssumption
  <2> QED BY <1>1, <2>1, FirstIsCandidate
<1> HIDE DEF n
<1>4. /\ e \in App /\ e.key = {k} \ {None} /\ e.keyWindow = k /\ e.main = {m} \ {None}
      /\ e.visible = r.visible /\ e.mini = r.mini /\ e.inactive = r.inactive
      /\ e.hidesOnDeactivate = r.hidesOnDeactivate /\ e.hiddenList = r.hiddenList
      /\ SameMode(e, r) /\ e.running = r.running
  <2>1. r \in App
    BY <1>2 DEF Restores, Sound, Good
  <2>2. /\ k \in Windows \cup {None} /\ {k} \ {None} \in SUBSET Windows
        /\ {m} \ {None} \in SUBSET Windows
    BY <1>1
  <2> DEFINE ks == {k} \ {None}
             ms == {m} \ {None}
  <2>3. ks \in SUBSET Windows /\ ms \in SUBSET Windows
    BY <2>2
  <2>4. e = [r EXCEPT !.key = ks, !.main = ms, !.keyWindow = k, !.mainWindow = n,
                      !.launch = "after"]
    OBVIOUS
  <2> HIDE DEF ks, ms, e
  <2>5. /\ e \in App /\ e.key = ks /\ e.keyWindow = k /\ e.main = ms
        /\ e.visible = r.visible /\ e.mini = r.mini /\ e.inactive = r.inactive
        /\ e.hidesOnDeactivate = r.hidesOnDeactivate /\ e.hiddenList = r.hiddenList
        /\ e.active = r.active /\ e.hidden = r.hidden
        /\ e.unhideOnActivation = r.unhideOnActivation /\ e.running = r.running
    BY <1>3, <2>1, <2>2, <2>3, <2>4 DEF App
  <2> QED BY <2>5 DEF ks, ms, SameMode
<1> HIDE DEF e
<1>5. Good(e) /\ Tidy(e)
  BY <1>2, <1>4 DEF Restores, Sound, Good, Tidy, SameMode
<1>6. ~Observes(r)
  BY <1>2 DEF Observes
<1>7. /\ OffScreen(e, e.key) \subseteq OffScreen(r, r.key)
      /\ OffScreen(e, e.main) \subseteq OffScreen(r, r.main)
  BY <1>1, <1>2, <1>4 DEF OffScreen, OnScreen
<1>8. Steady(e, r)
  BY <1>4, <1>6, <1>7 DEF Steady, Agreed
<1>9. Rises(e, r)
  BY <1>1, <1>2, <1>4, WindowsAssumption DEF Rises, SameMode
<1>10. Restores(e, s) /\ SameMode(e, s)
  BY <1>2, <1>4, <1>5, <1>8, <1>9, RestoresTransitive DEF Restores, Sound, SameMode
<1>11. Established(s, list) = e
  BY DEF Established, e, n, r, duplicates, m, k
<1> QED BY <1>10, <1>11

-----------------------------------------------------------------------------
(* The methods that take windows away.                                     *)

LEMMA FocusSavedSteady ==
    ASSUME NEW s, Good(s)
    PROVE  LET r == FocusSaved(s) IN Good(r) /\ FocusMoved(r, s) /\ Steady(r, s)
<1> DEFINE k == IF s.keyWindow = None THEN s.hiddenKey ELSE s.keyWindow
           m == IF s.mainWindow = None THEN s.hiddenMain ELSE s.mainWindow
           a == resignKeyWindow(s, s.keyWindow)
           b == resignMainWindow(a, s.mainWindow)
           r == [b EXCEPT !.hiddenKey = k, !.hiddenMain = m]
<1>1. /\ s.keyWindow \in Windows \cup {None} /\ s.mainWindow \in Windows \cup {None}
      /\ k \in Windows \cup {None} /\ m \in Windows \cup {None}
  BY DEF Good, App
<1> HIDE DEF k, m
<1>2. Good(a) /\ FocusMoved(a, s) /\ MainSame(a, s) /\ a.key \subseteq s.key
  BY <1>1, ResignKey
<1> HIDE DEF a
<1>3. /\ Good(b) /\ FocusMoved(b, a) /\ KeySame(b, a) /\ b.main \subseteq a.main
      /\ Observes(a) /\ MainNamed(a) => MainNamed(b)
  BY <1>1, <1>2, ResignMain
<1> HIDE DEF b
<1>4. Steady(a, s) /\ Steady(b, a)
  BY <1>2, <1>3, KeyMoveSteady, MainMoveSteady
<1>5. r \in App /\ FocusMoved(r, b) /\ KeySame(r, b) /\ MainSame(r, b)
  BY <1>1, <1>3 DEF Good, App, FocusMoved, KeySame, MainSame
<1> HIDE DEF r
<1>6. Good(r) /\ Steady(r, b)
  BY <1>3, <1>5, KeyMoveSteady DEF Good, Observes, FocusMoved, KeySame
<1>7. FocusMoved(r, s) /\ Steady(r, s)
  BY <1>2, <1>3, <1>4, <1>5, <1>6, FocusMovedTransitive, SteadyTransitive
<1> QED BY <1>6, <1>7 DEF FocusSaved, r, k, m, a, b

LEMMA DeactivatedFalls ==
    ASSUME NEW s, Good(s), Tidy(s), NEW front \in Fronts
    PROVE  LET r == Deactivated(s, front)
           IN  /\ Sound(r, s) /\ ~r.active /\ Falls(r, s) /\ r.hidden = s.hidden
               /\ r.unhideOnActivation = s.unhideOnActivation
<1> DEFINE gone == Leaving(s)
           q == FocusSaved(s)
           t == [q EXCEPT !.active = FALSE]
           o == OrderOutAll(t, gone, front)
           r == [o EXCEPT !.inactive = o.inactive \cup gone]
<1>1. Good(q) /\ FocusMoved(q, s) /\ Steady(q, s)
  BY FocusSavedSteady
<1>2. /\ gone \in SUBSET Windows /\ gone \subseteq s.visible \cap s.hidesOnDeactivate
      /\ gone \cap ModalWindows = {}
  BY WindowsAssumption DEF Leaving
<1> HIDE DEF q, gone
<1>3. /\ t \in App /\ ~t.active /\ t.visible = q.visible /\ t.mini = q.mini
      /\ t.inactive = q.inactive /\ t.hidesOnDeactivate = q.hidesOnDeactivate
      /\ t.key = q.key /\ t.keyWindow = q.keyWindow /\ t.main = q.main
      /\ t.mainWindow = q.mainWindow /\ t.hidden = q.hidden
      /\ t.unhideOnActivation = q.unhideOnActivation
      /\ t.running = q.running /\ t.launch = q.launch
  BY <1>1 DEF Good, App
<1> HIDE DEF t
<1>4. Good(t) /\ Tidy(t) /\ Steady(t, q)
  BY <1>1, <1>3, SettingSteady DEF Good, Observes, Tidy, OnScreen, FocusMoved
<1>5. /\ Sound(o, t) /\ SameMode(o, t) /\ o.visible = t.visible \ gone
      /\ o.hidesOnDeactivate = t.hidesOnDeactivate /\ o.inactive \subseteq t.inactive
  BY <1>2, <1>4, OrderOutAllKeeps
<1> HIDE DEF o
<1>6. /\ r \in App /\ r.visible = o.visible /\ r.mini = o.mini
      /\ r.inactive = o.inactive \cup gone /\ r.hidesOnDeactivate = o.hidesOnDeactivate
      /\ r.key = o.key /\ r.keyWindow = o.keyWindow /\ r.main = o.main
      /\ r.mainWindow = o.mainWindow /\ SameMode(r, o)
      /\ r.running = o.running /\ r.launch = o.launch
  BY <1>2, <1>5 DEF Sound, Good, App, SameMode
<1> HIDE DEF r
<1>7. Good(r) /\ Steady(r, o)
  BY <1>5, <1>6, SettingSteady DEF Sound, Good, Observes, OnScreen
<1>8. Steady(r, s)
  BY <1>1, <1>4, <1>5, <1>7, SteadyTransitive DEF Sound
<1>9. ~r.active /\ r.hidden = s.hidden /\ r.unhideOnActivation = s.unhideOnActivation
  BY <1>1, <1>3, <1>5, <1>6 DEF SameMode, FocusMoved
<1>10. Tidy(r)
  BY <1>1, <1>2, <1>3, <1>5, <1>6, <1>9 DEF Tidy, Sound, FocusMoved
<1>11. Falls(r, s)
  <2>1. ModalWindows \cap s.visible \subseteq r.visible
    BY <1>1, <1>2, <1>3, <1>5, <1>6 DEF FocusMoved
  <2> QED BY <1>9, <2>1 DEF Falls
<1>12. CASE s.active
  BY <1>7, <1>8, <1>9, <1>10, <1>11, <1>12 DEF Deactivated, Sound, r, o, t, q, gone
<1>13. CASE ~s.active
  BY <1>13, SteadyReflexive DEF Deactivated, Falls, Sound
<1> QED BY <1>12, <1>13

LEMMA HiddenFalls ==
    ASSUME NEW s, Good(s), Tidy(s), ~s.hidden, NEW front \in Fronts
    PROVE  LET r == Hidden(s, front) IN Sound(r, s) /\ Waiting(r) /\ Falls(r, s)
<1> DEFINE gone == ((s.visible \cup s.mini) \cap CanHide)
                     \ (IF s.active THEN s.hidesOnDeactivate ELSE {})
           q == FocusSaved(s)
           t == [q EXCEPT !.hidden = TRUE]
           o == OrderOutAll(t, gone, front)
           h == [o EXCEPT !.hiddenList = gone]
           d == Deactivated(h, front)
           r == [d EXCEPT !.unhideOnActivation = TRUE]
<1>1. Good(q) /\ FocusMoved(q, s) /\ Steady(q, s)
  BY FocusSavedSteady
<1>2. gone \in SUBSET Windows
  BY WindowsAssumption
<1> HIDE DEF q, gone
<1>3. /\ t \in App /\ t.hidden /\ t.visible = q.visible /\ t.mini = q.mini
      /\ t.inactive = q.inactive /\ t.hidesOnDeactivate = q.hidesOnDeactivate
      /\ t.key = q.key /\ t.keyWindow = q.keyWindow /\ t.main = q.main
      /\ t.mainWindow = q.mainWindow /\ t.active = q.active
      /\ t.running = q.running /\ t.launch = q.launch
  BY <1>1 DEF Good, App
<1> HIDE DEF t
<1>4. Good(t) /\ Tidy(t) /\ Steady(t, q)
  BY <1>1, <1>3, SettingSteady DEF Good, Observes, Tidy, OnScreen, FocusMoved
<1>5. Sound(o, t) /\ SameMode(o, t)
  BY <1>2, <1>4, OrderOutAllKeeps
<1> HIDE DEF o
<1>6. /\ h \in App /\ h.visible = o.visible /\ h.mini = o.mini /\ h.inactive = o.inactive
      /\ h.hidesOnDeactivate = o.hidesOnDeactivate
      /\ h.key = o.key /\ h.keyWindow = o.keyWindow /\ h.main = o.main
      /\ h.mainWindow = o.mainWindow /\ h.active = o.active /\ h.hidden = o.hidden
      /\ h.running = o.running /\ h.launch = o.launch
  BY <1>2, <1>5 DEF Sound, Good, App
<1> HIDE DEF h
<1>7. Good(h) /\ Tidy(h) /\ Steady(h, o) /\ h.hidden
  BY <1>3, <1>5, <1>6, SettingSteady
     DEF Sound, Good, Observes, OnScreen, Tidy, SameMode
<1>8. Sound(d, h) /\ ~d.active /\ d.hidden
  BY <1>7, DeactivatedFalls
<1> HIDE DEF d
<1>9. /\ r \in App /\ r.visible = d.visible /\ r.mini = d.mini /\ r.inactive = d.inactive
      /\ r.hidesOnDeactivate = d.hidesOnDeactivate
      /\ r.key = d.key /\ r.keyWindow = d.keyWindow /\ r.main = d.main
      /\ r.mainWindow = d.mainWindow /\ r.active = d.active /\ r.hidden = d.hidden
      /\ r.unhideOnActivation /\ r.running = d.running /\ r.launch = d.launch
  BY <1>8 DEF Sound, Good, App
<1> HIDE DEF r
<1>10. Good(r) /\ Tidy(r) /\ Steady(r, d)
  BY <1>8, <1>9, SettingSteady DEF Sound, Good, Observes, OnScreen, Tidy
<1>11. Steady(r, s)
  <2>1. Steady(o, s)
    BY <1>1, <1>4, <1>5, SteadyTransitive DEF Sound
  <2>2. Steady(r, h)
    BY <1>8, <1>10, SteadyTransitive DEF Sound
  <2> QED BY <1>7, <2>1, <2>2, SteadyTransitive
<1>12. Waiting(r) /\ Falls(r, s)
  BY <1>8, <1>9 DEF Waiting, Falls
<1> QED BY <1>10, <1>11, <1>12 DEF Hidden, Sound, r, d, h, o, t, q, gone

-----------------------------------------------------------------------------
(* Every step brings windows back or takes windows away.                   *)

AppInv == Good(app) /\ Tidy(app) /\ Waiting(app)

IInv == AppInv /\ modal \in Seq(Windows) /\ Len(modal) <= MaxModal

Kept == AppInv' /\ Agreed(app', app) /\ (Rises(app', app) \/ Falls(app', app))

LEMMA RestoresKept ==
    ASSUME Restores(app', app), Waiting(app') PROVE Kept
BY DEF Restores, Sound, Steady, Kept, AppInv

LEMMA FallsKept ==
    ASSUME Sound(app', app), Falls(app', app), Waiting(app') PROVE Kept
BY DEF Sound, Steady, Kept, AppInv

LEMMA MiniList ==
    ASSUME Good(app), NEW list \in MiniOrders PROVE IsList(list)
<1>1. app.mini \in SUBSET Windows
  BY DEF Good, App
<1> QED BY <1>1, OrderIsSequence DEF MiniOrders, IsList

LEMMA InitIInv == Init => IInv
BY WindowsAssumption DEF Init, IInv, AppInv, Good, Observes, App, Tidy, Waiting

\* The calls that change one window.
LEMMA WindowCallKept ==
    ASSUME NEW w \in Windows, IInv, WindowCall(w) PROVE Kept
<1> USE DEF IInv, AppInv
<1>1. CASE MakeKeyWindow(w)
  BY <1>1, MakeKeyRestores, SameModeWaits, RestoresKept DEF MakeKeyWindow
<1>2. CASE MakeMainWindow(w)
  BY <1>2, MakeMainRestores, SameModeWaits, RestoresKept DEF MakeMainWindow
<1>3. CASE MakeKeyAndOrderFront(w)
  BY <1>3, MiniList, MakeKeyAndOrderFrontRestores, RestoresKept DEF MakeKeyAndOrderFront
<1>4. CASE OrderFront(w)
  BY <1>4, OrderInRestores, SameModeWaits, RestoresKept DEF OrderFront
<1>5. CASE OrderWindowOut(w)
  BY <1>5, OrderOutFalls, SameModeWaits, FallsKept DEF OrderWindowOut
<1>6. CASE MiniaturizeWindow(w)
  BY <1>6, MiniaturizeFalls, SameModeWaits, FallsKept DEF MiniaturizeWindow
<1>7. CASE Deminiaturize(w)
  BY <1>7, MiniList, DeminiaturizeRestores, RestoresKept DEF Deminiaturize
<1>8. CASE SetHidesOnDeactivate(w)
  <2> DEFINE on == [app EXCEPT !.hidesOnDeactivate = app.hidesOnDeactivate \cup {w}]
             off == [app EXCEPT !.hidesOnDeactivate = app.hidesOnDeactivate \ {w}]
             out(front) == OrderOut(on, w, front)
             back == [off EXCEPT !.inactive = off.inactive \ {w}]
             in == OrderIn(back, {w})
  <2>1. \/ app' = on /\ (app.active \/ w \notin app.visible)
        \/ app' = off /\ (app.active \/ w \notin app.inactive)
        \/ ~app.active /\ app' = in
        \/ ~app.active /\ \E front \in Fronts :
             app' = [out(front) EXCEPT !.inactive = out(front).inactive \cup {w}]
    BY <1>8, Zenon DEF SetHidesOnDeactivate
  <2>2. /\ on \in App /\ SameMode(on, app) /\ on.visible = app.visible /\ on.mini = app.mini
        /\ on.inactive = app.inactive /\ on.key = app.key /\ on.keyWindow = app.keyWindow
        /\ on.hidesOnDeactivate = app.hidesOnDeactivate \cup {w}
        /\ on.hiddenList = app.hiddenList /\ MainSame(on, app)
        /\ on.running = app.running /\ on.launch = app.launch
    BY DEF Good, App, SameMode, MainSame
  <2>3. /\ off \in App /\ SameMode(off, app) /\ off.visible = app.visible
        /\ off.mini = app.mini
        /\ off.inactive = app.inactive /\ off.key = app.key /\ off.keyWindow = app.keyWindow
        /\ off.hidesOnDeactivate = app.hidesOnDeactivate \ {w}
        /\ off.hiddenList = app.hiddenList /\ MainSame(off, app)
        /\ off.running = app.running /\ off.launch = app.launch
    BY DEF Good, App, SameMode, MainSame
  <2>4. /\ back \in App /\ SameMode(back, app) /\ back.visible = app.visible
        /\ back.mini = app.mini
        /\ back.inactive = app.inactive \ {w} /\ back.key = app.key
        /\ back.keyWindow = app.keyWindow
        /\ back.hidesOnDeactivate = app.hidesOnDeactivate \ {w}
        /\ back.hiddenList = app.hiddenList /\ MainSame(back, app)
        /\ back.running = app.running /\ back.launch = app.launch
    BY DEF Good, App, SameMode, MainSame
  <2> HIDE DEF on, off, back
  <2>5. Good(on) /\ Good(off) /\ Good(back)
    BY <2>2, <2>3, <2>4 DEF Good, Observes
  <2>6. Steady(on, app) /\ Steady(off, app) /\ Steady(back, app)
    BY <2>2, <2>3, <2>4, SettingSteady DEF OnScreen, MainSame
  <2>7. CASE app' = on /\ (app.active \/ w \notin app.visible)
    <3>1. Tidy(app') /\ Rises(app', app) /\ SameMode(app', app)
      BY <2>2, <2>7 DEF Tidy, Rises, SameMode
    <3> QED BY <2>5, <2>6, <2>7, <3>1, SameModeWaits, RestoresKept DEF Restores, Sound
  <2>8. CASE app' = off /\ (app.active \/ w \notin app.inactive)
    <3>1. Tidy(app') /\ Rises(app', app) /\ SameMode(app', app)
      BY <2>3, <2>8 DEF Tidy, Rises, SameMode
    <3> QED BY <2>5, <2>6, <2>8, <3>1, SameModeWaits, RestoresKept DEF Restores, Sound
  <2>9. CASE ~app.active /\ app' = in
    <3>1. Tidy(back)
      BY <2>4, <2>9 DEF Tidy, SameMode
    <3>2. Restores(in, back) /\ SameMode(in, back) /\ w \in in.visible
      BY <2>5, <3>1, OrderInRestores
    <3> HIDE DEF in
    <3>3. Rises(in, app) /\ SameMode(in, app)
      BY <2>4, <3>2 DEF Restores, Rises, SameMode
    <3>4. Steady(in, app)
      BY <2>6, <3>2, SteadyTransitive DEF Restores, Sound
    <3> QED BY <2>9, <3>2, <3>3, <3>4, SameModeWaits, RestoresKept DEF Restores, Sound
  <2>10. CASE ~app.active /\ \E front \in Fronts :
             app' = [out(front) EXCEPT !.inactive = out(front).inactive \cup {w}]
    <3>1. PICK front \in Fronts :
            app' = [out(front) EXCEPT !.inactive = out(front).inactive \cup {w}]
      BY <2>10
    <3> DEFINE o == out(front)
    <3>2. Tidy(on)
      BY <2>2, <2>10 DEF Tidy, SameMode
    <3>3. /\ Sound(o, on) /\ SameMode(o, on) /\ o.visible = on.visible \ {w}
          /\ o.hidesOnDeactivate = on.hidesOnDeactivate
      BY <2>5, <3>2, OrderOutFalls
    <3> HIDE DEF out
    <3>4. app' = [o EXCEPT !.inactive = o.inactive \cup {w}]
      BY <3>1
    <3> HIDE DEF o
    <3>5. /\ app' \in App /\ app'.visible = o.visible /\ app'.inactive = o.inactive \cup {w}
          /\ app'.mini = o.mini /\ app'.key = o.key /\ app'.keyWindow = o.keyWindow
          /\ app'.main = o.main /\ app'.mainWindow = o.mainWindow
          /\ app'.hidesOnDeactivate = o.hidesOnDeactivate /\ SameMode(app', o)
          /\ app'.running = o.running /\ app'.launch = o.launch
      BY <3>3, <3>4 DEF Sound, Good, App, SameMode
    <3>6. Good(app') /\ Steady(app', o)
      BY <3>3, <3>5, SettingSteady DEF Sound, Good, Observes, OnScreen
    <3>7. SameMode(app', app)
      BY <2>2, <3>3, <3>5 DEF SameMode
    <3>8. Tidy(app') /\ Falls(app', app)
      BY <2>2, <2>10, <3>3, <3>5, <3>7 DEF Sound, Tidy, Falls, SameMode
    <3>9. Steady(app', app)
      BY <2>6, <3>3, <3>6, SteadyTransitive DEF Sound
    <3> QED BY <3>6, <3>7, <3>8, <3>9, SameModeWaits, FallsKept DEF Sound
  <2> HIDE DEF in, out
  <2> QED BY <2>1, <2>7, <2>8, <2>9, <2>10
<1> QED BY <1>1, <1>2, <1>3, <1>4, <1>5, <1>6, <1>7, <1>8 DEF WindowCall

LEMMA BeginKept ==
    ASSUME NEW w \in Windows, IInv, BeginModalSession(w) PROVE Kept
<1> USE DEF IInv, AppInv
<1> DEFINE k == IF app.active THEN makeKeyWindow(app, w) ELSE app
           r == OrderIn(k, {w})
<1>1. Restores(k, app) /\ SameMode(k, app)
  BY MakeKeyRestores, RestoresReflexive DEF SameMode
<1> HIDE DEF k
<1>2. Restores(r, k) /\ SameMode(r, k)
  BY <1>1, OrderInRestores DEF Restores, Sound
<1> HIDE DEF r
<1>3. Restores(r, app) /\ SameMode(r, app)
  BY <1>1, <1>2, RestoresTransitive DEF SameMode
<1>4. app' = r
  BY DEF BeginModalSession, r, k
<1> QED BY <1>3, <1>4, SameModeWaits, RestoresKept

LEMMA EndKept ==
    ASSUME NEW n \in 0..MaxModal, IInv, EndModalSession(n) PROVE Kept
<1> USE DEF IInv, AppInv
<1>1. CASE n = 0
  BY <1>1, RestoresReflexive, RestoresKept DEF EndModalSession
<1>2. CASE n # 0
  <2> DEFINE v == modal[n]
             o == OrderIn(app, {v})
             k == makeKeyWindow(o, v)
  <2>1. v \in Windows
    BY <1>2 DEF EndModalSession
  <2> HIDE DEF v
  <2>2. Restores(o, app) /\ SameMode(o, app)
    BY <2>1, OrderInRestores
  <2> HIDE DEF o
  <2>3. Restores(k, o) /\ SameMode(k, o)
    BY <2>1, <2>2, MakeKeyRestores DEF Restores, Sound
  <2> HIDE DEF k
  <2>4. Restores(k, app) /\ SameMode(k, app)
    BY <2>2, <2>3, RestoresTransitive DEF SameMode
  <2>5. app' = o \/ app' = k
    BY <1>2 DEF EndModalSession, k, o, v
  <2> QED BY <2>2, <2>4, <2>5, SameModeWaits, RestoresKept
<1> QED BY <1>1, <1>2

\* The launch, and the run loop that starts and stops.
LEMMA RunKept ==
    ASSUME IInv, Run \/ FinishLaunching \/ Stop PROVE Kept
<1> USE DEF IInv, AppInv
<1>1. CASE Run
  <2>1. /\ app' \in App /\ app'.visible = app.visible /\ app'.inactive = app.inactive
        /\ app'.key = app.key /\ app'.keyWindow = app.keyWindow
        /\ app'.main = app.main /\ app'.mainWindow = app.mainWindow
        /\ app'.hidesOnDeactivate = app.hidesOnDeactivate /\ SameMode(app', app)
        /\ app'.hiddenList = app.hiddenList
        /\ app'.launch = "after" <=> app.launch = "after"
    BY <1>1 DEF Run, Good, App, SameMode
  <2>2. Good(app') /\ Tidy(app') /\ Waiting(app') /\ Rises(app', app)
    BY <2>1 DEF Good, Observes, Tidy, Waiting, Rises, SameMode
  <2>3. Agreed(app', app)
    BY <1>1, <2>1 DEF Agreed, Run, MainNamed
  <2> QED BY <2>2, <2>3 DEF Kept
<1>2. CASE FinishLaunching
  <2>1. PICK list \in Fronts, minis \in MiniOrders :
          LET s == Established(app, list)
          IN  app' = IF s.hidden THEN s ELSE activateIgnoringOtherApps(s, minis)
    BY <1>2 DEF FinishLaunching
  <2> DEFINE s == Established(app, list)
             a == activateIgnoringOtherApps(s, minis)
  <2>2. Restores(s, app) /\ SameMode(s, app) /\ Waiting(s)
    BY <1>2, EstablishedRestores, SameModeWaits DEF FinishLaunching, Observes
  <2>3. app' = IF s.hidden THEN s ELSE a
    BY <2>1
  <2> HIDE DEF s
  <2>4. Restores(a, s) /\ Waiting(a)
    BY <2>2, MiniList, ActivateRestores DEF Restores, Sound
  <2> HIDE DEF a
  <2> QED BY <2>2, <2>3, <2>4, RestoresTransitive, RestoresKept
<1>3. CASE Stop
  <2>1. /\ app' \in App /\ app'.visible = app.visible /\ app'.mini = app.mini
        /\ app'.inactive = app.inactive
        /\ app'.key = app.key /\ app'.keyWindow = app.keyWindow
        /\ app'.main = app.main /\ app'.mainWindow = app.mainWindow
        /\ app'.hidesOnDeactivate = app.hidesOnDeactivate /\ SameMode(app', app)
        /\ app'.hiddenList = app.hiddenList /\ app'.launch = app.launch
    BY <1>3 DEF Stop, Good, App, SameMode
  <2>2. Good(app') /\ Tidy(app') /\ Waiting(app') /\ Rises(app', app)
    BY <2>1 DEF Good, Observes, Tidy, Waiting, Rises, SameMode
  <2>3. Agreed(app', app)
    BY <2>1 DEF Agreed, MainNamed, OffScreen, OnScreen
  <2> QED BY <2>2, <2>3 DEF Kept
<1> QED BY <1>1, <1>2, <1>3

LEMMA ApplicationCallKept ==
    ASSUME IInv, ApplicationCall PROVE Kept
<1> USE DEF IInv, AppInv
<1>1. CASE Activate
  BY <1>1, MiniList, ActivateRestores, RestoresKept DEF Activate
<1>2. CASE Deactivate
  <2>1. /\ Sound(app', app) /\ ~app'.active /\ Falls(app', app) /\ app'.hidden = app.hidden
        /\ app'.unhideOnActivation = app.unhideOnActivation
    BY <1>2, DeactivatedFalls DEF Deactivate
  <2>2. Waiting(app')
    BY <2>1 DEF Waiting
  <2> QED BY <2>1, <2>2, FallsKept
<1>3. CASE Hide
  BY <1>3, HiddenFalls, FallsKept DEF Hide
<1>4. CASE Unhide
  <2>1. Restores(app', app) /\ ~app'.hidden
    BY <1>4, MiniList, UnhiddenRestores DEF Unhide
  <2> QED BY <2>1, RestoresKept DEF Waiting
<1>5. CASE UnhideWithoutActivation
  <2>1. Restores(app', app) /\ ~app'.hidden
    BY <1>5, MiniList, UnhiddenWithoutActivationRestores DEF UnhideWithoutActivation
  <2> QED BY <2>1, RestoresKept DEF Waiting
<1> QED BY <1>1, <1>2, <1>3, <1>4, <1>5, RunKept, BeginKept, EndKept DEF ApplicationCall

\* What the user does to a window.
LEMMA UserKept ==
    ASSUME NEW w \in Windows, IInv, FocusIn(w) \/ MouseDown(w) \/ DidDeminiaturize(w)
    PROVE  Kept
<1> USE DEF IInv, AppInv
<1>1. CASE FocusIn(w)
  <2>1. PICK list \in MiniOrders :
          LET r == deminiaturize(app, w, list)
          IN  app' = IF Reachable(w) /\ w \in CanBecomeKey
                     THEN activateIgnoringOtherApps(makeMainWindow(makeKeyWindow(r, w), w), list)
                     ELSE r
    BY <1>1 DEF FocusIn
  <2> DEFINE r == deminiaturize(app, w, list)
             k == makeKeyWindow(r, w)
             m == makeMainWindow(k, w)
             a == activateIgnoringOtherApps(m, list)
  <2>2. IsList(list)
    BY MiniList
  <2>3. app' = r \/ app' = a
    BY <2>1
  <2>4. Restores(r, app) /\ Waiting(r)
    BY <2>2, DeminiaturizeRestores
  <2> HIDE DEF r
  <2>5. Restores(k, r) /\ SameMode(k, r)
    BY <2>4, MakeKeyRestores DEF Restores, Sound
  <2> HIDE DEF k
  <2>6. Restores(m, k) /\ SameMode(m, k)
    BY <2>5, MakeMainRestores DEF Restores, Sound
  <2> HIDE DEF m
  <2>7. Restores(m, app) /\ Waiting(m)
    BY <2>4, <2>5, <2>6, RestoresTransitive, SameModeWaits
  <2>8. Restores(a, m) /\ Waiting(a)
    BY <2>2, <2>7, ActivateRestores DEF Restores, Sound
  <2> HIDE DEF a
  <2> QED BY <2>3, <2>4, <2>7, <2>8, RestoresTransitive, RestoresKept
<1>2. CASE MouseDown(w)
  <2>1. PICK list \in MiniOrders :
          app' = activateIgnoringOtherApps(
                   IF w \in app.key THEN app ELSE makeKeyAndOrderFront(app, w, list), list)
    BY <1>2 DEF MouseDown
  <2> DEFINE q == IF w \in app.key THEN app ELSE makeKeyAndOrderFront(app, w, list)
             a == activateIgnoringOtherApps(q, list)
  <2>2. IsList(list)
    BY MiniList
  <2>3. Restores(q, app) /\ Waiting(q)
    BY <2>2, MakeKeyAndOrderFrontRestores, RestoresReflexive
  <2>4. app' = a
    BY <2>1
  <2> HIDE DEF q
  <2>5. Restores(a, q) /\ Waiting(a)
    BY <2>2, <2>3, ActivateRestores DEF Restores, Sound
  <2> HIDE DEF a
  <2> QED BY <2>3, <2>4, <2>5, RestoresTransitive, RestoresKept
<1>3. CASE DidDeminiaturize(w)
  <2>1. /\ w \notin app.inactive
        /\ app' = [app EXCEPT !.mini = app.mini \ {w}, !.visible = app.visible \cup {w}]
    BY <1>3 DEF DidDeminiaturize
  <2>2. /\ app' \in App /\ app'.visible = app.visible \cup {w} /\ app'.mini = app.mini \ {w}
        /\ app'.inactive = app.inactive
        /\ app'.hidesOnDeactivate = app.hidesOnDeactivate /\ SameMode(app', app)
        /\ app'.hiddenList = app.hiddenList /\ app'.key = app.key
        /\ app'.keyWindow = app.keyWindow /\ app'.main = app.main
        /\ app'.mainWindow = app.mainWindow
        /\ app'.running = app.running /\ app'.launch = app.launch
    BY <2>1 DEF Good, App, SameMode
  <2>3. Good(app') /\ Tidy(app') /\ Rises(app', app)
    BY <2>1, <2>2 DEF Good, Observes, Tidy, Rises, SameMode
  <2>4. Steady(app', app)
    BY <2>2, SettingSteady DEF OnScreen
  <2> QED BY <2>2, <2>3, <2>4, SameModeWaits, RestoresKept DEF Restores, Sound
<1> QED BY <1>1, <1>2, <1>3

LEMMA NextKept == IInv /\ [Next]_vars => Kept
<1> SUFFICES ASSUME IInv, [Next]_vars PROVE Kept
  OBVIOUS
<1>1. CASE Next
  BY <1>1, WindowCallKept, ApplicationCallKept, UserKept DEF Next
<1>2. CASE UNCHANGED vars
  BY <1>2, RestoresReflexive, RestoresKept DEF vars, IInv, AppInv
<1> QED BY <1>1, <1>2

LEMMA NextModal ==
    ASSUME IInv, [Next]_vars PROVE modal' \in Seq(Windows) /\ Len(modal') <= MaxModal
<1>1. CASE UNCHANGED modal
  BY <1>1 DEF IInv
<1>2. CASE \E w \in Windows : BeginModalSession(w)
  BY <1>2, WindowsAssumption DEF IInv, BeginModalSession
<1>3. CASE \E n \in 0..MaxModal : EndModalSession(n)
  BY <1>3, WindowsAssumption DEF IInv, EndModalSession
<1> QED BY <1>1, <1>2, <1>3
        DEF Next, vars, WindowCall, MakeKeyWindow, MakeMainWindow, MakeKeyAndOrderFront,
            OrderFront, OrderWindowOut, MiniaturizeWindow, Deminiaturize,
            SetHidesOnDeactivate, ApplicationCall, Run, FinishLaunching, Stop, Activate,
            Deactivate, Hide, Unhide, UnhideWithoutActivation, FocusIn, MouseDown,
            DidDeminiaturize

LEMMA SpecIInv == Spec => []IInv
<1>1. IInv /\ [Next]_vars => IInv'
  BY NextKept, NextModal DEF Kept, IInv
<1> QED BY <1>1, InitIInv, PTL DEF Spec

-----------------------------------------------------------------------------
(* The theorems.                                                           *)

\* Every reachable state is well typed.
THEOREM TypeCorrect == Spec => []TypeOK
<1>1. IInv => TypeOK
  BY DEF IInv, AppInv, Good, TypeOK
<1> QED BY <1>1, SpecIInv, PTL

\* After the launch NSApplication's _key_window is the one window that says it
\* is key, whatever the calls, for any number of windows; and its _main_window
\* stays the one that says it is main, from the first time that it is.
THEOREM FocusConsistent == Spec => FocusAgrees
<1>1. IInv => (Observes(app) => app.key = {app.keyWindow} \ {None})
  BY DEF IInv, AppInv, Good
<1>2. Kept => [Observes(app) /\ MainAgrees => MainAgrees']_vars
  BY DEF Kept, Agreed, MainNamed, MainAgrees
<1> QED BY <1>1, <1>2, SpecIInv, NextKept, PTL DEF Spec, FocusAgrees

\* No step of a running application, however many windows it takes away and
\* whichever windows inherit their status, adds a window that is key or main
\* without being on screen.
THEOREM FocusVisible == Spec => FocusOnScreen
<1>1. Kept =>
        [app.running => /\ OffScreen(app', app'.key) \subseteq OffScreen(app, app.key)
                        /\ OffScreen(app', app'.main) \subseteq OffScreen(app, app.main)]_vars
  BY DEF Kept, Agreed
<1> QED BY <1>1, SpecIInv, NextKept, PTL DEF Spec, FocusOnScreen

\* _inactive lists windows that activation has to bring back and no other: none
\* that -orderFront: and its siblings have ordered in or out since -deactivate.
THEOREM InactiveHonest == Spec => []InactiveListHonest
<1>1. IInv => InactiveListHonest
  BY DEF IInv, AppInv, Tidy, InactiveListHonest
<1> QED BY <1>1, SpecIInv, PTL

\* After -hide:, whatever makes the application active unhides it first.
THEOREM HiddenInactive == Spec => []HiddenIsInactive
<1>1. IInv => HiddenIsInactive
  BY DEF IInv, AppInv, Waiting, HiddenIsInactive
<1> QED BY <1>1, SpecIInv, PTL

\* No path of calls that ends with the application active, or not hidden, loses
\* a window that -deactivate or -hide: had ordered out.
THEOREM WindowsReturn == Spec => WindowsComeBack
<1>1. IInv /\ Kept =>
        [/\ ~app.active /\ app'.active => app.inactive \subseteq app'.visible
         /\ app.hidden /\ ~app'.hidden => app.hiddenList \subseteq app'.visible]_vars
  BY DEF IInv, AppInv, Kept, Rises, Falls, Tidy
<1> QED BY <1>1, SpecIInv, NextKept, PTL DEF Spec, WindowsComeBack

\* Deactivation spares the windows of modal sessions, whichever call causes it.
THEOREM ModalWindowsSpared == Spec => ModalWindowsStay
<1>1. Kept => [app.active /\ ~app'.active /\ ~app'.hidden
                 => ModalWindows \cap app.visible \subseteq app'.visible]_vars
  BY DEF Kept, Rises, Falls
<1> QED BY <1>1, SpecIInv, NextKept, PTL DEF Spec, ModalWindowsStay

\* The key status is not lost while another window on screen can take it: the
\* choice -_lossOfKeyOrMainWindow makes never refuses it.
THEOREM KeyIsHandedOn == Spec => KeyHandedOn
<1>1. Kept => [app.key # {} /\ app'.key = {} /\ app.active /\ app'.active
                 /\ app.visible \cap app.mini = {}
                 /\ (app.mainWindow = None \/ OnScreen(app, app.mainWindow))
                 => (app.visible \cap CanBecomeKey) \subseteq app.key]_vars
  BY DEF Kept, Rises, Falls
<1> QED BY <1>1, SpecIInv, NextKept, PTL DEF Spec, KeyHandedOn
=============================================================================
