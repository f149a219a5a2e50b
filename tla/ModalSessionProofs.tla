------------------------- MODULE ModalSessionProofs -------------------------
(***************************************************************************)
(* Proofs about ModalSession, for any windows and any nesting of sessions  *)
(* and event loops: the types, that the chain of sessions matches the      *)
(* stack of loops, that the levels of the windows come back, and that only *)
(* a late write of another thread replaces the code of the first stop.     *)
(***************************************************************************)
EXTENDS ModalSession, FiniteSetTheorems, WellFoundedInduction, TLAPS

USE WindowsAssumption, BoundsAssumption

-----------------------------------------------------------------------------
(* The inductive invariant.  Its parts are stated for a chain c, a stack s *)
(* and the windows' state, to relate them before and after a step.         *)

\* Each session is in the chain once.
ChainOK(c) ==
    /\ c \in Seq(Session) /\ Len(c) <= MaxSessions
    /\ \A j, k \in 1..Len(c) : c[j].id = c[k].id => j = k

\* -run is the outermost loop and has no session.
StackOK(s) ==
    /\ s \in Seq(Frame) /\ Len(s) <= MaxFrames
    /\ \A k \in 1..Len(s) : /\ (s[k].kind = "run") <=> (k = 1)
                            /\ (s[k].id = None) <=> (k = 1)

\* The loops run sessions of the chain ...
HaveSessions(c, s) == \A k \in 2..Len(s) : \E p \in 1..Len(c) : c[p].id = s[k].id

\* ... the innermost the last; ...
InOrder(c, s) ==
    \A j, k \in 2..Len(s), p, q \in 1..Len(c) :
        j < k /\ c[p].id = s[j].id /\ c[q].id = s[k].id => p < q

\* ... the sessions of -runModalForWindow: are those of its loops, ...
LoopsRun(c, s) ==
    \A p \in 1..Len(c) : c[p].owner = "loop" => \E k \in 2..Len(s) : s[k].id = c[p].id

\* ... and -runModalSession: runs those of the application.
AppOwns(c, s) ==
    \A k \in 2..Len(s), p \in 1..Len(c) :
        s[k].kind = "session" /\ c[p].id = s[k].id => c[p].owner = "app"

NestOK(c, s) == HaveSessions(c, s) /\ InOrder(c, s) /\ LoopsRun(c, s) /\ AppOwns(c, s)

Held(c, p, w) == \E k \in 1..p : c[k].window = w

\* A session remembers the modal level if an outer one has raised its panel.
LevelsOK(c, ex, lv) ==
    /\ \A k \in 1..Len(c) : ex[c[k].window] =>
         c[k].entry = IF c[k].window \in Panels /\ Held(c, k - 1, c[k].window)
                      THEN "modal" ELSE "normal"
    /\ \A w \in Windows : ex[w] =>
         lv[w] = IF w \in Panels /\ Held(c, Len(c), w) THEN "modal" ELSE "normal"

WindowsOK ==
    /\ exists \in [Windows -> BOOLEAN]
    /\ visible \in [Windows -> BOOLEAN]
    /\ level \in [Windows -> Levels]

Places == {"poll", "polling", "done", "wait", "handler", "callback"}

RestOK ==
    /\ exc \in {"none", "abort", "other"}
    /\ exc # "none" => stack # <<>>
    /\ queue \in Seq(Event) /\ Len(queue) <= MaxQueue + 1
    /\ running \in BOOLEAN

IInv ==
    /\ ChainOK(chain) /\ StackOK(stack) /\ NestOK(chain, stack)
    /\ WindowsOK /\ LevelsOK(chain, exists, level) /\ RestOK

\* Beside it: what the other thread is about to write is a code.
ThreadOK == threadStop \in [id: Sessions, code: Codes] \cup {None}

-----------------------------------------------------------------------------
(* Lemmas on sequences.                                                    *)

LEMMA Prefix ==
    ASSUME NEW S, NEW s \in Seq(S), NEW n \in 0..Len(s)
    PROVE  LET r == SubSeq(s, 1, n)
           IN  r \in Seq(S) /\ Len(r) = n /\ \A k \in 1..n : r[k] = s[k]
<1>1. \A k \in 1..n : s[k] \in S
  OBVIOUS
<1> QED
  BY <1>1

LEMMA Appended ==
    ASSUME NEW S, NEW s \in Seq(S), NEW e \in S
    PROVE  LET r == Append(s, e)
           IN  /\ r \in Seq(S) /\ Len(r) = Len(s) + 1 /\ r[Len(s) + 1] = e
               /\ \A k \in 1..Len(s) : r[k] = s[k]
OBVIOUS

LEMMA Least ==
    ASSUME NEW T \in SUBSET Nat, T # {}
    PROVE  \E x \in T : \A y \in T : x <= y
<1> DEFINE R == OpToRel(<, Nat)
<1>1. IsWellFoundedOn(R, Nat)
  BY NatLessThanWellFounded, Zenon
<1>2. \A x, y \in Nat : (<<y, x>> \in R) <=> y < x
  BY Zenon DEF OpToRel
<1> HIDE DEF R
<1>3. PICK x \in T : \A y \in T : <<y, x>> \notin R
  BY <1>1, WFMin, Zenon
<1>4. \A y \in T : ~ (y < x)
  BY <1>2, <1>3, Zenon
<1> QED
  BY <1>4

-----------------------------------------------------------------------------
(* Lemmas on the chain and the stack.                                      *)

LEMMA SessionFields ==
    ASSUME NEW e \in Session
    PROVE  /\ e.id \in Sessions /\ e.window \in Windows /\ e.entry \in Levels
           /\ e.state \in Codes \cup {"continues"} /\ e.owner \in {"loop", "app"}
BY DEF Session

LEMMA FrameFields ==
    ASSUME NEW f \in Frame
    PROVE  f.kind \in {"run", "window", "session"} /\ f.id \in Sessions \cup {None}
           /\ f.pc \in Places
BY DEF Frame, Places

LEMMA PositionIs ==
    ASSUME ChainOK(chain), NEW p \in 1..Len(chain)
    PROVE  Position(chain[p].id) = p /\ InChain(chain[p].id)
<1>1. DOMAIN chain = 1..Len(chain)
  BY DEF ChainOK
<1> QED
  BY <1>1 DEF Position, InChain, ChainOK

LEMMA InChainPosition ==
    ASSUME ChainOK(chain), NEW id, InChain(id)
    PROVE  Position(id) \in 1..Len(chain) /\ chain[Position(id)].id = id
<1>1. DOMAIN chain = 1..Len(chain)
  BY DEF ChainOK
<1> QED
  BY <1>1 DEF Position, InChain

\* Only states and program counters change.
SameChain(c, d) ==
    /\ d \in Seq(Session) /\ Len(d) = Len(c)
    /\ \A k \in 1..Len(c) : /\ d[k].id = c[k].id /\ d[k].window = c[k].window
                            /\ d[k].entry = c[k].entry /\ d[k].owner = c[k].owner

SameStack(s, t) ==
    /\ t \in Seq(Frame) /\ Len(t) = Len(s)
    /\ \A k \in 1..Len(s) : t[k].kind = s[k].kind /\ t[k].id = s[k].id

\* Outermost parts of a chain and a stack keep the order and the owners.
Shrunk(c, d, s, t) ==
    /\ Len(c) \in Nat /\ Len(d) \in 0..Len(c)
    /\ Len(s) \in Nat /\ Len(t) \in 0..Len(s)
    /\ \A k \in 1..Len(d) : d[k].id = c[k].id /\ d[k].owner = c[k].owner
    /\ \A k \in 1..Len(t) : t[k].id = s[k].id /\ t[k].kind = s[k].kind

LEMMA ShrunkNest ==
    ASSUME NEW c, NEW d, NEW s, NEW t, NestOK(c, s), Shrunk(c, d, s, t),
           HaveSessions(d, t), LoopsRun(d, t)
    PROVE  NestOK(d, t)
<1>1. /\ \A k \in 2..Len(t) : k \in 2..Len(s) /\ k \in 1..Len(t)
      /\ \A p \in 1..Len(d) : p \in 1..Len(c)
  BY DEF Shrunk
<1>2. ASSUME NEW j \in 2..Len(t), NEW k \in 2..Len(t), NEW p \in 1..Len(d),
             NEW q \in 1..Len(d), j < k, d[p].id = t[j].id, d[q].id = t[k].id
      PROVE  p < q
  <2>1. c[p].id = s[j].id /\ c[q].id = s[k].id
    BY <1>1, <1>2 DEF Shrunk
  <2>2. InOrder(c, s)
    BY DEF NestOK
  <2> QED
    BY <1>1, <1>2, <2>1, <2>2 DEF InOrder
<1>3. ASSUME NEW k \in 2..Len(t), NEW p \in 1..Len(d),
             t[k].kind = "session", d[p].id = t[k].id
      PROVE  d[p].owner = "app"
  <2>1. c[p].id = s[k].id /\ s[k].kind = "session" /\ d[p].owner = c[p].owner
    BY <1>1, <1>3 DEF Shrunk
  <2>2. AppOwns(c, s)
    BY DEF NestOK
  <2> QED
    BY <1>1, <2>1, <2>2 DEF AppOwns
<1>4. InOrder(d, t)
  BY <1>2 DEF InOrder
<1>5. AppOwns(d, t)
  BY <1>3 DEF AppOwns
<1> QED
  BY <1>4, <1>5 DEF NestOK

LEMMA SameShape ==
    ASSUME NEW c, NEW d, NEW s, NEW t, ChainOK(c), StackOK(s), NestOK(c, s),
           SameChain(c, d), SameStack(s, t)
    PROVE  ChainOK(d) /\ StackOK(t) /\ NestOK(d, t)
<1>1. ChainOK(d)
  BY DEF ChainOK, SameChain
<1>2. StackOK(t)
  BY DEF StackOK, SameStack
<1>3. Len(c) \in Nat /\ Len(s) \in Nat
  BY DEF ChainOK, StackOK
<1>4. Shrunk(c, d, s, t)
  BY <1>3 DEF Shrunk, SameChain, SameStack
<1>5. HaveSessions(c, s) /\ LoopsRun(c, s)
  BY DEF NestOK
<1>6. ASSUME NEW k \in 2..Len(t) PROVE \E p \in 1..Len(d) : d[p].id = t[k].id
  <2>1. Len(d) = Len(c) /\ k \in 2..Len(s) /\ t[k].id = s[k].id
    BY <1>3, <1>6 DEF SameChain, SameStack
  <2>2. PICK p \in 1..Len(c) : c[p].id = s[k].id
    BY <1>5, <2>1 DEF HaveSessions
  <2> QED
    BY <2>1, <2>2 DEF SameChain
<1>7. ASSUME NEW p \in 1..Len(d), d[p].owner = "loop"
      PROVE  \E k \in 2..Len(t) : t[k].id = d[p].id
  <2>1. p \in 1..Len(c) /\ c[p].owner = "loop" /\ d[p].id = c[p].id /\ Len(t) = Len(s)
    BY <1>3, <1>7 DEF SameChain, SameStack
  <2>2. PICK k \in 2..Len(s) : s[k].id = c[p].id
    BY <1>5, <2>1 DEF LoopsRun
  <2>3. t[k].id = s[k].id
    BY <1>3, <2>2 DEF SameStack
  <2> QED
    BY <2>1, <2>2, <2>3
<1>8. HaveSessions(d, t)
  BY <1>6 DEF HaveSessions
<1>9. LoopsRun(d, t)
  BY <1>7 DEF LoopsRun
<1>10. NestOK(d, t)
  BY <1>4, <1>8, <1>9, ShrunkNest
<1> QED
  BY <1>1, <1>2, <1>10

LEMMA SameLevels ==
    ASSUME NEW c, NEW d, NEW ex, NEW lv, ChainOK(c), LevelsOK(c, ex, lv), SameChain(c, d)
    PROVE  LevelsOK(d, ex, lv)
<1>1. Len(c) \in Nat
  BY DEF ChainOK
<1>2. \A p \in 0..Len(c) : \A w : Held(d, p, w) <=> Held(c, p, w)
  BY <1>1 DEF Held, SameChain
<1>3. \A k \in 1..Len(c) : k - 1 \in 0..Len(c)
  BY <1>1
<1>4. Len(c) \in 0..Len(c)
  BY <1>1
<1> QED
  BY <1>2, <1>3, <1>4 DEF LevelsOK, SameChain

LEMMA SameItself ==
    ASSUME ChainOK(chain), StackOK(stack)
    PROVE  SameChain(chain, chain) /\ SameStack(stack, stack)
BY DEF ChainOK, StackOK, SameChain, SameStack

LEMMA GotoSame ==
    ASSUME StackOK(stack), stack # <<>>,
           NEW pc \in Places, Goto(pc)
    PROVE  SameStack(stack, stack') /\ stack' # <<>>
<1>1. Len(stack) \in 1..Len(stack) /\ stack \in [1..Len(stack) -> Frame]
  BY DEF StackOK
<1>2. stack' = [stack EXCEPT ![Len(stack)] = [stack[Len(stack)] EXCEPT !.pc = pc]]
  BY DEF Goto
<1>3. /\ [stack[Len(stack)] EXCEPT !.pc = pc] \in Frame
      /\ [stack[Len(stack)] EXCEPT !.pc = pc].kind = stack[Len(stack)].kind
      /\ [stack[Len(stack)] EXCEPT !.pc = pc].id = stack[Len(stack)].id
  BY <1>1 DEF Frame, Places
<1> QED
  BY <1>1, <1>2, <1>3 DEF SameStack, StackOK

\* A chain whose sessions differ from the old ones in their state only.
LEMMA StatesSame ==
    ASSUME ChainOK(chain), NEW d, Len(d) = Len(chain), DOMAIN d = DOMAIN chain,
           d = [k \in DOMAIN d |-> d[k]],
           \A k \in 1..Len(chain) :
              d[k] = chain[k] \/ \E code \in Codes : d[k] = [chain[k] EXCEPT !.state = code]
    PROVE  SameChain(chain, d)
<1>1. DOMAIN chain = 1..Len(chain) /\ Len(chain) \in Nat
  BY DEF ChainOK
<1>2. ASSUME NEW k \in 1..Len(chain)
      PROVE  /\ d[k] \in Session /\ d[k].id = chain[k].id /\ d[k].window = chain[k].window
             /\ d[k].entry = chain[k].entry /\ d[k].owner = chain[k].owner
  <2>1. chain[k] \in Session
    BY DEF ChainOK
  <2>2. CASE d[k] = chain[k]
    BY <2>1, <2>2
  <2>3. ASSUME NEW code \in Codes, d[k] = [chain[k] EXCEPT !.state = code]
        PROVE  /\ d[k] \in Session /\ d[k].id = chain[k].id /\ d[k].window = chain[k].window
               /\ d[k].entry = chain[k].entry /\ d[k].owner = chain[k].owner
    BY <2>1, <2>3 DEF Session
  <2> QED
    BY <2>2, <2>3
<1>3. d \in [1..Len(chain) -> Session]
  BY <1>1, <1>2
<1>4. d \in Seq(Session)
  BY <1>1, <1>3
<1> QED
  BY <1>2, <1>4 DEF SameChain

LEMMA StoppedSame ==
    ASSUME ChainOK(chain), NEW code \in Codes, Stopped(code)
    PROVE  SameChain(chain, chain')
<1>1. CASE TakesCode
  <2>1. Len(chain) \in 1..Len(chain) /\ chain \in [1..Len(chain) -> Session]
    BY <1>1 DEF ChainOK, TakesCode
  <2>2. chain' = [chain EXCEPT ![Len(chain)] = [chain[Len(chain)] EXCEPT !.state = code]]
    BY <1>1 DEF Stopped
  <2> DEFINE e == [chain[Len(chain)] EXCEPT !.state = code]
  <2>3. /\ e \in Session /\ e.id = chain[Len(chain)].id
        /\ e.window = chain[Len(chain)].window /\ e.entry = chain[Len(chain)].entry
        /\ e.owner = chain[Len(chain)].owner
    BY <2>1 DEF Session
  <2> HIDE DEF e
  <2> QED
    BY <2>1, <2>2, <2>3 DEF SameChain, ChainOK, e
<1>2. CASE ~TakesCode
  BY <1>2 DEF Stopped, SameChain, ChainOK
<1> QED
  BY <1>1, <1>2

-----------------------------------------------------------------------------
(* Loops end, sessions are freed.                                          *)

LEMMA PopStack ==
    ASSUME StackOK(stack), stack # <<>>, Top.kind # "run"
    PROVE  /\ StackOK(Pop) /\ Pop # <<>> /\ Len(Pop) = Len(stack) - 1
           /\ \A k \in 1..Len(stack) - 1 : Pop[k] = stack[k]
<1>1. Len(stack) \in Nat /\ Len(stack) # 0 /\ Len(stack) # 1
  BY DEF StackOK, Top
<1>2. Len(stack) - 1 \in 0..Len(stack)
  BY <1>1
<1>3. /\ Pop \in Seq(Frame) /\ Len(Pop) = Len(stack) - 1
      /\ \A k \in 1..Len(stack) - 1 : Pop[k] = stack[k]
  BY <1>2, Prefix DEF Pop, StackOK
<1>4. StackOK(Pop)
  BY <1>1, <1>3 DEF StackOK
<1>5. Pop # <<>>
  BY <1>1, <1>3
<1> QED
  BY <1>3, <1>4, <1>5

LEMMA RemainingChain ==
    ASSUME ChainOK(chain), NEW p \in 1..Len(chain)
    PROVE  LET d == Remaining(chain[p].id)
           IN  /\ d = SubSeq(chain, 1, p - 1) /\ ChainOK(d) /\ Len(d) = p - 1
               /\ \A k \in 1..p - 1 : d[k] = chain[k]
<1> DEFINE d == SubSeq(chain, 1, p - 1)
<1>1. Remaining(chain[p].id) = d
  BY PositionIs DEF Remaining
<1>2. Len(chain) \in Nat /\ p - 1 \in 0..Len(chain)
  BY DEF ChainOK
<1>3. d \in Seq(Session) /\ Len(d) = p - 1 /\ \A k \in 1..p - 1 : d[k] = chain[k]
  BY <1>2, Prefix DEF ChainOK
<1> HIDE DEF d
<1>4. ChainOK(d)
  BY <1>2, <1>3 DEF ChainOK
<1> QED
  BY <1>1, <1>3, <1>4 DEF d

\* -runModalSession: returns.
LEMMA PopNest ==
    ASSUME ChainOK(chain), StackOK(stack), NestOK(chain, stack), stack # <<>>,
           Top.kind = "session"
    PROVE  NestOK(chain, Pop)
<1> DEFINE n == Len(stack)
           t == Pop
<1>1. /\ Len(t) = n - 1 /\ \A k \in 1..n - 1 : t[k] = stack[k]
  BY PopStack
<1>2. n \in Nat /\ n > 1 /\ Len(chain) \in Nat
  BY DEF StackOK, ChainOK, Top
<1>3. stack[n].kind = "session" /\ HaveSessions(chain, stack)
      /\ LoopsRun(chain, stack) /\ AppOwns(chain, stack)
  BY DEF Top, NestOK
<1>4. ASSUME NEW p \in 1..Len(chain), chain[p].owner = "loop"
      PROVE  \E k \in 2..n - 1 : stack[k].id = chain[p].id
  <2>1. PICK k \in 2..n : stack[k].id = chain[p].id
    BY <1>3, <1>4 DEF LoopsRun
  <2>2. k # n
    BY <1>2, <1>3, <1>4, <2>1 DEF AppOwns
  <2> QED
    BY <1>2, <2>1, <2>2
<1> HIDE DEF n, t
<1>5. \A k \in 2..n - 1 : k \in 2..n /\ k \in 1..n - 1
  BY <1>2
<1>6. Shrunk(chain, chain, stack, t)
  BY <1>1, <1>2 DEF Shrunk, n
<1>7. HaveSessions(chain, t)
  BY <1>1, <1>3, <1>5 DEF HaveSessions, n
<1>8. LoopsRun(chain, t)
  BY <1>1, <1>4, <1>5 DEF LoopsRun
<1>9. NestOK(chain, t)
  BY <1>6, <1>7, <1>8, ShrunkNest
<1> QED
  BY <1>9 DEF t

\* -runModalForWindow: returns or is left by an exception.
LEMMA PopRemainingNest ==
    ASSUME ChainOK(chain), StackOK(stack), NestOK(chain, stack), stack # <<>>,
           Top.kind # "run", NEW p \in 1..Len(chain), chain[p].id = Top.id
    PROVE  NestOK(Remaining(Top.id), Pop)
<1> DEFINE n == Len(stack)
           d == Remaining(Top.id)
           t == Pop
<1>1. /\ Len(t) = n - 1 /\ \A k \in 1..n - 1 : t[k] = stack[k]
  BY PopStack
<1>2. Len(d) = p - 1 /\ \A k \in 1..p - 1 : d[k] = chain[k]
  BY RemainingChain
<1>3. n \in Nat /\ n > 1 /\ Len(chain) \in Nat
  BY DEF StackOK, ChainOK, Top
<1>4. stack[n].id = chain[p].id /\ HaveSessions(chain, stack)
      /\ LoopsRun(chain, stack) /\ InOrder(chain, stack)
  BY DEF Top, NestOK
<1>5. ASSUME NEW k \in 2..n - 1 PROVE \E q \in 1..p - 1 : chain[q].id = stack[k].id
  <2>1. PICK q \in 1..Len(chain) : chain[q].id = stack[k].id
    BY <1>3, <1>4 DEF HaveSessions
  <2>2. q < p
    BY <1>3, <1>4, <2>1 DEF InOrder
  <2> QED
    BY <1>3, <2>1, <2>2
<1>6. ASSUME NEW q \in 1..p - 1, chain[q].owner = "loop"
      PROVE  \E k \in 2..n - 1 : stack[k].id = chain[q].id
  <2>1. q \in 1..Len(chain) /\ q # p
    BY <1>3
  <2>2. PICK k \in 2..n : stack[k].id = chain[q].id
    BY <1>4, <1>6, <2>1 DEF LoopsRun
  <2>3. k # n
    BY <1>4, <2>1, <2>2 DEF ChainOK
  <2> QED
    BY <1>3, <2>2, <2>3
<1> HIDE DEF n, d, t
<1>7. \A k \in 2..n - 1 : k \in 2..n /\ k \in 1..n - 1
  BY <1>3
<1>8. \A q \in 1..p - 1 : q \in 1..Len(chain)
  BY <1>3
<1>9. Shrunk(chain, d, stack, t)
  BY <1>1, <1>2, <1>3 DEF Shrunk, n
<1>10. HaveSessions(d, t)
  BY <1>1, <1>2, <1>5, <1>7 DEF HaveSessions
<1>11. LoopsRun(d, t)
  BY <1>1, <1>2, <1>6, <1>7 DEF LoopsRun
<1>12. NestOK(d, t)
  BY <1>9, <1>10, <1>11, ShrunkNest
<1> QED
  BY <1>12 DEF d, t

\* The application ends sessions that no loop runs.
LEMMA RemainingNest ==
    ASSUME ChainOK(chain), StackOK(stack), NestOK(chain, stack),
           NEW p \in 1..Len(chain),
           \A k \in p..Len(chain), j \in 2..Len(stack) : stack[j].id # chain[k].id
    PROVE  NestOK(Remaining(chain[p].id), stack)
<1> DEFINE n == Len(stack)
           d == Remaining(chain[p].id)
<1>1. Len(d) = p - 1 /\ \A k \in 1..p - 1 : d[k] = chain[k]
  BY RemainingChain
<1>2. n \in Nat /\ Len(chain) \in Nat
  BY DEF StackOK, ChainOK
<1>3. HaveSessions(chain, stack) /\ LoopsRun(chain, stack)
  BY DEF NestOK
<1>4. ASSUME NEW k \in 2..n PROVE \E q \in 1..p - 1 : chain[q].id = stack[k].id
  <2>1. PICK q \in 1..Len(chain) : chain[q].id = stack[k].id
    BY <1>3 DEF HaveSessions
  <2>2. q \notin p..Len(chain)
    BY <2>1
  <2> QED
    BY <1>2, <2>1, <2>2
<1> HIDE DEF n, d
<1>5. \A q \in 1..p - 1 : q \in 1..Len(chain)
  BY <1>2
<1>6. Shrunk(chain, d, stack, stack)
  BY <1>1, <1>2 DEF Shrunk, n
<1>7. HaveSessions(d, stack)
  BY <1>1, <1>4 DEF HaveSessions, n
<1>8. LoopsRun(d, stack)
  BY <1>1, <1>3, <1>5 DEF LoopsRun
<1>9. NestOK(d, stack)
  BY <1>6, <1>7, <1>8, ShrunkNest
<1> QED
  BY <1>9 DEF d

-----------------------------------------------------------------------------
(* Sessions begin, loops start.                                            *)

LEMMA LongerChain ==
    ASSUME ChainOK(chain), Len(chain) < MaxSessions, NEW e \in Session, ~InChain(e.id)
    PROVE  LET d == Append(chain, e)
           IN  /\ ChainOK(d) /\ Len(d) = Len(chain) + 1 /\ d[Len(chain) + 1] = e
               /\ \A k \in 1..Len(chain) : d[k] = chain[k]
               /\ \A k \in 1..Len(chain) : chain[k].id # e.id
<1> DEFINE d == Append(chain, e)
<1>1. /\ d \in Seq(Session) /\ Len(d) = Len(chain) + 1 /\ d[Len(chain) + 1] = e
      /\ \A k \in 1..Len(chain) : d[k] = chain[k]
  BY Appended DEF ChainOK
<1>2. Len(chain) \in Nat /\ DOMAIN chain = 1..Len(chain)
  BY DEF ChainOK
<1>3. \A k \in 1..Len(chain) : chain[k].id # e.id
  BY <1>2 DEF InChain
<1> HIDE DEF d
<1>4. ChainOK(d)
  <2>1. ASSUME NEW j \in 1..Len(d), NEW k \in 1..Len(d), d[j].id = d[k].id PROVE j = k
    <3>1. CASE j \in 1..Len(chain) /\ k \in 1..Len(chain)
      BY <1>1, <2>1, <3>1 DEF ChainOK
    <3>2. CASE j = Len(chain) + 1 \/ k = Len(chain) + 1
      BY <1>1, <1>2, <1>3, <2>1, <3>2
    <3> QED
      BY <1>1, <1>2, <3>1, <3>2
  <2> QED
    BY <1>1, <1>2, <2>1 DEF ChainOK
<1> QED
  BY <1>1, <1>3, <1>4 DEF d

LEMMA LongerStack ==
    ASSUME StackOK(stack), stack # <<>>, Len(stack) < MaxFrames,
           NEW f \in Frame, f.kind # "run", f.id # None
    PROVE  LET t == Append(stack, f)
           IN  /\ StackOK(t) /\ t # <<>> /\ Len(t) = Len(stack) + 1
               /\ t[Len(stack) + 1] = f /\ \A k \in 1..Len(stack) : t[k] = stack[k]
<1> DEFINE t == Append(stack, f)
<1>1. /\ t \in Seq(Frame) /\ Len(t) = Len(stack) + 1 /\ t[Len(stack) + 1] = f
      /\ \A k \in 1..Len(stack) : t[k] = stack[k]
  BY Appended DEF StackOK
<1>2. Len(stack) \in Nat /\ Len(stack) # 0
  BY DEF StackOK
<1> HIDE DEF t
<1>3. StackOK(t)
  <2>1. ASSUME NEW k \in 1..Len(t)
        PROVE  ((t[k].kind = "run") <=> (k = 1)) /\ ((t[k].id = None) <=> (k = 1))
    <3>1. CASE k \in 1..Len(stack)
      BY <1>1, <3>1 DEF StackOK
    <3>2. CASE k = Len(stack) + 1
      BY <1>1, <1>2, <3>2
    <3> QED
      BY <1>1, <1>2, <3>1, <3>2
  <2> QED
    BY <1>1, <1>2, <2>1 DEF StackOK
<1>4. t # <<>>
  BY <1>1, <1>2
<1> QED
  BY <1>1, <1>3, <1>4 DEF t

\* The application begins a session.
LEMMA BegunNest ==
    ASSUME ChainOK(chain), StackOK(stack), NestOK(chain, stack),
           Len(chain) < MaxSessions, NEW e \in Session, ~InChain(e.id), e.owner = "app"
    PROVE  NestOK(Append(chain, e), stack)
<1> DEFINE d == Append(chain, e)
           n == Len(chain)
<1>1. /\ Len(d) = n + 1 /\ d[n + 1] = e
      /\ \A k \in 1..n : d[k] = chain[k] /\ chain[k].id # e.id
  BY LongerChain
<1>2. n \in Nat /\ Len(stack) \in Nat
  BY DEF ChainOK, StackOK
<1>3. /\ HaveSessions(chain, stack) /\ InOrder(chain, stack)
      /\ LoopsRun(chain, stack) /\ AppOwns(chain, stack)
  BY DEF NestOK
<1> HIDE DEF d, n
<1>4. \A p \in 1..n + 1 : p \in 1..n \/ p = n + 1
  BY <1>2
<1>5. \A p \in 1..n : p \in 1..n + 1
  BY <1>2
<1>6. \A k \in 2..Len(stack) : stack[k].id # e.id
  BY <1>1, <1>3 DEF HaveSessions, n
<1>7. HaveSessions(d, stack)
  BY <1>1, <1>3, <1>5 DEF HaveSessions, n
<1>8. InOrder(d, stack)
  <2> SUFFICES ASSUME NEW j \in 2..Len(stack), NEW k \in 2..Len(stack),
                      NEW p \in 1..n + 1, NEW q \in 1..n + 1,
                      j < k, d[p].id = stack[j].id, d[q].id = stack[k].id
               PROVE  p < q
    BY <1>1 DEF InOrder
  <2>1. p \in 1..n /\ q \in 1..n
    BY <1>1, <1>4, <1>6
  <2>2. chain[p].id = stack[j].id /\ chain[q].id = stack[k].id
    BY <1>1, <2>1
  <2> QED
    BY <1>3, <2>1, <2>2 DEF InOrder, n
<1>9. LoopsRun(d, stack)
  BY <1>1, <1>3, <1>4 DEF LoopsRun, n
<1>10. AppOwns(d, stack)
  BY <1>1, <1>3, <1>4 DEF AppOwns, n
<1>11. NestOK(d, stack)
  BY <1>7, <1>8, <1>9, <1>10 DEF NestOK
<1> QED
  BY <1>11 DEF d

\* -runModalSession: is called.
LEMMA PushNest ==
    ASSUME ChainOK(chain), StackOK(stack), NestOK(chain, stack), stack # <<>>,
           Len(stack) < MaxFrames, chain # <<>>, Innermost.owner = "app",
           \A k \in 2..Len(stack) : stack[k].id # Innermost.id,
           NEW f \in Frame, f.kind = "session", f.id = Innermost.id, f.id # None
    PROVE  NestOK(chain, Append(stack, f))
<1> DEFINE t == Append(stack, f)
           m == Len(stack)
           n == Len(chain)
<1>1. Len(t) = m + 1 /\ t[m + 1] = f /\ \A k \in 1..m : t[k] = stack[k]
  BY LongerStack
<1>2. m \in Nat /\ m # 0 /\ n \in Nat /\ n \in 1..n
  BY DEF StackOK, ChainOK
<1>3. /\ HaveSessions(chain, stack) /\ InOrder(chain, stack)
      /\ LoopsRun(chain, stack) /\ AppOwns(chain, stack)
  BY DEF NestOK
<1>4. chain[n].id = f.id /\ chain[n].owner = "app"
  BY DEF Innermost
<1>5. \A p \in 1..n : chain[p].id = f.id => p = n
  BY <1>2, <1>4 DEF ChainOK
<1>6. \A k \in 2..m : stack[k].id # f.id
  OBVIOUS
<1> HIDE DEF t, m, n
<1>7. \A k \in 2..m + 1 : (k \in 2..m /\ k \in 1..m) \/ k = m + 1
  BY <1>2
<1>8. \A k \in 2..m : k \in 2..m + 1 /\ k \in 1..m
  BY <1>2
<1>9. HaveSessions(chain, t)
  <2> SUFFICES ASSUME NEW k \in 2..m + 1
               PROVE  \E p \in 1..n : chain[p].id = t[k].id
    BY <1>1 DEF HaveSessions, n
  <2>1. CASE k \in 2..m /\ k \in 1..m
    BY <1>1, <1>3, <2>1 DEF HaveSessions, n, m
  <2>2. CASE k = m + 1
    BY <1>1, <1>2, <1>4, <2>2
  <2> QED
    BY <1>7, <2>1, <2>2
<1>10. InOrder(chain, t)
  <2> SUFFICES ASSUME NEW j \in 2..m + 1, NEW k \in 2..m + 1,
                      NEW p \in 1..n, NEW q \in 1..n,
                      j < k, chain[p].id = t[j].id, chain[q].id = t[k].id
               PROVE  p < q
    BY <1>1 DEF InOrder, n
  <2>1. j \in 2..m /\ j \in 1..m
    BY <1>2, <1>7
  <2>2. CASE k \in 2..m /\ k \in 1..m
    BY <1>1, <1>3, <2>1, <2>2 DEF InOrder, n, m
  <2>3. CASE k = m + 1
    <3>1. q = n
      BY <1>1, <1>5, <2>3
    <3>2. p # n
      BY <1>1, <1>4, <1>6, <2>1
    <3> QED
      BY <1>2, <3>1, <3>2
  <2> QED
    BY <1>7, <2>2, <2>3
<1>11. LoopsRun(chain, t)
  BY <1>1, <1>3, <1>8 DEF LoopsRun, n, m
<1>12. AppOwns(chain, t)
  <2> SUFFICES ASSUME NEW k \in 2..m + 1, NEW p \in 1..n,
                      t[k].kind = "session", chain[p].id = t[k].id
               PROVE  chain[p].owner = "app"
    BY <1>1 DEF AppOwns, n
  <2>1. CASE k \in 2..m /\ k \in 1..m
    BY <1>1, <1>3, <2>1 DEF AppOwns, n, m
  <2>2. CASE k = m + 1
    BY <1>1, <1>4, <1>5, <2>2
  <2> QED
    BY <1>7, <2>1, <2>2
<1>13. NestOK(chain, t)
  BY <1>9, <1>10, <1>11, <1>12 DEF NestOK
<1> QED
  BY <1>13 DEF t

\* -runModalForWindow: is called.
LEMMA BegunRunNest ==
    ASSUME ChainOK(chain), StackOK(stack), NestOK(chain, stack), stack # <<>>,
           Len(chain) < MaxSessions, Len(stack) < MaxFrames,
           NEW e \in Session, ~InChain(e.id),
           NEW f \in Frame, f.kind = "window", f.id = e.id, f.id # None
    PROVE  NestOK(Append(chain, e), Append(stack, f))
<1> DEFINE d == Append(chain, e)
           t == Append(stack, f)
           m == Len(stack)
           n == Len(chain)
<1>1. Len(t) = m + 1 /\ t[m + 1] = f /\ \A k \in 1..m : t[k] = stack[k]
  BY LongerStack
<1>2. m \in Nat /\ m # 0 /\ n \in Nat
  BY DEF StackOK, ChainOK
<1>3. /\ HaveSessions(chain, stack) /\ InOrder(chain, stack)
      /\ LoopsRun(chain, stack) /\ AppOwns(chain, stack)
  BY DEF NestOK
<1>4. /\ Len(d) = n + 1 /\ d[n + 1] = e
      /\ \A k \in 1..n : d[k] = chain[k] /\ chain[k].id # e.id
  BY LongerChain
<1> HIDE DEF d, t, m, n
<1>5. \A p \in 1..n + 1 : p \in 1..n \/ p = n + 1
  BY <1>2
<1>6. \A p \in 1..n : p \in 1..n + 1
  BY <1>2
<1>7. \A k \in 2..m + 1 : (k \in 2..m /\ k \in 1..m) \/ k = m + 1
  BY <1>2
<1>8. \A k \in 2..m : k \in 2..m + 1 /\ k \in 1..m
  BY <1>2
<1>9. n + 1 \in 1..n + 1 /\ m + 1 \in 2..m + 1
  BY <1>2
<1>10. \A k \in 2..m : stack[k].id # e.id
  BY <1>3, <1>4 DEF HaveSessions, n, m
<1>11. HaveSessions(d, t)
  <2> SUFFICES ASSUME NEW k \in 2..m + 1
               PROVE  \E p \in 1..n + 1 : d[p].id = t[k].id
    BY <1>1, <1>4 DEF HaveSessions
  <2>1. CASE k \in 2..m /\ k \in 1..m
    <3>1. PICK p \in 1..n : chain[p].id = stack[k].id
      BY <1>3, <2>1 DEF HaveSessions, n, m
    <3> QED
      BY <1>1, <1>4, <1>6, <2>1, <3>1
  <2>2. CASE k = m + 1
    BY <1>1, <1>4, <1>9, <2>2
  <2> QED
    BY <1>7, <2>1, <2>2
<1>12. InOrder(d, t)
  <2> SUFFICES ASSUME NEW j \in 2..m + 1, NEW k \in 2..m + 1,
                      NEW p \in 1..n + 1, NEW q \in 1..n + 1,
                      j < k, d[p].id = t[j].id, d[q].id = t[k].id
               PROVE  p < q
    BY <1>1, <1>4 DEF InOrder
  <2>1. j \in 2..m /\ j \in 1..m
    BY <1>2, <1>7
  <2>2. p \in 1..n
    BY <1>1, <1>4, <1>5, <1>10, <2>1
  <2>3. CASE k \in 2..m /\ k \in 1..m
    <3>1. q \in 1..n
      BY <1>1, <1>4, <1>5, <1>10, <2>3
    <3>2. chain[p].id = stack[j].id /\ chain[q].id = stack[k].id
      BY <1>1, <1>4, <2>1, <2>2, <2>3, <3>1
    <3> QED
      BY <1>3, <2>1, <2>2, <2>3, <3>1, <3>2 DEF InOrder, n, m
  <2>4. CASE k = m + 1
    <3>1. q = n + 1
      BY <1>1, <1>4, <1>5, <2>4
    <3> QED
      BY <1>2, <2>2, <3>1
  <2> QED
    BY <1>7, <2>3, <2>4
<1>13. LoopsRun(d, t)
  <2> SUFFICES ASSUME NEW p \in 1..n + 1, d[p].owner = "loop"
               PROVE  \E k \in 2..m + 1 : t[k].id = d[p].id
    BY <1>1, <1>4 DEF LoopsRun
  <2>1. CASE p \in 1..n
    <3>1. PICK k \in 2..m : stack[k].id = chain[p].id
      BY <1>3, <1>4, <2>1 DEF LoopsRun, n, m
    <3> QED
      BY <1>1, <1>4, <1>8, <2>1, <3>1
  <2>2. CASE p = n + 1
    BY <1>1, <1>4, <1>9, <2>2
  <2> QED
    BY <1>5, <2>1, <2>2
<1>14. AppOwns(d, t)
  <2> SUFFICES ASSUME NEW k \in 2..m + 1, NEW p \in 1..n + 1,
                      t[k].kind = "session", d[p].id = t[k].id
               PROVE  d[p].owner = "app"
    BY <1>1, <1>4 DEF AppOwns
  <2>1. k \in 2..m /\ k \in 1..m
    BY <1>1, <1>7
  <2>2. p \in 1..n
    BY <1>1, <1>4, <1>5, <1>10, <2>1
  <2>3. stack[k].kind = "session" /\ chain[p].id = stack[k].id /\ d[p] = chain[p]
    BY <1>1, <1>4, <2>1, <2>2
  <2> QED
    BY <1>3, <2>1, <2>2, <2>3 DEF AppOwns, n, m
<1>15. NestOK(d, t)
  BY <1>11, <1>12, <1>13, <1>14 DEF NestOK
<1> QED
  BY <1>15 DEF d, t

\* A chain that is not full leaves an identity to Fresh.
LEMMA FreshIsNew ==
    ASSUME ChainOK(chain), StackOK(stack), NestOK(chain, stack), Len(chain) < MaxSessions
    PROVE  Fresh \in Sessions /\ ~InChain(Fresh)
<1> DEFINE T == {id \in Sessions : ~InChain(id)}
           New(id) == ~InChain(id) /\ ~InStack(id)
<1>1. Len(chain) \in Nat /\ MaxSessions \in Nat /\ Len(stack) \in Nat
      /\ DOMAIN stack = 1..Len(stack)
  BY DEF ChainOK, StackOK
<1>2. T # {}
  <2>1. SUFFICES ASSUME T = {} PROVE FALSE
    OBVIOUS
  <2> DEFINE f == [id \in Sessions |-> Position(id)]
  <2>2. \A id \in Sessions : Position(id) \in 1..Len(chain) /\ chain[Position(id)].id = id
    BY <2>1, InChainPosition
  <2>3. f \in [Sessions -> 1..Len(chain)]
    BY <2>2
  <2>4. /\ IsFiniteSet(1..Len(chain)) /\ Cardinality(1..Len(chain)) = Len(chain)
        /\ IsFiniteSet(Sessions) /\ Cardinality(Sessions) = MaxSessions
    <3>1. \A m \in Nat : IsFiniteSet(1..m) /\ Cardinality(1..m) = m
      <4> TAKE m \in Nat
      <4>1. 1 \in Int /\ m \in Int
        OBVIOUS
      <4>2. IsFiniteSet(1..m) /\ Cardinality(1..m) = (IF 1 > m THEN 0 ELSE m - 1 + 1)
        BY <4>1, FS_Interval, Zenon
      <4> QED
        BY <4>2
    <3> QED
      BY <1>1, <3>1 DEF Sessions
  <2>5. PICK x, y \in Sessions : x # y /\ f[x] = f[y]
    <3> HIDE DEF f
    <3> QED
      BY <2>3, <2>4, FS_PigeonHole
  <2> QED
    BY <2>2, <2>5
<1>3. \A id \in T : ~InStack(id)
  <2> SUFFICES ASSUME NEW id \in T, NEW k \in 1..Len(stack), stack[k].id = id
               PROVE  FALSE
    BY <1>1 DEF InStack
  <2>1. id # None
    BY DEF Sessions
  <2>2. k \in 2..Len(stack)
    BY <1>1, <2>1 DEF StackOK
  <2>3. PICK p \in 1..Len(chain) : chain[p].id = id
    BY <2>2 DEF NestOK, HaveSessions
  <2> QED
    BY <2>3, PositionIs
<1>4. PICK x \in T : \A y \in T : x <= y
  <2>1. T \in SUBSET Nat
    BY DEF Sessions
  <2> HIDE DEF T
  <2> QED
    BY <1>2, <2>1, Least
<1>5. \E id \in Sessions :
         New(id) /\ \A other \in Sessions : InChain(other) \/ InStack(other) \/ id <= other
  BY <1>3, <1>4, Zenon
<1> QED
  BY <1>5, Zenon DEF Fresh

-----------------------------------------------------------------------------
(* The levels of the windows.                                              *)

LEMMA BegunLevels ==
    ASSUME ChainOK(chain), WindowsOK, LevelsOK(chain, exists, level),
           Len(chain) < MaxSessions, NEW e \in Session, ~InChain(e.id),
           exists[e.window], e.entry = level[e.window], NEW lv \in [Windows -> Levels],
           lv = IF e.window \in Panels THEN [level EXCEPT ![e.window] = "modal"] ELSE level
    PROVE  LevelsOK(Append(chain, e), exists, lv)
<1> DEFINE d == Append(chain, e)
           n == Len(chain)
<1>1. /\ Len(d) = n + 1 /\ d[n + 1] = e /\ \A k \in 1..n : d[k] = chain[k]
  BY LongerChain
<1>2. n \in Nat /\ e.window \in Windows
  BY SessionFields DEF ChainOK
<1> HIDE DEF d, n
<1>3. \A p \in 0..n : \A w : Held(d, p, w) <=> Held(chain, p, w)
  <2> TAKE p \in 0..n
  <2> TAKE w
  <2>1. \A k \in 1..p : k \in 1..n
    BY <1>2
  <2> QED
    BY <1>1, <2>1 DEF Held
<1>4. \A w : Held(d, n + 1, w) <=> Held(chain, n, w) \/ e.window = w
  <2> TAKE w
  <2>1. \A k \in 1..n + 1 : k \in 1..n \/ k = n + 1
    BY <1>2
  <2>2. \A k \in 1..n : k \in 1..n + 1
    BY <1>2
  <2>3. n + 1 \in 1..n + 1
    BY <1>2
  <2> QED
    BY <1>1, <2>1, <2>2, <2>3 DEF Held
<1>5. ASSUME NEW k \in 1..n + 1, exists[d[k].window]
      PROVE  d[k].entry = IF d[k].window \in Panels /\ Held(d, k - 1, d[k].window)
                          THEN "modal" ELSE "normal"
  <2>1. k - 1 \in 0..n /\ (k \in 1..n \/ k = n + 1)
    BY <1>2
  <2>2. CASE k \in 1..n
    BY <1>1, <1>3, <1>5, <2>1, <2>2 DEF LevelsOK, n
  <2>3. CASE k = n + 1
    <3>1. k - 1 = n
      BY <1>2, <2>3
    <3> QED
      BY <1>1, <1>2, <1>3, <2>1, <2>3, <3>1 DEF LevelsOK, n
  <2> QED
    BY <2>1, <2>2, <2>3
<1>6. ASSUME NEW w \in Windows, exists[w]
      PROVE  lv[w] = IF w \in Panels /\ Held(d, n + 1, w) THEN "modal" ELSE "normal"
  BY <1>2, <1>4, <1>6 DEF LevelsOK, WindowsOK, n
<1>7. LevelsOK(d, exists, lv)
  BY <1>1, <1>5, <1>6 DEF LevelsOK
<1> QED
  BY <1>7 DEF d

LEMMA RestoredLevels ==
    ASSUME ChainOK(chain), WindowsOK, LevelsOK(chain, exists, level),
           NEW p \in 1..Len(chain)
    PROVE  /\ Restored(chain[p].id) \in [Windows -> Levels]
           /\ LevelsOK(Remaining(chain[p].id), exists, Restored(chain[p].id))
<1> DEFINE n == Len(chain)
           d == Remaining(chain[p].id)
           lv == Restored(chain[p].id)
           F(w) == {k \in p..n : chain[k].window = w}
           L(w) == CHOOSE k \in F(w) : \A j \in F(w) : k <= j
<1>1. Len(d) = p - 1 /\ \A k \in 1..p - 1 : d[k] = chain[k]
  BY RemainingChain
<1>2. n \in Nat /\ p \in Nat /\ p >= 1 /\ p <= n
  BY DEF ChainOK
<1>3. \A k \in 1..n : chain[k].window \in Windows /\ chain[k].entry \in Levels
  BY SessionFields DEF ChainOK
<1>4. lv = [w \in Windows |-> IF exists[w] /\ F(w) # {} THEN chain[L(w)].entry ELSE level[w]]
  <2>1. Position(chain[p].id) = p
    BY PositionIs
  <2> QED
    BY <2>1 DEF Restored, Freed
<1>5. ASSUME NEW w, F(w) # {}
      PROVE  L(w) \in F(w) /\ \A j \in F(w) : L(w) <= j
  <2>1. F(w) \in SUBSET Nat
    BY <1>2
  <2>2. \E k \in F(w) : \A j \in F(w) : k <= j
    <3> HIDE DEF F
    <3> QED
      BY <1>5, <2>1, Least
  <2> QED
    BY <2>2
<1>6. \A w : \A k \in F(w) : k \in 1..n
  BY <1>2
<1>7. lv \in [Windows -> Levels]
  <2>1. \A w \in Windows : exists[w] /\ F(w) # {} => chain[L(w)].entry \in Levels
    <3> HIDE DEF F, L
    <3> QED
      BY <1>3, <1>5, <1>6
  <2> HIDE DEF F, L, lv
  <2> QED
    BY <1>4, <2>1 DEF WindowsOK
<1>8. ASSUME NEW w, NEW m \in p - 1..n, \A k \in p..m : chain[k].window # w
      PROVE  Held(chain, m, w) <=> Held(chain, p - 1, w)
  <2>1. \A k \in 1..p - 1 : k \in 1..m
    BY <1>2
  <2>2. \A k \in 1..m : k \in 1..p - 1 \/ k \in p..m
    BY <1>2
  <2> QED
    BY <1>8, <2>1, <2>2 DEF Held
<1>9. \A m \in 0..p - 1 : \A w : Held(d, m, w) <=> Held(chain, m, w)
  <2> TAKE m \in 0..p - 1
  <2> TAKE w
  <2>1. \A k \in 1..m : k \in 1..p - 1
    BY <1>2
  <2> HIDE DEF d
  <2> QED
    BY <1>1, <2>1 DEF Held
<1>10. ASSUME NEW w \in Windows, exists[w]
       PROVE  lv[w] = IF w \in Panels /\ Held(chain, p - 1, w) THEN "modal" ELSE "normal"
  <2>1. CASE F(w) = {}
    <3>1. lv[w] = level[w]
      <4> HIDE DEF F, lv
      <4> QED
        BY <1>4, <2>1
    <3>2. \A k \in p..n : chain[k].window # w
      BY <2>1
    <3>3. Held(chain, n, w) <=> Held(chain, p - 1, w)
      BY <1>2, <1>8, <3>2
    <3> QED
      BY <1>10, <3>1, <3>3 DEF LevelsOK
  <2>2. CASE F(w) # {}
    <3> DEFINE l == L(w)
    <3>1. lv[w] = chain[l].entry
      <4> HIDE DEF F, L, lv
      <4> QED
        BY <1>4, <1>10, <2>2
    <3>2. l \in F(w) /\ \A j \in F(w) : l <= j
      BY <1>5, <2>2
    <3> HIDE DEF l, L
    <3>3. l \in p..n /\ chain[l].window = w /\ l \in 1..n /\ l - 1 \in p - 1..n
      BY <1>2, <3>2
    <3>4. \A k \in p..l - 1 : chain[k].window # w
      <4> SUFFICES ASSUME NEW k \in p..l - 1, chain[k].window = w PROVE FALSE
        OBVIOUS
      <4>1. k \in p..n /\ k < l
        BY <1>2, <3>3
      <4>2. k \in F(w)
        BY <4>1
      <4> HIDE DEF F
      <4> QED
        BY <1>2, <3>2, <3>3, <4>1, <4>2
    <3>5. Held(chain, l - 1, w) <=> Held(chain, p - 1, w)
      BY <1>8, <3>3, <3>4
    <3> HIDE DEF F, lv
    <3> QED
      BY <1>10, <3>1, <3>3, <3>5 DEF LevelsOK
  <2> QED
    BY <2>1, <2>2
<1> HIDE DEF d, lv, F, L
<1>11. \A k \in 1..p - 1 : k \in 1..n /\ k - 1 \in 0..p - 1
  BY <1>2
<1>12. p - 1 \in 0..p - 1
  BY <1>2
<1>13. LevelsOK(d, exists, lv)
  BY <1>1, <1>9, <1>10, <1>11, <1>12 DEF LevelsOK, n
<1> QED
  BY <1>7, <1>13 DEF d, lv

\* A window that is closed may leave -windows, and none comes back.
LEMMA ClosedLevels ==
    ASSUME NEW c, ChainOK(c), NEW lv, LevelsOK(c, exists, lv), WindowsOK,
           NEW w \in Windows
    PROVE  /\ ExistsAfterClose(w) \in [Windows -> BOOLEAN]
           /\ LevelsOK(c, ExistsAfterClose(w), lv)
<1> DEFINE ex == ExistsAfterClose(w)
<1>1. ex \in [Windows -> BOOLEAN] /\ \A x \in Windows : ex[x] => exists[x]
  BY DEF ExistsAfterClose, WindowsOK
<1>2. \A k \in 1..Len(c) : c[k].window \in Windows
  BY SessionFields DEF ChainOK
<1> HIDE DEF ex
<1>3. LevelsOK(c, ex, lv)
  BY <1>1, <1>2 DEF LevelsOK
<1> QED
  BY <1>1, <1>3 DEF ex

LEMMA FrontAgainType ==
    ASSUME NEW c, ChainOK(c), WindowsOK
    PROVE  FrontAgain(c) \in [Windows -> BOOLEAN]
BY DEF FrontAgain, WindowsOK

-----------------------------------------------------------------------------
(* The steps.                                                              *)

\* A step that begins and ends neither a session nor a loop.
LEMMA Calm ==
    ASSUME IInv, SameChain(chain, chain'), SameStack(stack, stack'),
           UNCHANGED windowVars, RestOK'
    PROVE  IInv'
<1>1. ChainOK(chain') /\ StackOK(stack') /\ NestOK(chain', stack')
  BY SameShape DEF IInv
<1>2. LevelsOK(chain', exists, level)
  BY SameLevels DEF IInv
<1>3. WindowsOK' /\ LevelsOK(chain', exists', level')
  BY <1>2 DEF IInv, WindowsOK, windowVars
<1> QED
  BY <1>1, <1>3 DEF IInv

LEMMA Unchanged ==
    ASSUME IInv
    PROVE  /\ (chain' = chain => SameChain(chain, chain'))
           /\ (stack' = stack => SameStack(stack, stack'))
BY SameItself DEF IInv

\* A loop goes on: to the next event, into a handler or back from it.
LEMMA GoesOn ==
    ASSUME IInv, stack # <<>>, NEW pc \in Places,
           Goto(pc), UNCHANGED <<running, windowVars>>, SameChain(chain, chain'),
           exc' \in {exc, "none"}, queue' = queue \/ (queue # <<>> /\ queue' = Tail(queue))
    PROVE  IInv'
<1>1. SameStack(stack, stack') /\ stack' # <<>>
  BY GotoSame DEF IInv
<1>2. queue' \in Seq(Event) /\ Len(queue') <= MaxQueue + 1
  BY DEF IInv, RestOK
<1>3. RestOK'
  BY <1>1, <1>2 DEF IInv, RestOK
<1> QED
  BY <1>1, <1>3, Calm

LEMMA RunLoopStep ==
    ASSUME IInv, RunLoop PROVE IInv'
<1>1. /\ stack # <<>> /\ exc = "none" /\ Top.kind = "run" /\ chain' = chain
      /\ UNCHANGED <<exc, queue, running, windowVars>>
  BY DEF RunLoop, InLoop
<1>2. CASE running
  <2>1. Goto("wait") /\ "wait" \in Places
    BY <1>2 DEF RunLoop, Places
  <2> QED
    BY <1>1, <2>1, GoesOn, Unchanged
<1>3. CASE ~running
  <2>1. stack' = <<>>
    BY <1>3 DEF RunLoop
  <2>2. Len(stack) = 1
    <3>1. StackOK(stack)
      BY DEF IInv
    <3>2. Len(stack) \in 1..Len(stack) /\ stack[Len(stack)].kind = "run"
      BY <1>1, <3>1 DEF StackOK, Top
    <3> QED
      BY <3>1, <3>2 DEF StackOK
  <2>3. StackOK(<<>>)
    BY DEF StackOK
  <2>4. HaveSessions(chain, <<>>) /\ InOrder(chain, <<>>) /\ AppOwns(chain, <<>>)
    BY DEF HaveSessions, InOrder, AppOwns
  <2>5. LoopsRun(chain, stack)
    BY DEF IInv, NestOK
  <2>6. LoopsRun(chain, <<>>)
    BY <2>2, <2>5 DEF LoopsRun
  <2>7. RestOK' /\ WindowsOK' /\ LevelsOK(chain', exists', level')
    BY <1>1 DEF IInv, RestOK, WindowsOK, windowVars
  <2> QED
    BY <1>1, <2>1, <2>3, <2>4, <2>6, <2>7 DEF IInv, NestOK
<1> QED
  BY <1>2, <1>3

LEMMA DispatchStep ==
    ASSUME IInv, RunDispatch \/ ModalDispatch PROVE IInv'
<1>1. /\ stack # <<>> /\ exc' = exc /\ queue # <<>> /\ queue' = Tail(queue)
      /\ UNCHANGED <<running, windowVars>> /\ SameChain(chain, chain')
  BY Unchanged DEF RunDispatch, ModalDispatch, InLoop
<1>2. CASE \E pc \in {"poll", "handler"} : Goto(pc)
  BY <1>1, <1>2, GoesOn DEF Places
<1>3. CASE stack' = stack
  <2>1. RestOK'
    BY <1>1, <1>3 DEF IInv, RestOK
  <2> QED
    BY <1>1, <1>3, <2>1, Calm, Unchanged
<1>4. (\E pc \in {"poll", "handler"} : Goto(pc)) \/ stack' = stack
  BY DEF RunDispatch, ModalDispatch
<1> QED
  BY <1>2, <1>3, <1>4

LEMMA WaitStep ==
    ASSUME IInv, \/ ModalWait \/ ModalWakeUp \/ TimerFires
                 \/ CallbackReturns \/ CaughtByTimer
    PROVE  IInv'
<1>1. stack # <<>>
  BY DEF ModalWait, ModalWakeUp, TimerFires, CallbackReturns, CaughtByTimer,
         LoopDone, InLoop, InApplication, IInv, RestOK
<1>2. \E pc \in Places : Goto(pc)
  BY DEF ModalWait, ModalWakeUp, TimerFires, CallbackReturns, CaughtByTimer, TimerOver, Places
<1>3. /\ exc' \in {exc, "none"} /\ queue' = queue /\ chain' = chain
      /\ UNCHANGED <<running, windowVars>>
  BY DEF ModalWait, ModalWakeUp, TimerFires, CallbackReturns, CaughtByTimer
<1> QED
  BY <1>1, <1>2, <1>3, GoesOn, Unchanged

LEMMA HandlerReturnsStep ==
    ASSUME IInv, HandlerReturns PROVE IInv'
<1>1. /\ stack # <<>> /\ exc' = exc /\ queue' = queue /\ Goto("poll")
      /\ UNCHANGED <<running, windowVars>>
  BY DEF HandlerReturns, InApplication
<1>2. SameChain(chain, chain')
  <2>1. Stopped("stopped") \/ chain' = chain
    BY DEF HandlerReturns
  <2>2. ChainOK(chain) /\ "stopped" \in Codes
    BY DEF IInv, Codes
  <2> QED
    BY <2>1, <2>2, StoppedSame, Unchanged
<1>3. "poll" \in Places
  BY DEF Places
<1> QED
  BY <1>1, <1>2, <1>3, GoesOn

\* Steps that change what is neither in the chain nor in the stack, or a code.
LEMMA ExceptionStep ==
    ASSUME IInv, SessionChanged \/ CaughtByHandler \/ RaiseException PROVE IInv'
<1>1. /\ chain' = chain /\ stack' = stack /\ UNCHANGED windowVars
      /\ queue' = queue /\ running' = running /\ exc' \in {"none", "abort", "other"}
  BY DEF SessionChanged, CaughtByHandler, RaiseException
<1>2. stack # <<>>
  BY DEF SessionChanged, CaughtByHandler, RaiseException,
         LoopDone, InLoop, InApplication, IInv, RestOK
<1>3. RestOK'
  BY <1>1, <1>2 DEF IInv, RestOK
<1> QED
  BY <1>1, <1>3, Calm, Unchanged

LEMMA StopStep ==
    ASSUME IInv, (\E code \in Codes : stopModalWithCode(code)) \/ stop
    PROVE  IInv'
<1>1. SameChain(chain, chain')
  <2>1. (\E code \in Codes : Stopped(code)) \/ chain' = chain
    BY DEF stopModalWithCode, stop, Codes
  <2>2. ChainOK(chain)
    BY DEF IInv
  <2> QED
    BY <2>1, <2>2, StoppedSame, Unchanged
<1>2. stack' = stack /\ exc' = exc /\ UNCHANGED windowVars
  BY DEF stopModalWithCode, stop
<1>3. queue' \in Seq(Event) /\ Len(queue') <= MaxQueue + 1
  <2>1. NullEvent \in Event
    BY DEF NullEvent, Event
  <2>2. queue' \in {queue, WithNullEvent}
    BY DEF stopModalWithCode, stop
  <2> QED
    BY <2>1, <2>2 DEF WithNullEvent, IInv, RestOK
<1>4. running' \in BOOLEAN
  BY DEF stopModalWithCode, stop, IInv, RestOK
<1>5. RestOK'
  BY <1>2, <1>3, <1>4 DEF IInv, RestOK
<1> QED
  BY <1>1, <1>2, <1>5, Calm, Unchanged

\* The other thread tests the innermost session ...
LEMMA ThreadTestStep ==
    ASSUME IInv, NEW code \in Codes, StopFromThread(code)
    PROVE  IInv' /\ ThreadOK'
<1>1. /\ chain' = chain /\ stack' = stack /\ UNCHANGED windowVars /\ RestOK'
  BY DEF StopFromThread, IInv, RestOK
<1>2. IInv'
  BY <1>1, Calm, Unchanged
<1>3. Innermost.id \in Sessions
  <2>1. ChainOK(chain) /\ chain # <<>>
    BY DEF IInv, StopFromThread, TakesCode
  <2>2. Innermost \in Session
    BY <2>1 DEF Innermost, ChainOK
  <2> QED
    BY <2>2, SessionFields
<1>4. ThreadOK'
  BY <1>3 DEF ThreadOK, StopFromThread
<1> QED
  BY <1>2, <1>4

\* ... and writes to one that may be another, or to none.
LEMMA ThreadStoreStep ==
    ASSUME IInv, ThreadOK, StoreFromThread
    PROVE  IInv' /\ ThreadOK'
<1>1. ThreadOK' /\ UNCHANGED <<queue, running, windowVars>>
  BY DEF ThreadOK, StoreFromThread
<1>2. PICK code \in Codes : threadStop.code = code
  BY DEF ThreadOK, StoreFromThread
<1>3. ChainOK(chain) /\ DOMAIN chain = 1..Len(chain) /\ Len(chain) \in Nat
  BY DEF IInv, ChainOK
<1>4. CASE SameChain(chain, chain') /\ UNCHANGED <<stack, exc>>
  <2>1. RestOK'
    BY <1>1, <1>4 DEF IInv, RestOK
  <2> QED
    BY <1>1, <1>4, <2>1, Calm, Unchanged
<1>5. CASE /\ chain' = [k \in DOMAIN chain |->
                          IF chain[k].id = threadStop.id
                          THEN [chain[k] EXCEPT !.state = threadStop.code] ELSE chain[k]]
           /\ UNCHANGED <<stack, exc>>
  <2>1. /\ DOMAIN chain' = 1..Len(chain)
        /\ \A k \in 1..Len(chain) :
              chain'[k] = chain[k] \/ chain'[k] = [chain[k] EXCEPT !.state = code]
    BY <1>2, <1>3, <1>5
  <2>2. Len(chain') = Len(chain) /\ chain' = [k \in DOMAIN chain' |-> chain'[k]]
    BY <1>3, <1>5, <2>1
  <2>3. SameChain(chain, chain')
    BY <1>3, <2>1, <2>2, StatesSame
  <2> QED
    BY <1>4, <1>5, <2>3
<1>6. CASE /\ chain # <<>> /\ chain' = [chain EXCEPT ![Len(chain)].state = threadStop.code]
           /\ UNCHANGED <<stack, exc>>
  <2>1. /\ DOMAIN chain' = 1..Len(chain)
        /\ \A k \in 1..Len(chain) :
              chain'[k] = chain[k] \/ chain'[k] = [chain[k] EXCEPT !.state = code]
    BY <1>2, <1>3, <1>6
  <2>2. chain' = [k \in DOMAIN chain' |-> chain'[k]]
    BY <1>6
  <2>3. Len(chain') = Len(chain)
    <3>1. chain' \in Seq(Session)
      <4>1. chain \in [1..Len(chain) -> Session]
        BY <1>3 DEF ChainOK
      <4>2. \A k \in 1..Len(chain) : chain'[k] \in Session
        BY <1>2, <2>1, <4>1 DEF Session
      <4>3. chain' \in [1..Len(chain) -> Session]
        BY <2>1, <2>2, <4>2
      <4> QED
        BY <1>3, <4>3
    <3> QED
      BY <1>3, <2>1, <3>1
  <2>4. SameChain(chain, chain')
    BY <1>3, <2>1, <2>2, <2>3, StatesSame
  <2> QED
    BY <1>4, <1>6, <2>4
<1>7. CASE chain = <<>> /\ stack' = <<>> /\ exc' = "none" /\ chain' = chain
  <2>1. StackOK(<<>>) /\ Len(chain) = 0
    BY <1>7 DEF StackOK
  <2>2. NestOK(chain, <<>>)
    BY <2>1 DEF NestOK, HaveSessions, InOrder, LoopsRun, AppOwns
  <2>3. RestOK' /\ WindowsOK' /\ LevelsOK(chain', exists', level')
    BY <1>1, <1>7 DEF IInv, RestOK, WindowsOK, windowVars
  <2> QED
    BY <1>1, <1>3, <1>7, <2>1, <2>2, <2>3 DEF IInv
<1> QED
  BY <1>5, <1>6, <1>7 DEF StoreFromThread

LEMMA PostEventStep ==
    ASSUME IInv, NEW e \in Event, PostEvent(e) PROVE IInv'
<1>1. /\ chain' = chain /\ stack' = stack /\ UNCHANGED windowVars
      /\ exc' = exc /\ running' = running
  BY DEF PostEvent
<1>2. queue' \in Seq(Event) /\ Len(queue') <= MaxQueue + 1
  BY DEF PostEvent, IInv, RestOK
<1>3. RestOK'
  BY <1>1, <1>2 DEF IInv, RestOK
<1> QED
  BY <1>1, <1>3, Calm, Unchanged

LEMMA WindowStep ==
    ASSUME IInv, NEW w \in Windows, close(w) \/ orderFront(w) PROVE IInv'
<1>1. /\ chain' = chain /\ stack' = stack /\ level' = level
      /\ UNCHANGED <<exc, queue, running>>
  BY DEF close, orderFront
<1>2. visible' \in [Windows -> BOOLEAN]
  BY DEF close, orderFront, IInv, WindowsOK
<1>3. exists' \in {exists, ExistsAfterClose(w)}
  BY DEF close, orderFront
<1>4. exists' \in [Windows -> BOOLEAN] /\ LevelsOK(chain, exists', level)
  BY <1>3, ClosedLevels DEF IInv, WindowsOK
<1>5. WindowsOK' /\ RestOK'
  BY <1>1, <1>2, <1>4 DEF IInv, WindowsOK, RestOK
<1> QED
  BY <1>1, <1>4, <1>5 DEF IInv

-----------------------------------------------------------------------------
(* The steps that begin and end sessions and loops.                        *)

\* The loop at the top of the stack has its session in the chain.
LEMMA TopSession ==
    ASSUME IInv, stack # <<>>, Top.kind # "run"
    PROVE  \E p \in 1..Len(chain) : chain[p].id = Top.id
<1>1. StackOK(stack) /\ HaveSessions(chain, stack)
  BY DEF IInv, NestOK
<1>2. Len(stack) \in 2..Len(stack)
  BY <1>1 DEF StackOK, Top
<1> QED
  BY <1>1, <1>2 DEF HaveSessions, Top

\* -endModalSession: keeps the levels right and the windows typed.
LEMMA EndedWindows ==
    ASSUME IInv, NEW p \in 1..Len(chain), level' = Restored(chain[p].id)
    PROVE  /\ level' \in [Windows -> Levels]
           /\ LevelsOK(Remaining(chain[p].id), exists, level')
           /\ ChainOK(Remaining(chain[p].id))
           /\ FrontAgain(Remaining(chain[p].id)) \in [Windows -> BOOLEAN]
<1>1. ChainOK(chain) /\ WindowsOK /\ LevelsOK(chain, exists, level)
  BY DEF IInv
<1>2. ChainOK(Remaining(chain[p].id))
  BY <1>1, RemainingChain
<1> QED
  BY <1>1, <1>2, RestoredLevels, FrontAgainType

LEMMA SessionReturnsStep ==
    ASSUME IInv, stack # <<>>, Top.kind = "session", stack' = Pop,
           UNCHANGED <<chain, exc, queue, running, windowVars>>
    PROVE  IInv'
<1>1. StackOK(Pop) /\ Pop # <<>> /\ NestOK(chain, Pop)
  BY PopStack, PopNest DEF IInv
<1>2. RestOK' /\ WindowsOK' /\ LevelsOK(chain', exists', level')
  BY <1>1 DEF IInv, RestOK, WindowsOK, windowVars
<1> QED
  BY <1>1, <1>2 DEF IInv

LEMMA ModalReturnsStep ==
    ASSUME IInv, ModalReturns PROVE IInv'
<1>1. /\ stack # <<>> /\ Top.kind = "window" /\ stack' = Pop
      /\ UNCHANGED <<exc, queue, running, exists>>
  BY DEF ModalReturns, LoopDone, InLoop
<1>2. PICK p \in 1..Len(chain) : chain[p].id = Top.id
  BY <1>1, TopSession
<1>3. /\ chain' = Remaining(chain[p].id) /\ level' = Restored(chain[p].id)
      /\ visible' = FrontAgain(Remaining(chain[p].id))
  BY <1>2 DEF ModalReturns, Ended
<1>4. StackOK(Pop) /\ Pop # <<>> /\ NestOK(Remaining(chain[p].id), Pop)
  BY <1>1, <1>2, PopStack, PopRemainingNest DEF IInv
<1>5. ChainOK(chain') /\ LevelsOK(chain', exists, level') /\ WindowsOK'
  BY <1>1, <1>3, EndedWindows DEF IInv, WindowsOK
<1>6. RestOK'
  BY <1>1, <1>4 DEF IInv, RestOK
<1> QED
  BY <1>1, <1>3, <1>4, <1>5, <1>6 DEF IInv

LEMMA UnwindStep ==
    ASSUME IInv, Unwind PROVE IInv'
<1>1. stack # <<>> /\ UNCHANGED <<queue, running>>
  BY DEF Unwind, IInv, RestOK
<1>2. CASE Top.kind = "run"
  <2>1. Goto("poll") /\ exc' = "none" /\ UNCHANGED <<chain, windowVars>>
    BY <1>2 DEF Unwind
  <2>2. "poll" \in Places
    BY DEF Places
  <2> QED
    BY <1>1, <2>1, <2>2, GoesOn, Unchanged
<1>3. CASE Top.kind = "session"
  <2>1. stack' = Pop /\ UNCHANGED <<chain, exc, windowVars>>
    BY <1>3 DEF Unwind
  <2> QED
    BY <1>1, <1>3, <2>1, SessionReturnsStep
<1>4. CASE Top.kind = "window"
  <2>1. PICK p \in 1..Len(chain) : chain[p].id = Top.id
    BY <1>1, <1>4, TopSession
  <2> DEFINE w == SessionOf(Top.id).window
             d == Remaining(chain[p].id)
  <2>2. /\ chain' = d /\ level' = Restored(chain[p].id)
        /\ visible' = [FrontAgain(d) EXCEPT ![w] = FALSE]
        /\ exists' = ExistsAfterClose(w)
        /\ stack' = Pop /\ exc' \in {exc, "none"}
    BY <1>4, <2>1 DEF Unwind
  <2>3. w \in Windows
    <3>1. SessionOf(Top.id) = chain[p]
      BY <2>1, PositionIs DEF SessionOf, IInv
    <3> QED
      BY <3>1, SessionFields DEF IInv, ChainOK
  <2>4. StackOK(Pop) /\ Pop # <<>> /\ NestOK(d, Pop)
    BY <1>1, <1>4, <2>1, PopStack, PopRemainingNest DEF IInv
  <2>5. /\ level' \in [Windows -> Levels] /\ LevelsOK(d, exists, level')
        /\ ChainOK(d) /\ FrontAgain(d) \in [Windows -> BOOLEAN]
    BY <2>2, EndedWindows
  <2> HIDE DEF w, d
  <2>6. exists' \in [Windows -> BOOLEAN] /\ LevelsOK(d, exists', level')
    BY <2>2, <2>3, <2>5, ClosedLevels DEF IInv
  <2>7. WindowsOK'
    BY <2>2, <2>5, <2>6 DEF WindowsOK
  <2>8. RestOK'
    BY <1>1, <2>2, <2>4 DEF IInv, RestOK
  <2> QED
    BY <2>2, <2>4, <2>5, <2>6, <2>7, <2>8 DEF IInv
<1> QED
  BY <1>2, <1>3, <1>4 DEF Unwind

LEMMA endModalSessionStep ==
    ASSUME IInv, NEW id \in Sessions, endModalSession(id) PROVE IInv'
<1>1. /\ ChainOK(chain) /\ StackOK(stack) /\ NestOK(chain, stack) /\ InChain(id)
      /\ UNCHANGED <<stack, exc, queue, running, exists>>
  BY DEF endModalSession, IInv
<1>2. Position(id) \in 1..Len(chain) /\ chain[Position(id)].id = id
  BY <1>1, InChainPosition
<1>3. PICK p \in 1..Len(chain) : p = Position(id) /\ chain[p].id = id
  BY <1>2
<1>4. /\ chain' = Remaining(chain[p].id) /\ level' = Restored(chain[p].id)
      /\ visible' = FrontAgain(Remaining(chain[p].id))
  BY <1>3 DEF endModalSession, Ended
<1>5. \A k \in p..Len(chain), j \in 2..Len(stack) : stack[j].id # chain[k].id
  <2>1. \A k \in p..Len(chain) : ~InStack(chain[k].id)
    BY <1>3 DEF endModalSession
  <2>2. DOMAIN stack = 1..Len(stack) /\ \A j \in 2..Len(stack) : j \in 1..Len(stack)
    BY <1>1 DEF StackOK
  <2> QED
    BY <2>1, <2>2 DEF InStack
<1>6. NestOK(Remaining(chain[p].id), stack)
  BY <1>1, <1>5, RemainingNest
<1>7. ChainOK(chain') /\ LevelsOK(chain', exists, level') /\ WindowsOK'
  BY <1>1, <1>4, EndedWindows DEF IInv, WindowsOK
<1>8. RestOK'
  BY <1>1 DEF IInv, RestOK
<1> QED
  BY <1>1, <1>4, <1>6, <1>7, <1>8 DEF IInv

\* -beginModalSessionForWindow: keeps the chain and the levels right.
LEMMA BegunOK ==
    ASSUME IInv, Len(chain) < MaxSessions, NEW w \in Windows, exists[w],
           NEW owner \in {"loop", "app"}, Begun(w, owner)
    PROVE  /\ ChainOK(chain') /\ LevelsOK(chain', exists', level') /\ WindowsOK'
           /\ \E e \in Session : /\ chain' = Append(chain, e) /\ ~InChain(e.id)
                                 /\ e.id = Fresh /\ e.owner = owner
<1> DEFINE e == [id |-> Fresh, window |-> w, entry |-> level[w],
                 state |-> "continues", owner |-> owner]
<1>1. /\ ChainOK(chain) /\ StackOK(stack) /\ NestOK(chain, stack)
      /\ WindowsOK /\ LevelsOK(chain, exists, level)
  BY DEF IInv
<1>2. Fresh \in Sessions /\ ~InChain(Fresh)
  BY <1>1, FreshIsNew
<1>3. /\ chain' = Append(chain, e) /\ exists' = exists
      /\ level' = IF w \in Panels THEN [level EXCEPT ![w] = "modal"] ELSE level
      /\ visible' = [visible EXCEPT ![w] = TRUE]
  BY DEF Begun
<1>4. /\ e \in Session /\ e.id = Fresh /\ e.owner = owner
      /\ e.window = w /\ e.entry = level[w]
  BY <1>1, <1>2 DEF Session, WindowsOK
<1> HIDE DEF e
<1>5. ChainOK(Append(chain, e))
  BY <1>1, <1>2, <1>4, LongerChain
<1>6. level' \in [Windows -> Levels] /\ visible' \in [Windows -> BOOLEAN]
  BY <1>1, <1>3 DEF WindowsOK, Levels
<1>7. WindowsOK'
  BY <1>1, <1>3, <1>6 DEF WindowsOK
<1>8. LevelsOK(Append(chain, e), exists, level')
  BY <1>1, <1>2, <1>3, <1>4, <1>6, BegunLevels
<1> QED
  BY <1>2, <1>3, <1>4, <1>5, <1>7, <1>8

LEMMA beginModalSessionStep ==
    ASSUME IInv, NEW w \in Windows, beginModalSessionForWindow(w) PROVE IInv'
<1>1. /\ Len(chain) < MaxSessions /\ exists[w] /\ Begun(w, "app")
      /\ UNCHANGED <<stack, exc, queue, running>>
  BY DEF beginModalSessionForWindow
<1>2. "app" \in {"loop", "app"}
  OBVIOUS
<1>3. ChainOK(chain') /\ LevelsOK(chain', exists', level') /\ WindowsOK'
  BY <1>1, <1>2, BegunOK
<1>4. PICK e \in Session : /\ chain' = Append(chain, e) /\ ~InChain(e.id)
                           /\ e.owner = "app"
  BY <1>1, <1>2, BegunOK
<1>5. NestOK(chain', stack)
  BY <1>1, <1>4, BegunNest DEF IInv
<1>6. RestOK'
  BY <1>1 DEF IInv, RestOK
<1> QED
  BY <1>1, <1>3, <1>5, <1>6 DEF IInv

LEMMA runModalForWindowStep ==
    ASSUME IInv, NEW w \in Windows, runModalForWindow(w) PROVE IInv'
<1>1. /\ Len(chain) < MaxSessions /\ Len(stack) < MaxFrames /\ stack # <<>>
      /\ exists[w] /\ Begun(w, "loop")
      /\ stack' = Push("window", Fresh) /\ UNCHANGED <<exc, queue, running>>
  BY DEF runModalForWindow, InApplication
<1>2. "loop" \in {"loop", "app"}
  OBVIOUS
<1>3. ChainOK(chain') /\ LevelsOK(chain', exists', level') /\ WindowsOK'
  BY <1>1, <1>2, BegunOK
<1>4. PICK e \in Session : /\ chain' = Append(chain, e) /\ ~InChain(e.id)
                           /\ e.id = Fresh
  BY <1>1, <1>2, BegunOK
<1> DEFINE f == [kind |-> "window", id |-> Fresh, pc |-> "poll"]
<1>5. /\ f \in Frame /\ f.kind = "window" /\ f.id = e.id /\ f.id # None
      /\ stack' = Append(stack, f)
  <2>1. Fresh \in Sessions
    BY <1>4, SessionFields
  <2>2. Fresh # None
    BY <2>1 DEF Sessions
  <2> QED
    BY <1>1, <1>4, <2>1, <2>2 DEF Frame, Push
<1> HIDE DEF f
<1>6. NestOK(chain', stack')
  BY <1>1, <1>4, <1>5, BegunRunNest DEF IInv
<1>7. StackOK(stack') /\ stack' # <<>>
  BY <1>1, <1>5, LongerStack DEF IInv
<1>8. RestOK'
  BY <1>1, <1>7 DEF IInv, RestOK
<1> QED
  BY <1>3, <1>6, <1>7, <1>8 DEF IInv

LEMMA runModalSessionStep ==
    ASSUME IInv, runModalSession PROVE IInv'
<1>1. /\ stack # <<>> /\ chain # <<>> /\ Len(stack) < MaxFrames
      /\ Innermost.owner = "app" /\ ~InStack(Innermost.id)
      /\ stack' = Push("session", Innermost.id)
      /\ UNCHANGED <<chain, exc, queue, running, windowVars>>
  BY DEF runModalSession, InApplication
<1>2. ChainOK(chain) /\ StackOK(stack) /\ NestOK(chain, stack)
  BY DEF IInv
<1> DEFINE f == [kind |-> "session", id |-> Innermost.id, pc |-> "poll"]
<1>3. /\ f \in Frame /\ f.kind = "session" /\ f.id = Innermost.id /\ f.id # None
      /\ stack' = Append(stack, f)
  <2>1. Innermost \in Session
    BY <1>1, <1>2 DEF Innermost, ChainOK
  <2>2. Innermost.id \in Sessions
    BY <2>1, SessionFields
  <2>3. Innermost.id # None
    BY <2>2 DEF Sessions
  <2> QED
    BY <1>1, <2>2, <2>3 DEF Frame, Push
<1> HIDE DEF f
<1>4. \A k \in 2..Len(stack) : stack[k].id # Innermost.id
  <2>1. DOMAIN stack = 1..Len(stack) /\ \A j \in 2..Len(stack) : j \in 1..Len(stack)
    BY <1>2 DEF StackOK
  <2> QED
    BY <1>1, <2>1 DEF InStack
<1>5. NestOK(chain, stack')
  BY <1>1, <1>2, <1>3, <1>4, PushNest
<1>6. StackOK(stack') /\ stack' # <<>>
  BY <1>1, <1>2, <1>3, LongerStack
<1>7. RestOK' /\ WindowsOK' /\ LevelsOK(chain', exists', level')
  BY <1>1, <1>6 DEF IInv, RestOK, WindowsOK, windowVars
<1> QED
  BY <1>1, <1>2, <1>5, <1>6, <1>7 DEF IInv

LEMMA InitInv == Init => IInv
<1> SUFFICES ASSUME Init PROVE IInv
  OBVIOUS
<1>1. ChainOK(chain) /\ chain = <<>> /\ Len(chain) = 0
  BY DEF Init, ChainOK
<1>2. StackOK(stack) /\ Len(stack) = 1
  BY DEF Init, StackOK, Frame
<1>3. NestOK(chain, stack)
  BY <1>1, <1>2 DEF NestOK, HaveSessions, InOrder, LoopsRun, AppOwns
<1>4. WindowsOK /\ RestOK
  BY DEF Init, WindowsOK, RestOK, Levels
<1>5. LevelsOK(chain, exists, level)
  BY <1>1 DEF Init, LevelsOK, Held
<1> QED
  BY <1>1, <1>2, <1>3, <1>4, <1>5 DEF IInv

\* No step of the main thread touches what the other thread is doing.
LEMMA MainSteps ==
    ASSUME LoopStep \/ HandlerReturns \/ TimerReturns \/ CaughtByHandler \/ ApplicationCall
    PROVE  threadStop' = threadStop
<1>1. CASE LoopStep
  BY <1>1 DEF LoopStep, RunLoop, RunDispatch, ModalDispatch, SessionChanged, SessionReturns,
     ModalWait, ModalWakeUp, ModalReturns, Unwind
<1>2. CASE HandlerReturns \/ TimerReturns \/ CaughtByHandler
  BY <1>2 DEF HandlerReturns, TimerReturns, CallbackReturns, CaughtByTimer, CaughtByHandler
<1>3. CASE ApplicationCall
  BY <1>3 DEF ApplicationCall, runModalForWindow, beginModalSessionForWindow, close,
     orderFront, runModalSession, endModalSession, stopModalWithCode, stop, RaiseException
<1> QED
  BY <1>1, <1>2, <1>3

LEMMA StepInv == IInv /\ ThreadOK /\ [Next]_vars => IInv' /\ ThreadOK'
<1> SUFFICES ASSUME IInv, ThreadOK, [Next]_vars PROVE IInv' /\ ThreadOK'
  OBVIOUS
<1>1. CASE LoopStep
  <2>1. CASE SessionReturns
    <3>1. /\ stack # <<>> /\ Top.kind = "session" /\ stack' = Pop
          /\ UNCHANGED <<chain, exc, queue, running, windowVars>>
      BY <2>1 DEF SessionReturns, LoopDone, InLoop
    <3> QED
      BY <1>1, <3>1, SessionReturnsStep, MainSteps DEF ThreadOK
  <2> QED
    BY <1>1, <2>1, RunLoopStep, DispatchStep, ExceptionStep, WaitStep,
       ModalReturnsStep, UnwindStep, MainSteps DEF LoopStep, ThreadOK
<1>2. CASE HandlerReturns \/ TimerReturns \/ CaughtByHandler
  BY <1>2, HandlerReturnsStep, WaitStep, ExceptionStep, MainSteps DEF TimerReturns, ThreadOK
<1>3. CASE ApplicationCall
  BY <1>3, runModalForWindowStep, beginModalSessionStep, WindowStep, runModalSessionStep,
     endModalSessionStep, StopStep, ExceptionStep, MainSteps DEF ApplicationCall, ThreadOK
<1>4. CASE Environment
  <2>1. CASE (\E e \in Event : PostEvent(e)) \/ TimerFires
    <3>1. threadStop' = threadStop
      BY <2>1 DEF PostEvent, TimerFires
    <3> QED
      BY <2>1, <3>1, PostEventStep, WaitStep DEF ThreadOK
  <2> QED
    BY <1>4, <2>1, ThreadTestStep, ThreadStoreStep DEF Environment
<1>5. CASE UNCHANGED vars
  BY <1>5 DEF vars, windowVars, IInv, WindowsOK, RestOK, ThreadOK
<1> QED
  BY <1>1, <1>2, <1>3, <1>4, <1>5 DEF Next, Terminated

LEMMA Invariance == Spec => [](IInv /\ ThreadOK)
<1>1. Init => IInv /\ ThreadOK
  BY InitInv DEF Init, ThreadOK
<1> QED
  BY <1>1, StepInv, PTL DEF Spec

-----------------------------------------------------------------------------
(* The theorems.                                                           *)

\* The loop state of NSApplication has its types and -run is the outermost loop
\* of the stack, for any number of windows, sessions, loops and events.
THEOREM TypesOK == Spec => []TypeOK
<1>1. IInv /\ ThreadOK => TypeOK
  <2> SUFFICES ASSUME IInv, ThreadOK PROVE TypeOK
    OBVIOUS
  <2>1. DOMAIN stack = 1..Len(stack)
    BY DEF IInv, StackOK
  <2> QED
    BY <2>1 DEF TypeOK, IInv, ChainOK, StackOK, WindowsOK, RestOK, ThreadOK
<1> QED
  BY <1>1, Invariance, PTL

\* However loops end, -endModalSession: leaves in the chain the sessions of the
\* loops that still run, nested as these are.
THEOREM SessionsMatch == Spec => []SessionsMatchLoops
<1>1. IInv => SessionsMatchLoops
  <2> SUFFICES ASSUME IInv PROVE SessionsMatchLoops
    OBVIOUS
  <2>1. /\ ChainOK(chain) /\ StackOK(stack) /\ HaveSessions(chain, stack)
        /\ InOrder(chain, stack) /\ LoopsRun(chain, stack)
    BY DEF IInv, NestOK
  <2>2. /\ DOMAIN stack = 1..Len(stack) /\ DOMAIN chain = 1..Len(chain)
        /\ \A j \in 2..Len(stack) : j \in 1..Len(stack)
    BY <2>1 DEF StackOK, ChainOK
  <2>3. \A k \in 1..Len(stack) : stack[k].kind # "run" => k \in 2..Len(stack)
    BY <2>1 DEF StackOK
  <2>4. ASSUME NEW k \in 2..Len(stack)
        PROVE  /\ InChain(stack[k].id) /\ Position(stack[k].id) \in 1..Len(chain)
               /\ chain[Position(stack[k].id)].id = stack[k].id
    <3>1. InChain(stack[k].id)
      BY <2>1, <2>2 DEF HaveSessions, InChain
    <3> QED
      BY <2>1, <3>1, InChainPosition
  <2>5. ASSUME NEW j \in 1..Len(stack), NEW k \in 1..Len(stack),
               stack[j].kind # "run", j < k
        PROVE  Position(stack[j].id) < Position(stack[k].id)
    <3>1. j \in 2..Len(stack)
      BY <2>3, <2>5
    <3>2. k \in 2..Len(stack)
      BY <2>5, <3>1
    <3> QED
      BY <2>1, <2>4, <2>5, <3>1, <3>2 DEF InOrder
  <2>6. \A k \in 1..Len(stack) : stack[k].kind # "run" => InChain(stack[k].id)
    BY <2>3, <2>4
  <2>7. \A k \in 1..Len(chain) : chain[k].owner = "loop" => InStack(chain[k].id)
    BY <2>1, <2>2 DEF LoopsRun, InStack
  <2> QED
    BY <2>2, <2>5, <2>6, <2>7 DEF SessionsMatchLoops
<1> QED
  BY <1>1, Invariance, PTL

\* Whatever sessions -endModalSession: frees, and in whatever order, a window has
\* the modal level exactly while it is a panel that a session of the chain holds.
THEOREM LevelsComeBack == Spec => []LevelsRestored
<1>1. IInv => LevelsRestored
  <2> SUFFICES ASSUME IInv PROVE LevelsRestored
    OBVIOUS
  <2>1. DOMAIN chain = 1..Len(chain)
    BY DEF IInv, ChainOK
  <2> QED
    BY <2>1 DEF LevelsRestored, IInv, LevelsOK, Held
<1> QED
  BY <1>1, Invariance, PTL

\* A step leaves the codes of the sessions alone, except that the innermost
\* session may take its first, and except for a late write of another thread.
StopKept ==
    \A k \in DOMAIN chain \cap DOMAIN chain' :
        chain[k].id = chain'[k].id /\ chain[k].state # chain'[k].state
            => \/ k = Len(chain) /\ chain[k].state = "continues"
               \/ LateStore(chain'[k].state)

LEMMA StoppedKeeps ==
    ASSUME IInv, NEW code \in Codes, Stopped(code)
    PROVE  StopKept
<1>1. ChainOK(chain)
  BY DEF IInv
<1>2. CASE TakesCode
  <2>1. /\ Len(chain) \in 1..Len(chain) /\ chain \in [1..Len(chain) -> Session]
        /\ chain[Len(chain)].state = "continues"
    BY <1>1, <1>2 DEF ChainOK, TakesCode, Innermost
  <2>2. chain' = [chain EXCEPT ![Len(chain)] = [chain[Len(chain)] EXCEPT !.state = code]]
    BY <1>2 DEF Stopped
  <2>3. \A k \in 1..Len(chain) : k # Len(chain) => chain'[k] = chain[k]
    BY <2>1, <2>2
  <2> QED
    BY <2>1, <2>2, <2>3 DEF StopKept
<1>3. CASE ~TakesCode
  BY <1>3 DEF Stopped, StopKept
<1> QED
  BY <1>2, <1>3

LEMMA RemainingKeeps ==
    ASSUME IInv, NEW p \in 1..Len(chain), chain' = Remaining(chain[p].id)
    PROVE  StopKept
<1>1. /\ ChainOK(chain) /\ ChainOK(chain') /\ Len(chain') = p - 1
      /\ \A k \in 1..p - 1 : chain'[k] = chain[k]
  BY RemainingChain DEF IInv
<1>2. DOMAIN chain' = 1..p - 1
  BY <1>1 DEF ChainOK
<1> QED
  BY <1>1, <1>2 DEF StopKept

LEMMA StoreKeeps ==
    ASSUME IInv, StoreFromThread
    PROVE  StopKept
<1>1. DOMAIN chain = 1..Len(chain) /\ chain \in [1..Len(chain) -> Session]
  BY DEF IInv, ChainOK
<1> SUFFICES ASSUME NEW k \in DOMAIN chain, chain[k].state # chain'[k].state
             PROVE  LateStore(chain'[k].state)
  BY DEF StopKept
<1>2. chain'[k].state = threadStop.code
  <2>1. chain'[k] # chain[k]
    OBVIOUS
  <2>2. chain'[k] = [chain[k] EXCEPT !.state = threadStop.code]
    BY <1>1, <2>1 DEF StoreFromThread
  <2> QED
    BY <1>1, <2>2 DEF Session
<1> QED
  BY <1>2 DEF LateStore, StoreFromThread

LEMMA BegunKeeps ==
    ASSUME IInv, Len(chain) < MaxSessions, NEW w \in Windows, exists[w],
           NEW owner \in {"loop", "app"}, Begun(w, owner)
    PROVE  StopKept
<1>1. ChainOK(chain)
  BY DEF IInv
<1>2. PICK e \in Session : chain' = Append(chain, e)
  BY BegunOK
<1>3. \A k \in 1..Len(chain) : chain'[k] = chain[k]
  BY <1>1, <1>2, Appended DEF ChainOK
<1>4. DOMAIN chain = 1..Len(chain)
  BY <1>1 DEF ChainOK
<1> QED
  BY <1>3, <1>4 DEF StopKept

\* The code -runModalForWindow: returns is that of the first stop, unless a
\* thread that tested the session before that stop writes after it.
THEOREM FirstStopDecides == Spec => FirstStopOrLateStore
<1>1. IInv /\ [Next]_vars => [StopKept]_vars
  <2> SUFFICES ASSUME IInv, Next PROVE StopKept
    OBVIOUS
  <2>1. CASE chain' = chain
    BY <2>1 DEF StopKept
  <2>2. CASE \E code \in Codes : Stopped(code)
    BY <2>2, StoppedKeeps
  <2>3. CASE \E p \in 1..Len(chain) : chain' = Remaining(chain[p].id)
    BY <2>3, RemainingKeeps
  <2>4. CASE \E w \in Windows, owner \in {"loop", "app"} :
               Len(chain) < MaxSessions /\ exists[w] /\ Begun(w, owner)
    BY <2>4, BegunKeeps
  <2>5. CASE LoopStep
    <3>1. CASE ModalReturns
      <4>1. stack # <<>> /\ Top.kind = "window" /\ chain' = Remaining(Top.id)
        BY <3>1 DEF ModalReturns, LoopDone, InLoop, Ended
      <4> QED
        BY <2>3, <4>1, TopSession
    <3>2. CASE Unwind /\ chain' # chain
      <4>1. stack # <<>> /\ Top.kind = "window" /\ chain' = Remaining(Top.id)
        BY <3>2 DEF Unwind, IInv, RestOK
      <4> QED
        BY <2>3, <4>1, TopSession
    <3> QED
      BY <2>1, <2>5, <3>1, <3>2 DEF LoopStep, RunLoop, RunDispatch, ModalDispatch,
         SessionChanged, SessionReturns, ModalWait, ModalWakeUp
  <2>6. CASE HandlerReturns \/ TimerReturns \/ CaughtByHandler
    <3>1. "stopped" \in Codes
      BY DEF Codes
    <3> QED
      BY <2>1, <2>2, <2>6, <3>1
         DEF HandlerReturns, TimerReturns, CallbackReturns, CaughtByTimer, CaughtByHandler
  <2>7. CASE ApplicationCall
    <3>1. CASE \E id \in Sessions : endModalSession(id)
      <4>1. PICK id \in Sessions : InChain(id) /\ chain' = Remaining(id)
        BY <3>1 DEF endModalSession, Ended
      <4>2. Position(id) \in 1..Len(chain) /\ chain[Position(id)].id = id
        BY <4>1, InChainPosition DEF IInv
      <4> QED
        BY <2>3, <4>1, <4>2
    <3>2. CASE \E w \in Windows : runModalForWindow(w) \/ beginModalSessionForWindow(w)
      BY <2>4, <3>2 DEF runModalForWindow, beginModalSessionForWindow
    <3>3. CASE stop
      <4>1. "stopped" \in Codes
        BY DEF Codes
      <4> QED
        BY <2>1, <2>2, <3>3, <4>1 DEF stop
    <3>4. CASE \E code \in Codes : stopModalWithCode(code)
      BY <2>2, <3>4 DEF stopModalWithCode
    <3>5. CASE runModalSession \/ RaiseException \/ \E w \in Windows : close(w) \/ orderFront(w)
      BY <2>1, <3>5 DEF runModalSession, RaiseException, close, orderFront
    <3> QED
      BY <2>7, <3>1, <3>2, <3>3, <3>4, <3>5 DEF ApplicationCall
  <2>8. CASE Environment
    BY <2>1, <2>8, StoreKeeps DEF Environment, PostEvent, StopFromThread, TimerFires
  <2>9. CASE Terminated
    BY <2>1, <2>9 DEF Terminated, vars
  <2> QED
    BY <2>5, <2>6, <2>7, <2>8, <2>9 DEF Next
<1> QED
  BY <1>1, Invariance, PTL DEF Spec, FirstStopOrLateStore, StopKept
=============================================================================
