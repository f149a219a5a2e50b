------------------------- MODULE TextStorageProofs -------------------------
(***************************************************************************)
(* Proofs about TextStorage, for any characters, layout managers and       *)
(* bounds: the types, that the range and the change of length that are on  *)
(* record cover every difference between the text and what the layout      *)
(* managers know of it, that what they are told fits, and that they follow *)
(* the text.                                                               *)
(***************************************************************************)
EXTENDS TextStorage, TLAPS

USE BoundsAssumption

-----------------------------------------------------------------------------
(* The inductive invariant.                                                *)

SizedRange == [loc: Nat, len: Nat]

\* What is on record while nothing was edited is what processEditing resets it
\* to; only a change of characters changes the length.
RecordInv ==
    /\ editedRange \in SizedRange /\ editedMask \subseteq Flags
    /\ editedDelta \in Int /\ editCount \in Nat
    /\ editedDelta <= editedRange.len /\ End(editedRange) <= Len(text)
    /\ editedMask = {} => editedRange = NoRange /\ editedDelta = 0
    /\ "characters" \notin editedMask => editedDelta = 0
    /\ editCount = 0 => editedMask = {}

\* The saved range keeps up with the edits made since it was saved.
SavedFits(pass) ==
    /\ pass.r \in SizedRange
    /\ pass.at \in {"fix", "did"} =>
         /\ pass.originalDelta <= pass.r.len
         /\ End(pass.r) + editedDelta - pass.originalDelta <= Len(text)
    /\ pass.at \in {"tell", "told"} =>
         pass.range \in SizedRange /\ Change(pass) <= pass.r.len /\ pass.i >= 1

PassInv ==
    /\ passes \in Seq(Pass) /\ Len(passes) <= MaxPasses
    /\ \A n \in 1..Len(passes) : SavedFits(passes[n])
    /\ \A n \in 1..Len(passes) : n < Len(passes) => passes[n].at = "told"
    /\ Processing => editCount >= 1
    /\ passes # <<>> /\ Top.at = "tell" => editCount = 0

TextInv == text \in Seq(Chars) /\ Len(text) <= MaxLength

ManagersInv ==
    /\ managers \in Seq(LayoutManagers)
    /\ \A j, k \in 1..Len(managers) : managers[j] = managers[k] => j = k
    /\ seen \in [LayoutManagers -> Seq(Chars) \cup {Nothing, Unknown}]
    /\ \A m \in LayoutManagers : ~Listed(m) => seen[m] = Nothing

Known(m) == seen[m] \notin {Nothing, Unknown}

\* The manager at place k has been told what the innermost pass tells.
UpToRecord(k) ==
    \/ passes = <<>> \/ Processing
    \/ Top.at = "tell" /\ k < Top.i
    \/ Top.at = "told" /\ k <= Top.i

\* What it misses is what is on record, or else what the pass will tell it.
SeenInv ==
    \A k \in 1..Len(managers) : Known(managers[k]) =>
        /\ UpToRecord(k) => Covers(editedRange, editedDelta, seen[managers[k]], text)
        /\ ~UpToRecord(k) /\ editedMask = {} =>
             /\ Covers(Top.range, Change(Top), seen[managers[k]], text)
             /\ End(Top.r) <= Len(text)

\* Those the outer pass has yet to tell were left behind when the inner one began,
\* or ran ahead since.
OuterInv ==
    \A n \in 1..Len(passes) : n < Len(passes) =>
        \A k \in 1..Len(managers) : k > passes[n].i => ~Known(managers[k])

IInv == RecordInv /\ PassInv /\ TextInv /\ ManagersInv /\ SeenInv /\ OuterInv

-----------------------------------------------------------------------------
(* Lemmas on ranges and texts.                                             *)

LEMMA UnionIs ==
    ASSUME NEW a \in SizedRange, NEW b \in SizedRange
    PROVE  /\ Union(a, b) \in SizedRange
           /\ Union(a, b).loc <= a.loc /\ Union(a, b).loc <= b.loc
           /\ End(a) <= End(Union(a, b)) /\ End(b) <= End(Union(a, b))
           /\ End(Union(a, b)) \in {End(a), End(b)}
           /\ Union(a, b).len >= a.len /\ Union(a, b).len >= b.len
BY DEF Union, SizedRange, Min, Max, End

LEMMA SizedIs ==
    ASSUME NEW a \in SizedRange
    PROVE  a \in Range /\ a.loc \in Nat /\ a.len \in Nat /\ End(a) \in Nat
BY DEF SizedRange, Range, End

LEMMA GrownIs ==
    ASSUME NEW a \in SizedRange, NEW e \in Int
    PROVE  /\ Grown(a, e).loc = a.loc /\ Grown(a, e).len = a.len + e
           /\ End(Grown(a, e)) = End(a) + e
           /\ a.len + e >= 0 => Grown(a, e) \in SizedRange
BY DEF Grown, SizedRange, End

\* Nothing between two equal texts.
LEMMA CoversNothing ==
    ASSUME NEW S, NEW a \in Seq(S)
    PROVE  Covers(NoRange, 0, a, a)
BY DEF Covers, NoRange, End

LEMMA CoversNothingEqual ==
    ASSUME NEW S, NEW a \in Seq(S), NEW b \in Seq(S), Covers(NoRange, 0, a, b)
    PROVE  a = b
<1>1. NoRange.loc = 0 /\ End(NoRange) = 0
  BY DEF NoRange, End
<1>2. Len(a) = Len(b) /\ \A k \in 1..Len(b) : b[k] = a[k]
  <2>1. Len(b) = Len(a) + 0 /\ \A k \in (0 + 1)..Len(b) : b[k] = a[k - 0]
    BY <1>1 DEF Covers
  <2> QED
    BY <2>1
<1>3. a \in [1..Len(a) -> S] /\ b \in [1..Len(b) -> S]
  OBVIOUS
<1> QED
  BY <1>2, <1>3

\* c is b with the range old replaced by n characters.
EditOf(b, c, old, n) ==
    /\ old \in SizedRange /\ n \in Nat /\ End(old) <= Len(b)
    /\ Len(c) = Len(b) + (n - old.len)
    /\ \A k \in 1..old.loc : c[k] = b[k]
    /\ \A k \in (old.loc + n + 1)..Len(c) : c[k] = b[k - (n - old.len)]

\* One edit is covered by its range, ...
LEMMA CoversEdit ==
    ASSUME NEW b, NEW c, Len(b) \in Nat, NEW old, NEW n, EditOf(b, c, old, n)
    PROVE  Covers(Grown(old, n - old.len), n - old.len, b, c)
BY DEF EditOf, Covers, Grown, SizedRange, End

\* ... and one after others by the union of the ranges.
LEMMA CoversUnion ==
    ASSUME NEW a, NEW b, NEW c, Len(a) \in Nat, Len(b) \in Nat,
           NEW r \in SizedRange, NEW d \in Int, Covers(r, d, a, b),
           NEW old, NEW n, EditOf(b, c, old, n)
    PROVE  Covers(Grown(Union(r, old), n - old.len), d + (n - old.len), a, c)
<1> DEFINE e == n - old.len
           u == Union(r, old)
           g == Grown(u, e)
<1>1. /\ old \in SizedRange /\ n \in Nat /\ e \in Int /\ End(old) <= Len(b)
      /\ Len(c) = Len(b) + e
  BY DEF EditOf, SizedRange
<1>2. /\ \A k \in 1..old.loc : c[k] = b[k]
      /\ \A k \in (old.loc + n + 1)..Len(c) : c[k] = b[k - e]
  BY DEF EditOf
<1>3. old.loc + n = End(old) + e
  BY <1>1 DEF End, SizedRange
<1>4. /\ Len(b) = Len(a) + d /\ d <= r.len /\ End(r) <= Len(b)
      /\ \A k \in 1..r.loc : b[k] = a[k]
      /\ \A k \in (End(r) + 1)..Len(b) : b[k] = a[k - d]
  BY DEF Covers
<1>5. /\ u \in SizedRange /\ u.loc <= r.loc /\ u.loc <= old.loc
      /\ End(r) <= End(u) /\ End(old) <= End(u) /\ End(u) \in {End(r), End(old)}
      /\ u.len >= r.len
  BY <1>1, UnionIs
<1>6. g.loc = u.loc /\ g.len = u.len + e /\ End(g) = End(u) + e
  BY <1>1, <1>5, GrownIs
<1>7. /\ u.loc \in Nat /\ u.len \in Nat /\ End(u) \in Nat /\ r.loc \in Nat
      /\ r.len \in Nat /\ End(r) \in Nat /\ old.loc \in Nat /\ End(old) \in Nat
  BY <1>1, <1>5, SizedIs
<1> HIDE DEF e, u, g
<1>8. Len(c) = Len(a) + (d + e) /\ d + e <= g.len /\ End(g) <= Len(c)
  <2>1. Len(b) = Len(a) + d /\ d <= r.len /\ End(r) <= Len(b)
    BY <1>4
  <2>2. r.len <= u.len /\ (End(u) = End(r) \/ End(u) = End(old))
    BY <1>5
  <2>3. End(u) <= Len(b) /\ e \in Int /\ Len(c) = Len(b) + e
    BY <1>1, <2>1, <2>2
  <2>4. Len(c) = Len(a) + (d + e)
    BY <2>1, <2>3
  <2>5. d + e <= u.len + e
    BY <1>7, <2>1, <2>2, <2>3
  <2>6. End(u) + e <= Len(c)
    BY <1>7, <2>3
  <2> QED
    BY <1>6, <2>4, <2>5, <2>6
<1>9. ASSUME NEW k \in 1..g.loc PROVE c[k] = a[k]
  <2>1. k \in 1..old.loc /\ k \in 1..r.loc
    BY <1>5, <1>6, <1>7
  <2> QED
    BY <1>2, <1>4, <2>1
<1>10. ASSUME NEW k \in (End(g) + 1)..Len(c) PROVE c[k] = a[k - (d + e)]
  <2>1. k \in (old.loc + n + 1)..Len(c) /\ k - e \in (End(r) + 1)..Len(b)
    <3>1. End(g) \in Int /\ Len(c) \in Int
      BY <1>1, <1>6, <1>7
    <3>2. k \in Int /\ k >= End(u) + e + 1 /\ k <= Len(b) + e
      BY <1>1, <1>6, <3>1
    <3>3. k >= End(old) + e + 1 /\ k >= End(r) + e + 1
      <4>1. End(old) <= End(u) /\ End(r) <= End(u) /\ e \in Int
        BY <1>1, <1>5
      <4> QED
        BY <1>7, <3>2, <4>1
    <3>4. k >= old.loc + n + 1 /\ k <= Len(c)
      BY <1>1, <1>3, <3>2, <3>3
    <3>5. old.loc + n + 1 \in Int
      BY <1>1, <1>7
    <3> QED
      BY <1>1, <1>7, <3>1, <3>2, <3>3, <3>4, <3>5
  <2>2. (k - e) - d = k - (d + e)
    BY <1>1, <2>1
  <2> QED
    BY <1>2, <1>4, <2>1, <2>2
<1>11. Covers(g, d + e, a, c)
  BY <1>8, <1>9, <1>10 DEF Covers
<1> QED
  BY <1>11 DEF e, u, g

\* Replacing what is covered makes the texts equal.
LEMMA CoveredReplaced ==
    ASSUME NEW S, NEW a \in Seq(S), NEW b \in Seq(S),
           NEW r \in SizedRange, NEW d \in Int, Covers(r, d, a, b)
    PROVE  Replaced(a, Grown(r, -d), b, r) = b
<1> DEFINE x == Replaced(a, Grown(r, -d), b, r)
<1>1. /\ Len(a) \in Nat /\ Len(b) \in Nat /\ Len(b) = Len(a) + d
      /\ b \in [1..Len(b) -> S]
  BY DEF Covers
<1>2. Grown(r, -d).len = r.len - d /\ r.len \in Nat /\ r.loc \in Nat /\ End(r) \in Nat
  BY DEF Grown, SizedRange, End
<1>3. r.len - Grown(r, -d).len = d /\ Len(a) + r.len - Grown(r, -d).len = Len(b)
  BY <1>1, <1>2
<1>4. x = [k \in 1..Len(b) |-> IF k <= r.loc THEN a[k]
                              ELSE IF k <= End(r) THEN b[k] ELSE a[k - d]]
  BY <1>3 DEF Replaced
<1> HIDE DEF x
<1>5. ASSUME NEW k \in 1..Len(b) PROVE x[k] = b[k]
  <2>1. k \in 1..r.loc \/ (k > r.loc /\ k <= End(r)) \/ k \in (End(r) + 1)..Len(b)
    BY <1>1, <1>2
  <2>2. CASE k \in 1..r.loc
    BY <1>2, <1>4, <2>2 DEF Covers
  <2>3. CASE k > r.loc /\ k <= End(r)
    BY <1>2, <1>4, <2>3
  <2>4. CASE k \in (End(r) + 1)..Len(b)
    <3>1. ~(k <= End(r)) /\ ~(k <= r.loc)
      BY <1>1, <1>2, <2>4 DEF End
    <3> QED
      BY <1>4, <2>4, <3>1 DEF Covers
  <2> QED
    BY <2>1, <2>2, <2>3, <2>4
<1>6. x = b
  BY <1>1, <1>4, <1>5
<1> QED
  BY <1>6 DEF x

-----------------------------------------------------------------------------
(* Lemmas on the passes.                                                   *)

LEMMA TopIs ==
    ASSUME PassInv, passes # <<>>
    PROVE  /\ Len(passes) \in Nat /\ Len(passes) \in 1..Len(passes) /\ Top = passes[Len(passes)]
           /\ Top \in Pass /\ SavedFits(Top)
<1>1. Len(passes) \in 1..Len(passes) /\ Len(passes) \in Nat /\ passes \in Seq(Pass)
  BY DEF PassInv
<1> QED
  BY <1>1 DEF Top, PassInv

LEMMA PassFields ==
    ASSUME NEW p \in Pass
    PROVE  /\ p.at \in {"will", "fix", "did", "tell", "told"} /\ p.r \in Range
           /\ p.originalDelta \in Int /\ p.i \in Nat /\ p.mask \subseteq Flags
           /\ p.range \in Range /\ p.delta \in Int /\ Change(p) \in Int
BY DEF Pass, Change

LEMMA PassAtTyped ==
    ASSUME NEW A, NEW R, NEW O, NEW I, NEW M, NEW G, NEW D,
           NEW x \in [at: A, r: R, originalDelta: O, i: I, mask: M, range: G, delta: D],
           NEW a \in A, NEW i \in I
    PROVE  [x EXCEPT !.at = a, !.i = i]
           \in [at: A, r: R, originalDelta: O, i: I, mask: M, range: G, delta: D]
OBVIOUS

LEMMA PassTyped ==
    ASSUME NEW A, NEW R, NEW O, NEW I, NEW M, NEW G, NEW D,
           NEW x \in [at: A, r: R, originalDelta: O, i: I, mask: M, range: G, delta: D],
           NEW a \in A, NEW r \in R, NEW o \in O, NEW i \in I, NEW mask \in M,
           NEW range \in G, NEW delta \in D
    PROVE  [x EXCEPT !.at = a, !.i = i, !.originalDelta = o, !.r = r,
                     !.mask = mask, !.range = range, !.delta = delta]
           \in [at: A, r: R, originalDelta: O, i: I, mask: M, range: G, delta: D]
OBVIOUS

\* The innermost pass goes on.
TopBecomes(p) ==
    /\ passes' \in Seq(Pass) /\ Len(passes') = Len(passes) /\ passes' # <<>> /\ Top' = p
    /\ passes'[Len(passes)] = p
    /\ \A n \in 1..Len(passes) : n < Len(passes) => passes'[n] = passes[n]

LEMMA ChangedAt ==
    ASSUME NEW S, NEW s \in Seq(S), NEW n \in 1..Len(s), NEW e \in S
    PROVE  LET t == [s EXCEPT ![n] = e]
           IN  /\ t \in Seq(S) /\ Len(t) = Len(s) /\ t # <<>> /\ t[n] = e
               /\ \A k \in 1..Len(s) : k # n => t[k] = s[k]
<1> DEFINE t == [s EXCEPT ![n] = e]
<1>1. Len(s) \in Nat /\ s \in [1..Len(s) -> S]
  OBVIOUS
<1>2. /\ t \in Seq(S) /\ Len(t) = Len(s) /\ t[n] = e
      /\ \A k \in 1..Len(s) : k # n => t[k] = s[k]
  BY <1>1
<1> HIDE DEF t
<1>3. t # <<>>
  BY <1>1, <1>2
<1> QED
  BY <1>2, <1>3 DEF t

LEMMA TopGoesOn ==
    ASSUME PassInv, passes # <<>>, NEW p \in Pass,
           passes' = [passes EXCEPT ![Len(passes)] = p]
    PROVE  TopBecomes(p)
<1>1. Len(passes) \in 1..Len(passes) /\ Len(passes) \in Nat /\ passes \in Seq(Pass)
  BY DEF PassInv
<1>2. /\ passes' \in Seq(Pass) /\ Len(passes') = Len(passes) /\ passes'[Len(passes)] = p
      /\ \A k \in 1..Len(passes) : k # Len(passes) => passes'[k] = passes[k]
  BY <1>1, ChangedAt
<1>3. passes' # <<>>
  BY <1>1, ChangedAt
<1>4. \A n \in 1..Len(passes) : n < Len(passes) => n # Len(passes)
  BY <1>1
<1> QED
  BY <1>2, <1>3, <1>4 DEF TopBecomes, Top

LEMMA TopAt ==
    ASSUME PassInv, passes # <<>>, InApplication, ~Processing
    PROVE  Top.at = "told"
BY DEF InApplication, Processing

-----------------------------------------------------------------------------
(* Lemmas on what the layout managers know.                                *)

Seens == [LayoutManagers -> Seq(Chars) \cup {Nothing, Unknown}]

LEMMA LostIs ==
    ASSUME seen \in Seens, NEW ms
    PROVE  /\ Lost(ms) \in Seens
           /\ \A m \in LayoutManagers :
                /\ Lost(ms)[m] \notin {Nothing, Unknown} => m \notin ms /\ Lost(ms)[m] = seen[m]
                /\ seen[m] = Nothing => Lost(ms)[m] = Nothing
BY DEF Lost, Seens

LEMMA ManagersAre ==
    ASSUME ManagersInv
    PROVE  /\ Len(managers) \in Nat /\ DOMAIN managers = 1..Len(managers)
           /\ \A k \in 1..Len(managers) : managers[k] \in LayoutManagers
           /\ seen \in Seens
BY DEF ManagersInv, Seens

\* seen changes so that nothing is known that was not.
LEMMA FewerKnown ==
    ASSUME ManagersInv, managers' = managers, seen' \in Seens,
           \A m \in LayoutManagers : seen[m] = Nothing => seen'[m] = Nothing
    PROVE  ManagersInv'
BY DEF ManagersInv, Seens, Listed

LEMMA BeginsOuter ==
    ASSUME PassInv, OuterInv, ManagersInv, passes # <<>>, Begin, managers' = managers
    PROVE  \A n \in 1..Len(passes), k \in 1..Len(managers) :
              k > passes[n].i => ~Known(managers[k])'
<1> SUFFICES ASSUME NEW n \in 1..Len(passes), NEW k \in 1..Len(managers),
                    k > passes[n].i, Known(managers[k])'
             PROVE  FALSE
  OBVIOUS
<1>1. /\ managers[k] \in LayoutManagers /\ seen \in Seens
      /\ DOMAIN managers = 1..Len(managers)
  BY ManagersAre
<1>2. seen' = Lost(Untold(Top))
  BY DEF Begin
<1>3. managers[k] \notin Untold(Top) /\ Known(managers[k])
  BY <1>1, <1>2, LostIs DEF Known
<1>4. CASE n < Len(passes)
  BY <1>3, <1>4 DEF OuterInv
<1>5. CASE n = Len(passes)
  <2>1. managers[k] \in Untold(Top)
    BY <1>1, <1>5 DEF Untold, Top
  <2> QED
    BY <1>3, <2>1
<1> QED
  BY <1>4, <1>5, TopIs

\* A pass begins, in the code of the application or of a layout manager.
LEMMA BeginStep ==
    ASSUME IInv, Begin, InApplication, ~Processing, managers' = managers,
           RecordInv', TextInv',
           \A k \in 1..Len(managers) : Known(managers[k]) /\ UpToRecord(k) =>
              Covers(editedRange', editedDelta', seen[managers[k]], text')
    PROVE  IInv'
<1> DEFINE new == [at |-> "will", r |-> NoRange, originalDelta |-> 0,
                   i |-> 0, mask |-> {}, range |-> NoRange, delta |-> 0]
           n == Len(passes)
<1>1. PassInv /\ ManagersInv /\ SeenInv /\ OuterInv
  BY DEF IInv
<1>2. passes' = Append(passes, new) /\ n < MaxPasses /\ editCount' = 1
  BY DEF Begin
<1>3. new \in Pass /\ new.at = "will" /\ new.r \in SizedRange
  BY DEF Pass, Range, NoRange, SizedRange
<1>4. n \in Nat /\ passes \in Seq(Pass)
  BY <1>1 DEF PassInv
<1> HIDE DEF new, n
<1>5. /\ passes' \in Seq(Pass) /\ Len(passes') = n + 1 /\ passes'[n + 1] = new
      /\ \A k \in 1..n : passes'[k] = passes[k]
  BY <1>2, <1>3, <1>4 DEF n
<1>6. Top' = new
  BY <1>5 DEF Top
<1>7. passes' # <<>> /\ Processing'
  <2>1. passes' # <<>>
    BY <1>2, <1>4
  <2> QED
    BY <1>3, <1>6, <2>1 DEF Processing
<1>8. \A k \in 1..n : passes[k].at = "told"
  <2> SUFFICES ASSUME NEW k \in 1..n PROVE passes[k].at = "told"
    OBVIOUS
  <2>1. CASE k < n
    BY <1>1, <2>1 DEF PassInv, n
  <2>2. CASE k = n
    <3>1. passes # <<>>
      BY <1>4, <2>2 DEF n
    <3> QED
      BY <1>1, <2>2, <3>1, TopAt DEF Top, n
  <2> QED
    BY <1>4, <2>1, <2>2
<1>9. \A k \in 1..n + 1 : k \in 1..n \/ k = n + 1
  BY <1>4
<1>10. PassInv'
  <2>1. ASSUME NEW k \in 1..n + 1 PROVE SavedFits(passes[k])'
    <3>1. CASE k \in 1..n
      <4>1. SavedFits(passes[k]) /\ passes[k].at = "told"
        BY <1>1, <1>8, <3>1 DEF PassInv, n
      <4> QED
        BY <1>5, <3>1, <4>1 DEF SavedFits
    <3>2. CASE k = n + 1
      BY <1>3, <1>5, <3>2 DEF SavedFits
    <3> QED
      BY <1>9, <3>1, <3>2
  <2>2. \A k \in 1..n + 1 : k < n + 1 => passes'[k].at = "told"
    BY <1>4, <1>5, <1>8, <1>9
  <2>3. Top'.at # "tell"
    BY <1>3, <1>6
  <2>4. n + 1 <= MaxPasses
    BY <1>2, <1>4
  <2> QED
    BY <1>2, <1>5, <2>1, <2>2, <2>3, <2>4 DEF PassInv
<1>11. seen \in Seens
  BY <1>1, ManagersAre
<1>12. /\ seen' \in Seens
       /\ \A m \in LayoutManagers : seen[m] = Nothing => seen'[m] = Nothing
       /\ \A m \in LayoutManagers : Known(m)' => Known(m) /\ seen'[m] = seen[m]
  BY <1>11, LostIs DEF Begin, Known
<1>13. ManagersInv'
  BY <1>1, <1>12, FewerKnown
<1>14. OuterInv'
  <2> SUFFICES ASSUME NEW k \in 1..n, NEW j \in 1..Len(managers), j > passes[k].i
               PROVE  ~Known(managers[j])'
    BY <1>4, <1>5, <1>9 DEF OuterInv
  <2>1. passes # <<>>
    BY <1>4 DEF n
  <2> QED
    BY <1>1, <2>1, BeginsOuter DEF n
<1>15. SeenInv'
  <2> SUFFICES ASSUME NEW k \in 1..Len(managers), Known(managers[k])'
               PROVE  Covers(editedRange', editedDelta', seen'[managers[k]], text')
    BY <1>7 DEF SeenInv, UpToRecord
  <2>1. managers[k] \in LayoutManagers
    BY <1>1, ManagersAre
  <2>2. Known(managers[k]) /\ seen'[managers[k]] = seen[managers[k]]
    BY <1>12, <2>1
  <2>3. UpToRecord(k)
    <3>1. CASE passes = <<>>
      BY <3>1 DEF UpToRecord
    <3>2. CASE passes # <<>>
      <4>1. n \in 1..Len(passes) /\ Top = passes[n] /\ Top.i \in Nat
        BY <1>1, <3>2, TopIs, PassFields DEF n
      <4>2. ~(k > Top.i)
        BY <1>1, <3>2, <4>1, BeginsOuter
      <4>3. Top.at = "told"
        BY <1>1, <3>2, TopAt
      <4> QED
        BY <4>1, <4>2, <4>3 DEF UpToRecord
    <3> QED
      BY <3>1, <3>2
  <2> QED
    BY <2>2, <2>3
<1> QED
  BY <1>10, <1>13, <1>14, <1>15 DEF IInv

-----------------------------------------------------------------------------
(* beginEditing and endEditing.                                            *)

LEMMA CountStep ==
    ASSUME IInv, InApplication, editCount' \in Nat, editCount' >= 1,
           UNCHANGED <<text, editedMask, editedRange, editedDelta, layout, passes>>
    PROVE  IInv'
<1>1. RecordInv'
  BY DEF IInv, RecordInv
<1>2. PassInv'
  <2>1. passes # <<>> => Top.at # "tell"
    BY DEF InApplication
  <2> QED
    BY <2>1 DEF IInv, PassInv, SavedFits, Top, Processing
<1>3. TextInv' /\ ManagersInv'
  BY DEF IInv, TextInv, ManagersInv, layout, Listed
<1>4. SeenInv' /\ OuterInv'
  BY DEF IInv, SeenInv, OuterInv, layout, UpToRecord, Known, Processing, Top
<1> QED
  BY <1>1, <1>2, <1>3, <1>4 DEF IInv

LEMMA endEditingStep ==
    ASSUME IInv, endEditing PROVE IInv'
<1>1. /\ InApplication /\ OpenBrackets > 0 /\ RecordInv /\ PassInv
      /\ UNCHANGED <<text, editedMask, editedRange, editedDelta, managers>>
  BY DEF endEditing, IInv
<1>2. CASE editCount = 1
  <2>1. Begin /\ editCount' = 1
    BY <1>2 DEF endEditing, Begin
  <2>2. ~Processing
    BY <1>1, <1>2 DEF OpenBrackets
  <2>3. RecordInv' /\ TextInv'
    BY <1>1, <2>1 DEF RecordInv, TextInv, IInv
  <2>4. \A k \in 1..Len(managers) : Known(managers[k]) /\ UpToRecord(k) =>
           Covers(editedRange', editedDelta', seen[managers[k]], text')
    BY <1>1 DEF IInv, SeenInv
  <2> QED
    BY <1>1, <2>1, <2>2, <2>3, <2>4, BeginStep
<1>3. CASE editCount # 1
  <2>1. editCount' = editCount - 1 /\ UNCHANGED <<passes, seen>>
    BY <1>3 DEF endEditing
  <2>2. editCount > 0 /\ editCount \in Nat
    BY <1>1 DEF OpenBrackets, RecordInv
  <2> QED
    BY <1>1, <1>3, <2>1, <2>2, CountStep DEF layout
<1> QED
  BY <1>2, <1>3

-----------------------------------------------------------------------------
(* Edits of the text.                                                      *)

\* The text after Edit is the text with the new characters in the old range.
LEMMA EditedText ==
    ASSUME TextInv, NEW old \in RangesOf(text), NEW new \in Seq(Chars),
           NEW flag, Edit(flag, old, new)
    PROVE  text' \in Seq(Chars) /\ EditOf(text, text', old, Len(new))
<1> DEFINE n == Len(new)
           e == n - old.len
           inserted == [loc |-> old.loc, len |-> n]
           t == [k \in 1..End(inserted) |-> new[k - old.loc]]
<1>1. /\ text \in Seq(Chars) /\ Len(text) \in Nat /\ n \in Nat
      /\ old.loc \in Nat /\ old.len \in Nat /\ End(old) = old.loc + old.len
      /\ End(old) <= Len(text) /\ old \in SizedRange
  BY DEF TextInv, RangesOf, SizedRange, End
<1>2. /\ inserted.len - old.len = e /\ inserted.loc = old.loc /\ End(inserted) = old.loc + n
      /\ Len(text) + inserted.len - old.len = Len(text) + e /\ Len(text) + e \in Nat
  BY <1>1 DEF End
<1>3. text' = Replaced(text, old, t, inserted)
  BY DEF Edit
<1> HIDE DEF t
<1>4. text' = [k \in 1..(Len(text) + e) |->
                 IF k <= old.loc THEN text[k]
                 ELSE IF k <= old.loc + n THEN t[k] ELSE text[k - e]]
  BY <1>2, <1>3 DEF Replaced
<1>5. \A k \in 1..(Len(text) + e) :
         /\ k <= old.loc => k \in 1..Len(text)
         /\ k > old.loc /\ k <= old.loc + n => k \in 1..(old.loc + n) /\ k - old.loc \in 1..n
         /\ k > old.loc + n => k - e \in 1..Len(text) /\ ~(k <= old.loc)
  BY <1>1
<1>6. t = [k \in 1..(old.loc + n) |-> new[k - old.loc]]
  BY <1>2 DEF t
<1>7. \A k \in 1..(Len(text) + e) : text'[k] \in Chars
  <2> TAKE k \in 1..(Len(text) + e)
  <2>1. CASE k <= old.loc
    BY <1>1, <1>4, <1>5, <2>1
  <2>2. CASE k > old.loc /\ k <= old.loc + n
    <3>1. text'[k] = t[k] /\ t[k] = new[k - old.loc]
      BY <1>1, <1>4, <1>5, <1>6, <2>2
    <3>2. k - old.loc \in 1..n
      BY <1>5, <2>2
    <3>3. new[k - old.loc] \in Chars
      BY <3>2
    <3> QED
      BY <3>1, <3>3
  <2>3. CASE k > old.loc + n
    <3>1. text'[k] = text[k - e]
      BY <1>1, <1>4, <1>5, <2>3
    <3> QED
      BY <1>1, <1>5, <2>3, <3>1
  <2> QED
    BY <1>1, <2>1, <2>2, <2>3
<1> HIDE DEF n, e, inserted
<1>8. text' \in [1..(Len(text) + e) -> Chars]
  BY <1>4, <1>7
<1>9. text' \in Seq(Chars) /\ Len(text') = Len(text) + e
  <2>1. \A m \in Nat : \A f \in [1..m -> Chars] : f \in Seq(Chars) /\ Len(f) = m
    OBVIOUS
  <2> QED
    BY <1>2, <1>8, <2>1
<1>10. \A k \in 1..old.loc : text'[k] = text[k]
  <2>1. \A k \in 1..old.loc : k \in 1..(Len(text) + e) /\ k <= old.loc
    BY <1>1 DEF e
  <2> QED
    BY <1>4, <2>1
<1>11. \A k \in (old.loc + n + 1)..Len(text') : text'[k] = text[k - e]
  <2>1. \A k \in (old.loc + n + 1)..Len(text') :
           k \in 1..(Len(text) + e) /\ ~(k <= old.loc) /\ ~(k <= old.loc + n)
    BY <1>1, <1>9
  <2> QED
    BY <1>4, <2>1
<1> QED
  BY <1>1, <1>9, <1>10, <1>11 DEF EditOf, n, e

\* The record covers the edit as well.
LEMMA EditedRecord ==
    ASSUME RecordInv, TextInv, NEW flag \in Flags, NEW old \in RangesOf(text),
           NEW new \in Seq(Chars), flag = "attributes" => Len(new) = old.len,
           editCount' >= 1, editCount' \in Nat, Edit(flag, old, new)
    PROVE  /\ RecordInv' /\ TextInv' /\ editedMask' # {}
           /\ editedDelta' - editedDelta = Len(text') - Len(text)
           /\ \A a \in Seq(Chars) : Covers(editedRange, editedDelta, a, text) =>
                 Covers(editedRange', editedDelta', a, text')
<1> DEFINE n == Len(new)
           e == n - old.len
<1>1. /\ text' \in Seq(Chars) /\ EditOf(text, text', old, n) /\ text \in Seq(Chars)
  BY EditedText DEF TextInv
<1>2. /\ n \in Nat /\ e \in Int /\ Len(text') = Len(text) + e /\ Len(text) \in Nat
      /\ old \in SizedRange /\ old.len \in Nat /\ End(old) <= Len(text)
      /\ old.loc \in Nat /\ End(old) \in Nat /\ old.len + e = n
  BY <1>1 DEF EditOf, SizedRange, End
<1>3. /\ editedRange \in SizedRange /\ editedDelta \in Int /\ editedMask \subseteq Flags
      /\ editedDelta <= editedRange.len /\ End(editedRange) <= Len(text)
      /\ editedMask = {} => editedRange = NoRange /\ editedDelta = 0
      /\ "characters" \notin editedMask => editedDelta = 0
  BY DEF RecordInv
<1>4. /\ editedRange' = Grown(Extended(old), e) /\ editedMask' = editedMask \cup {flag}
      /\ editedDelta' = editedDelta + e /\ Len(text') <= MaxLength
  BY <1>2 DEF Edit
<1>5. "characters" \notin editedMask' => e = 0
  BY <1>2, <1>4 DEF Flags
<1> HIDE DEF n, e
<1>6. /\ editedRange' \in SizedRange /\ editedDelta' <= editedRange'.len
      /\ End(editedRange') <= Len(text')
  <2>1. CASE editedMask = {}
    <3>1. editedRange' = Grown(old, e) /\ editedDelta' = e
      BY <1>2, <1>3, <1>4, <2>1 DEF Extended
    <3>2. /\ Grown(old, e).len = old.len + e /\ End(Grown(old, e)) = End(old) + e
          /\ old.len + e >= 0 => Grown(old, e) \in SizedRange
      BY <1>2, GrownIs
    <3> QED
      BY <1>2, <3>1, <3>2
  <2>2. CASE editedMask # {}
    <3> DEFINE u == Union(editedRange, old)
    <3>1. editedRange' = Grown(u, e)
      BY <1>4, <2>2 DEF Extended
    <3>2. /\ u \in SizedRange /\ End(u) \in {End(editedRange), End(old)}
          /\ u.len >= editedRange.len /\ u.len >= old.len
      BY <1>2, <1>3, UnionIs
    <3>3. u.len \in Nat /\ End(u) \in Nat /\ editedRange.len \in Nat
      BY <1>3, <3>2 DEF SizedRange, End
    <3> HIDE DEF u
    <3>4. /\ Grown(u, e).len = u.len + e /\ End(Grown(u, e)) = End(u) + e
          /\ u.len + e >= 0 => Grown(u, e) \in SizedRange
      BY <1>2, <3>2, GrownIs
    <3>5. u.len + e >= 0 /\ editedDelta + e <= u.len + e /\ End(u) + e <= Len(text) + e
      <4>1. /\ e \in Int /\ old.len \in Nat /\ old.len + e >= 0 /\ Len(text) \in Nat
            /\ editedDelta \in Int /\ editedDelta <= editedRange.len
        BY <1>2, <1>3, SizedIs
      <4>2. u.len >= old.len /\ editedDelta <= u.len
        BY <3>2, <3>3, <4>1
      <4>3. End(u) <= Len(text)
        BY <1>2, <1>3, <3>2
      <4> QED
        BY <3>3, <4>1, <4>2, <4>3
    <3> QED
      BY <1>2, <1>4, <3>1, <3>4, <3>5
  <2> QED
    BY <2>1, <2>2
<1>7. RecordInv' /\ editedMask' # {}
  <2>1. editedMask' # {} /\ editedMask' \subseteq Flags
    BY <1>3, <1>4
  <2>2. editedDelta' \in Int /\ ("characters" \notin editedMask' => editedDelta' = 0)
    BY <1>2, <1>3, <1>4, <1>5
  <2>3. editCount' \in Nat /\ editCount' # 0
    OBVIOUS
  <2> QED
    BY <1>6, <2>1, <2>2, <2>3 DEF RecordInv
<1>8. TextInv'
  BY <1>1, <1>4 DEF TextInv
<1>9. editedDelta' - editedDelta = Len(text') - Len(text)
  BY <1>2, <1>3, <1>4
<1>10. ASSUME NEW a \in Seq(Chars), Covers(editedRange, editedDelta, a, text)
       PROVE  Covers(editedRange', editedDelta', a, text')
  <2>1. CASE editedMask = {}
    <3>1. a = text
      BY <1>1, <1>3, <1>10, <2>1, CoversNothingEqual
    <3>2. editedRange' = Grown(old, e) /\ editedDelta' = e
      BY <1>2, <1>3, <1>4, <2>1 DEF Extended
    <3> QED
      BY <1>1, <1>2, <3>1, <3>2, CoversEdit DEF e
  <2>2. CASE editedMask # {}
    <3>1. editedRange' = Grown(Union(editedRange, old), e) /\ editedDelta' = editedDelta + e
      BY <1>4, <2>2 DEF Extended
    <3>2. Len(a) \in Nat
      OBVIOUS
    <3> QED
      BY <1>1, <1>2, <1>3, <1>10, <3>1, <3>2, CoversUnion DEF e
  <2> QED
    BY <2>1, <2>2
<1> QED
  BY <1>7, <1>8, <1>9, <1>10

\* replaceCharactersInRange:withString: or setAttributes:range:
LEMMA EditStep ==
    ASSUME IInv, NEW flag \in Flags, NEW old \in RangesOf(text),
           NEW new \in Seq(Chars), flag = "attributes" => Len(new) = old.len,
           Edit(flag, old, new)
    PROVE  IInv'
<1>1. /\ RecordInv /\ PassInv /\ TextInv /\ ManagersInv /\ SeenInv /\ OuterInv
      /\ InApplication /\ managers' = managers
  BY DEF IInv, Edit
<1>2. editCount \in Nat /\ editCount' \in Nat /\ editCount' >= 1
  <2>1. editCount \in Nat
    BY <1>1 DEF RecordInv
  <2>2. editCount' = (IF editCount = 0 THEN 1 ELSE editCount)
    BY DEF Edit, Begin
  <2> QED
    BY <2>1, <2>2
<1>3. /\ RecordInv' /\ TextInv' /\ editedMask' # {}
      /\ editedDelta' - editedDelta = Len(text') - Len(text)
      /\ \A a \in Seq(Chars) : Covers(editedRange, editedDelta, a, text) =>
            Covers(editedRange', editedDelta', a, text')
  BY <1>1, <1>2, EditedRecord
<1>4. ASSUME NEW k \in 1..Len(managers), Known(managers[k]), UpToRecord(k)
      PROVE  Covers(editedRange', editedDelta', seen[managers[k]], text')
  <2>1. seen[managers[k]] \in Seq(Chars)
    BY <1>1, <1>4, ManagersAre DEF Known, Seens
  <2>2. Covers(editedRange, editedDelta, seen[managers[k]], text)
    BY <1>1, <1>4 DEF SeenInv
  <2> QED
    BY <1>3, <2>1, <2>2
<1>5. CASE editCount = 0
  <2>1. Begin
    BY <1>5 DEF Edit
  <2>2. ~Processing
    BY <1>1, <1>5 DEF PassInv
  <2> QED
    BY <1>1, <1>3, <1>4, <2>1, <2>2, BeginStep
<1>6. CASE editCount # 0
  <2>1. UNCHANGED <<editCount, passes, seen>>
    BY <1>6 DEF Edit
  <2>2. PassInv'
    <3>1. Len(text) \in Nat /\ Len(text') \in Nat /\ editedDelta \in Int /\ editedDelta' \in Int
      <4>1. text \in Seq(Chars) /\ text' \in Seq(Chars)
        BY <1>1, <1>3 DEF TextInv
      <4>2. editedDelta \in Int /\ editedDelta' \in Int
        BY <1>1, <1>3 DEF RecordInv
      <4> QED
        BY <4>1, <4>2
    <3>2. ASSUME NEW n \in 1..Len(passes) PROVE SavedFits(passes[n])'
      <4>1. SavedFits(passes[n]) /\ passes[n] \in Pass
        BY <1>1, <3>2 DEF PassInv
      <4>2. passes[n].originalDelta \in Int
        BY <4>1, PassFields
      <4>3. passes[n].at \in {"fix", "did"} =>
              End(passes[n].r) + editedDelta' - passes[n].originalDelta <= Len(text')
        <5> SUFFICES ASSUME passes[n].at \in {"fix", "did"}
                     PROVE  End(passes[n].r) + editedDelta' - passes[n].originalDelta
                              <= Len(text')
          OBVIOUS
        <5>1. /\ passes[n].r \in SizedRange
              /\ End(passes[n].r) + editedDelta - passes[n].originalDelta <= Len(text)
          BY <4>1 DEF SavedFits
        <5>2. End(passes[n].r) \in Nat
          BY <5>1 DEF SizedRange, End
        <5>3. editedDelta' - editedDelta = Len(text') - Len(text)
          BY <1>3
        <5>4. editedDelta' = editedDelta + (Len(text') - Len(text))
          BY <3>1, <5>3
        <5>5. End(passes[n].r) + editedDelta - passes[n].originalDelta <= Len(text)
          BY <5>1
        <5> QED
          BY <3>1, <4>2, <5>2, <5>4, <5>5, SMTT(30)
      <4> QED
        BY <2>1, <4>1, <4>3 DEF SavedFits
    <3> QED
      BY <1>1, <2>1, <3>2 DEF PassInv, Processing, Top
  <2>3. ManagersInv' /\ OuterInv'
    BY <1>1, <2>1 DEF ManagersInv, OuterInv, Listed, Known
  <2>4. SeenInv'
    BY <1>1, <1>3, <1>4, <2>1 DEF SeenInv, UpToRecord, Known, Processing, Top
  <2> QED
    BY <1>3, <2>2, <2>3, <2>4 DEF IInv
<1> QED
  BY <1>5, <1>6

LEMMA OneCharacter == <<>> \in Seq(Chars) /\ \A c \in Chars : <<c>> \in Seq(Chars)
OBVIOUS

LEMMA replaceCharactersStep ==
    ASSUME IInv, replaceCharacters PROVE IInv'
<1>1. PICK old \in RangesOf(text), new \in {<<>>} \cup {<<c>> : c \in Chars} :
         Edit("characters", old, new)
  BY DEF replaceCharacters
<1>2. new \in Seq(Chars)
  BY OneCharacter
<1>3. "characters" \in Flags
  BY DEF Flags
<1> QED
  BY <1>1, <1>2, <1>3, EditStep

LEMMA setAttributesStep ==
    ASSUME IInv, setAttributes PROVE IInv'
<1>1. PICK old \in RangesOf(text), c \in Chars :
         old.len > 0 /\ Edit("attributes", old, [k \in 1..old.len |-> c])
  BY DEF setAttributes
<1> DEFINE new == [k \in 1..old.len |-> c]
<1>2. old.len \in Nat
  BY DEF RangesOf
<1>3. new \in [1..old.len -> Chars]
  OBVIOUS
<1>4. new \in Seq(Chars) /\ Len(new) = old.len /\ "attributes" \in Flags
  BY <1>2, <1>3 DEF Flags
<1> HIDE DEF new
<1>5. Edit("attributes", old, new)
  BY <1>1 DEF new
<1> QED
  BY <1>4, <1>5, EditStep

-----------------------------------------------------------------------------
(* processEditing.                                                         *)

LEMMA TopPassInv ==
    ASSUME PassInv, passes # <<>>, NEW p, TopBecomes(p), SavedFits(p)',
           p.at \in {"will", "fix", "did"} => editCount' >= 1,
           p.at = "tell" => editCount' = 0
    PROVE  PassInv'
<1>1. Len(passes) \in Nat
  BY TopIs
<1>2. ASSUME NEW n \in 1..Len(passes) PROVE SavedFits(passes[n])'
  <2>1. CASE n < Len(passes)
    <3>1. SavedFits(passes[n]) /\ passes[n].at = "told" /\ passes'[n] = passes[n]
      BY <2>1 DEF PassInv, TopBecomes
    <3> QED
      BY <3>1 DEF SavedFits
  <2>2. CASE n = Len(passes)
    BY <2>2 DEF TopBecomes
  <2> QED
    BY <1>1, <2>1, <2>2
<1>3. \A n \in 1..Len(passes) : n < Len(passes) => passes'[n].at = "told"
  BY DEF PassInv, TopBecomes
<1>4. passes' \in Seq(Pass) /\ Len(passes') = Len(passes) /\ Len(passes) <= MaxPasses
      /\ Top' = p
  BY DEF PassInv, TopBecomes
<1> QED
  BY <1>2, <1>3, <1>4 DEF PassInv, Processing

LEMMA TopOuterInv ==
    ASSUME PassInv, OuterInv, NEW p, TopBecomes(p), ManagersInv, managers' = managers,
           \A m \in LayoutManagers : Known(m)' => Known(m)
    PROVE  OuterInv'
BY ManagersAre DEF OuterInv, TopBecomes

\* The observers of one notification, or the fixing of attributes, are done.
LEMMA StillProcessing ==
    ASSUME IInv, passes # <<>>, Processing, NEW p \in Pass,
           passes' = [passes EXCEPT ![Len(passes)] = p],
           p.at \in {"will", "fix", "did"}, SavedFits(p),
           UNCHANGED <<text, edited, layout>>
    PROVE  IInv'
<1>1. /\ RecordInv /\ PassInv /\ TextInv /\ ManagersInv /\ SeenInv /\ OuterInv
      /\ UNCHANGED <<editCount, editedMask, editedRange, editedDelta, managers, seen>>
  BY DEF IInv, edited, layout
<1>2. TopBecomes(p)
  BY <1>1, TopGoesOn
<1>3. RecordInv' /\ TextInv' /\ ManagersInv'
  BY <1>1 DEF RecordInv, TextInv, ManagersInv, Listed
<1>4. SavedFits(p)' /\ editCount' >= 1
  BY <1>1 DEF SavedFits, PassInv
<1>5. PassInv'
  BY <1>1, <1>2, <1>4, TopPassInv
<1>6. OuterInv'
  BY <1>1, <1>2, TopOuterInv DEF Known
<1>7. Processing' /\ Top' = p
  BY <1>2 DEF TopBecomes, Processing
<1>8. SeenInv'
  BY <1>1, <1>7 DEF SeenInv, UpToRecord, Known
<1> QED
  BY <1>3, <1>5, <1>6, <1>8 DEF IInv

LEMMA WillProcessDoneStep ==
    ASSUME IInv, WillProcessDone PROVE IInv'
<1> DEFINE p == [Top EXCEPT !.at = "fix", !.r = Clipped(editedRange),
                            !.originalDelta = editedDelta]
<1>1. /\ RecordInv /\ PassInv /\ passes # <<>> /\ Top.at = "will"
      /\ UNCHANGED <<text, edited, layout>>
  BY DEF IInv, WillProcessDone
<1>2. passes' = [passes EXCEPT ![Len(passes)] = p]
  BY DEF WillProcessDone, Top
<1>3. Top \in Pass /\ Len(text) \in Nat
  BY <1>1, TopIs DEF IInv, TextInv
<1>4. /\ Clipped(editedRange) = editedRange /\ editedRange \in SizedRange
      /\ editedDelta <= editedRange.len /\ editedDelta \in Int
      /\ End(editedRange) <= Len(text) /\ End(editedRange) \in Nat
  BY <1>1, <1>3 DEF RecordInv, Clipped, SizedRange, End
<1>5. p \in Pass /\ p.at = "fix" /\ p.r = editedRange /\ p.originalDelta = editedDelta
  <2>1. editedRange \in Range
    BY <1>4, SizedIs
  <2> QED
    BY <1>3, <1>4, <2>1 DEF Pass
<1> HIDE DEF p
<1>6. SavedFits(p)
  BY <1>3, <1>4, <1>5 DEF SavedFits
<1>7. Processing
  BY <1>1 DEF Processing
<1> QED
  BY <1>1, <1>2, <1>5, <1>6, <1>7, StillProcessing

LEMMA FixDoneStep ==
    ASSUME IInv, FixDone PROVE IInv'
<1> DEFINE p == [Top EXCEPT !.at = "did"]
<1>1. PassInv /\ passes # <<>> /\ Top.at = "fix" /\ UNCHANGED <<text, edited, layout>>
  BY DEF IInv, FixDone
<1>2. passes' = [passes EXCEPT ![Len(passes)] = p]
  BY DEF FixDone, Top
<1>3. Top \in Pass /\ SavedFits(Top)
  BY <1>1, TopIs
<1>4. p \in Pass /\ p.at = "did" /\ p.r = Top.r /\ p.originalDelta = Top.originalDelta
  BY <1>3 DEF Pass
<1> HIDE DEF p
<1>5. SavedFits(p)
  BY <1>1, <1>3, <1>4 DEF SavedFits
<1>6. Processing
  BY <1>1 DEF Processing
<1> QED
  BY <1>1, <1>2, <1>4, <1>5, <1>6, StillProcessing

\* The saved range still denotes a part of the text.
LEMMA AdjustedFits ==
    ASSUME NEW r \in SizedRange, NEW o \in Int, NEW d \in Int, o <= r.len,
           Len(text) \in Nat, End(r) + d - o <= Len(text)
    PROVE  /\ Adjusted(r, d - o) \in SizedRange /\ d <= Adjusted(r, d - o).len
           /\ End(Adjusted(r, d - o)) <= Len(text)
<1> DEFINE c == d - o
<1>1. /\ c \in Int /\ r.len \in Nat /\ r.loc \in Nat /\ d = o + c
      /\ r.loc + r.len + c <= Len(text)
  BY DEF SizedRange, End
<1> HIDE DEF c
<1>2. CASE r.len + c >= 0
  <2>1. Adjusted(r, c) = Grown(r, c)
    BY <1>2 DEF Adjusted
  <2>2. /\ Grown(r, c).loc = r.loc /\ Grown(r, c).len = r.len + c
        /\ Grown(r, c) \in SizedRange /\ End(Grown(r, c)) = End(r) + c
    BY <1>1, <1>2, GrownIs
  <2>3. d <= r.len + c /\ End(r) + c <= Len(text)
    BY <1>1 DEF End
  <2> QED
    BY <2>1, <2>2, <2>3 DEF c
<1>3. CASE ~(r.len + c >= 0)
  <2> DEFINE a == [loc |-> Min(r.loc, Len(text)), len |-> 0]
  <2>1. Adjusted(r, c) = a
    BY <1>3 DEF Adjusted
  <2>2. Min(r.loc, Len(text)) \in Nat /\ Min(r.loc, Len(text)) <= Len(text)
    BY <1>1 DEF Min
  <2>3. d <= 0
    BY <1>1, <1>3
  <2>4. a \in SizedRange /\ a.len = 0 /\ End(a) <= Len(text)
    BY <2>2 DEF SizedRange, End
  <2> QED
    BY <2>1, <2>3, <2>4 DEF c
<1> QED
  BY <1>2, <1>3

LEMMA DidProcessDoneStep ==
    ASSUME IInv, DidProcessDone PROVE IInv'
<1> DEFINE r == Adjusted(Top.r, editedDelta - Top.originalDelta)
           told == [Top EXCEPT !.at = "tell", !.i = 1,
                      !.originalDelta = 0, !.r = r, !.mask = editedMask,
                      !.range = editedRange, !.delta = editedDelta]
<1>1. /\ RecordInv /\ PassInv /\ TextInv /\ ManagersInv /\ SeenInv /\ OuterInv
      /\ passes # <<>> /\ Top.at = "did"
      /\ editCount' = 0 /\ editedMask' = {} /\ editedRange' = NoRange /\ editedDelta' = 0
      /\ UNCHANGED <<text, managers, seen>>
  BY DEF IInv, DidProcessDone, layout
<1>2. Top \in Pass /\ SavedFits(Top) /\ Len(text) \in Nat /\ Top.originalDelta \in Int
  BY <1>1, TopIs, PassFields DEF TextInv
<1>3. /\ editedRange \in SizedRange /\ editedDelta \in Int /\ editedMask \subseteq Flags
      /\ editedRange \in Range /\ ("characters" \notin editedMask => editedDelta = 0)
  BY <1>1, SizedIs DEF RecordInv
<1>4. r \in SizedRange /\ editedDelta <= r.len /\ End(r) <= Len(text) /\ r \in Range
  <2>1. r \in SizedRange /\ editedDelta <= r.len /\ End(r) <= Len(text)
    BY <1>1, <1>2, <1>3, AdjustedFits DEF SavedFits
  <2> QED
    BY <2>1, SizedIs
<1>5. passes' = [passes EXCEPT ![Len(passes)] = told]
  BY DEF DidProcessDone, Top
<1> HIDE DEF r
<1>6. PICK p \in Pass : /\ p.at = "tell" /\ p.r = r /\ p.range = editedRange
                        /\ p.i = 1 /\ p.mask = editedMask /\ p.delta = editedDelta
                        /\ passes' = [passes EXCEPT ![Len(passes)] = p]
  <2>1. /\ told \in Pass /\ told.at = "tell" /\ told.r = r /\ told.range = editedRange
        /\ told.i = 1 /\ told.mask = editedMask /\ told.delta = editedDelta
    <3>1. editedMask \in SUBSET Flags
      BY <1>3
    <3>2. Top \in Pass /\ r \in Range /\ editedRange \in Range /\ editedDelta \in Int
      BY <1>2, <1>3, <1>4
    <3>3. PICK x \in Pass, s \in Range, mask \in SUBSET Flags, range \in Range, delta \in Int :
             /\ x = Top /\ s = r /\ mask = editedMask
             /\ range = editedRange /\ delta = editedDelta
      BY <3>1, <3>2
    <3> DEFINE y == [x EXCEPT !.at = "tell", !.i = 1, !.originalDelta = 0, !.r = s,
                              !.mask = mask, !.range = range, !.delta = delta]
    <3>4. told = y
      BY <3>3
    <3>5. /\ y \in Pass /\ y.at = "tell" /\ y.i = 1 /\ y.r = s
          /\ y.mask = mask /\ y.range = range /\ y.delta = delta
      <4>1. DOMAIN x = {"at", "r", "originalDelta", "i", "mask", "range", "delta"}
        BY DEF Pass
      <4>2. /\ y.at = "tell" /\ y.i = 1 /\ y.r = s
            /\ y.mask = mask /\ y.range = range /\ y.delta = delta
        BY <4>1
      <4>3. "tell" \in {"will", "fix", "did", "tell", "told"} /\ 1 \in Nat /\ 0 \in Int
        OBVIOUS
      <4>4. y \in Pass
        BY <4>3, PassTyped DEF Pass
      <4> HIDE DEF y
      <4> QED
        BY <4>2, <4>4
    <3> HIDE DEF told, y
    <3> QED
      BY <3>3, <3>4, <3>5
  <2> HIDE DEF told
  <2> QED
    BY <1>5, <2>1
<1>7. Change(p) = editedDelta
  BY <1>3, <1>6 DEF Change
<1>8. TopBecomes(p)
  BY <1>1, <1>6, TopGoesOn
<1>9. RecordInv' /\ TextInv' /\ ManagersInv'
  <2>1. NoRange \in SizedRange /\ NoRange.len = 0 /\ End(NoRange) = 0
    BY DEF NoRange, SizedRange, End
  <2> QED
    BY <1>1, <1>2, <2>1 DEF RecordInv, TextInv, ManagersInv, Listed
<1>10. SavedFits(p)'
  BY <1>3, <1>4, <1>6, <1>7 DEF SavedFits, Change
<1>11. PassInv'
  BY <1>1, <1>6, <1>8, <1>10, TopPassInv
<1>12. OuterInv'
  BY <1>1, <1>8, TopOuterInv DEF Known
<1>13. Processing
  BY <1>1 DEF Processing
<1>14. SeenInv'
  <2> SUFFICES ASSUME NEW k \in 1..Len(managers), Known(managers[k])
               PROVE  /\ ~UpToRecord(k)' /\ Covers(p.range, Change(p), seen[managers[k]], text)
                      /\ End(p.r) <= Len(text)
    BY <1>1, <1>8 DEF SeenInv, TopBecomes, Known, Change
  <2>1. Covers(editedRange, editedDelta, seen[managers[k]], text)
    BY <1>1, <1>13 DEF SeenInv, UpToRecord
  <2>2. ~UpToRecord(k)'
    <3>1. passes' # <<>> /\ Top' = p
      BY <1>8 DEF TopBecomes
    <3>2. p.at = "tell" /\ p.i = 1
      BY <1>6
    <3>3. ~(k < 1)
      BY <1>1, ManagersAre
    <3> QED
      BY <3>1, <3>2, <3>3 DEF UpToRecord, Processing
  <2> QED
    BY <1>4, <1>6, <1>7, <2>1, <2>2
<1> QED
  BY <1>9, <1>11, <1>12, <1>14 DEF IInv

\* A pass that tells still knows what it tells.
LEMMA StillFits ==
    ASSUME NEW x, NEW y, SavedFits(x), x.at \in {"tell", "told"}, y.at \in {"tell", "told"},
           y.r = x.r, y.mask = x.mask, y.range = x.range, y.delta = x.delta, y.i >= 1
    PROVE  SavedFits(y)' /\ Change(y) = Change(x)
BY DEF SavedFits, Change

LEMMA TellNextStep ==
    ASSUME IInv, TellNext PROVE IInv'
<1> DEFINE q == [Top EXCEPT !.at = "tell", !.i = Top.i + 1]
<1>1. /\ RecordInv /\ PassInv /\ TextInv /\ ManagersInv /\ SeenInv /\ OuterInv
      /\ passes # <<>> /\ Top.at = "told" /\ OpenBrackets = 0
      /\ UNCHANGED <<text, editCount, editedMask, editedRange, editedDelta, managers, seen>>
  BY DEF IInv, TellNext, edited, layout
<1>2. Top \in Pass /\ SavedFits(Top) /\ Top.i \in Nat
  BY <1>1, TopIs, PassFields
<1>3. passes' = [passes EXCEPT ![Len(passes)] = q]
  BY DEF TellNext, Top
<1>4. /\ q \in Pass /\ q.at = "tell" /\ q.i = Top.i + 1 /\ q.r = Top.r
      /\ q.mask = Top.mask /\ q.range = Top.range /\ q.delta = Top.delta
  <2>1. DOMAIN Top = {"at", "r", "originalDelta", "i", "mask", "range", "delta"}
    BY <1>2 DEF Pass
  <2>2. /\ q.at = "tell" /\ q.i = Top.i + 1 /\ q.r = Top.r
        /\ q.mask = Top.mask /\ q.range = Top.range /\ q.delta = Top.delta
    BY <2>1
  <2>3. q \in Pass
    <3>1. /\ {"told", "tell"} \subseteq {"will", "fix", "did", "tell", "told"}
          /\ Top.i \in Nat /\ Top.i + 1 \in Nat
      BY <1>2
    <3> QED
      BY <1>2, <3>1, PassAtTyped DEF Pass
  <2> HIDE DEF q
  <2> QED
    BY <2>2, <2>3
<1> HIDE DEF q
<1>5. PICK p \in Pass : p = q
  BY <1>4
<1>6. TopBecomes(p)
  BY <1>1, <1>3, <1>5, TopGoesOn
<1>7. SavedFits(p)' /\ Change(p) = Change(Top)
  BY <1>1, <1>2, <1>4, <1>5, StillFits
<1>8. editCount = 0 /\ editedMask = {}
  BY <1>1 DEF OpenBrackets, Processing, RecordInv
<1>9. PassInv'
  BY <1>1, <1>4, <1>5, <1>6, <1>7, <1>8, TopPassInv
<1>10. OuterInv'
  BY <1>1, <1>6, TopOuterInv DEF Known
<1>11. RecordInv' /\ TextInv' /\ ManagersInv'
  BY <1>1 DEF RecordInv, TextInv, ManagersInv, Listed
<1>12. \A k \in 1..Len(managers) : UpToRecord(k)' <=> UpToRecord(k)
  <2> TAKE k \in 1..Len(managers)
  <2>1. Top' = p /\ passes' # <<>> /\ p.at = "tell" /\ p.i = Top.i + 1
    BY <1>4, <1>5, <1>6 DEF TopBecomes
  <2>2. k \in Nat
    BY <1>1, ManagersAre
  <2> QED
    BY <1>1, <1>2, <2>1, <2>2 DEF UpToRecord, Processing
<1>13. Top' = p /\ p.range = Top.range /\ p.r = Top.r
  BY <1>4, <1>5, <1>6 DEF TopBecomes
<1>14. SeenInv'
  <2> SUFFICES ASSUME NEW k \in 1..Len(managers), Known(managers[k])
               PROVE  /\ UpToRecord(k) =>
                           Covers(editedRange, editedDelta, seen[managers[k]], text)
                      /\ ~UpToRecord(k) =>
                           /\ Covers(p.range, Change(p), seen[managers[k]], text)
                           /\ End(p.r) <= Len(text)
    BY <1>1, <1>12, <1>13 DEF SeenInv, Known, Change
  <2> QED
    BY <1>1, <1>7, <1>8, <1>13 DEF SeenInv
<1> QED
  BY <1>9, <1>10, <1>11, <1>14 DEF IInv

LEMMA TellStep ==
    ASSUME IInv, Tell PROVE IInv'
<1> DEFINE q == [Top EXCEPT !.at = "told", !.i = Top.i]
<1>0. PICK i, m : i = Top.i /\ m = managers[i]
  OBVIOUS
<1>1. /\ RecordInv /\ PassInv /\ TextInv /\ ManagersInv /\ SeenInv /\ OuterInv
      /\ passes # <<>> /\ Top.at = "tell" /\ i <= Len(managers)
      /\ UNCHANGED <<text, editCount, editedMask, editedRange, editedDelta, managers>>
  BY <1>0 DEF IInv, Tell, edited, layout
<1>2. /\ Top \in Pass /\ SavedFits(Top) /\ i = Top.i /\ i \in 1..Len(managers) /\ i \in Nat
      /\ Len(managers) \in Nat
  BY <1>0, <1>1, TopIs, PassFields, ManagersAre DEF SavedFits
<1>3. passes' = [passes EXCEPT ![Len(passes)] = q]
  <2>1. passes' = [passes EXCEPT ![Len(passes)] = [Top EXCEPT !.at = "told"]]
    BY DEF Tell, Top
  <2>2. [Top EXCEPT !.at = "told"] = q
    BY <1>2 DEF Pass
  <2> QED
    BY <2>1, <2>2
<1>4. /\ q \in Pass /\ q.at = "told" /\ q.i = Top.i /\ q.r = Top.r
      /\ q.mask = Top.mask /\ q.range = Top.range /\ q.delta = Top.delta
  <2>1. DOMAIN Top = {"at", "r", "originalDelta", "i", "mask", "range", "delta"}
    BY <1>2 DEF Pass
  <2>2. /\ q.at = "told" /\ q.i = Top.i /\ q.r = Top.r
        /\ q.mask = Top.mask /\ q.range = Top.range /\ q.delta = Top.delta
    BY <2>1
  <2>3. q \in Pass
    <3>1. /\ {"told", "tell"} \subseteq {"will", "fix", "did", "tell", "told"}
          /\ Top.i \in Nat /\ Top.i + 1 \in Nat
      BY <1>2
    <3> QED
      BY <1>2, <3>1, PassAtTyped DEF Pass
  <2> HIDE DEF q
  <2> QED
    BY <2>2, <2>3
<1> HIDE DEF q
<1>5. PICK p \in Pass : p = q
  BY <1>4
<1>6. TopBecomes(p)
  BY <1>1, <1>3, <1>5, TopGoesOn
<1>7. SavedFits(p)' /\ Change(p) = Change(Top)
  BY <1>1, <1>2, <1>4, <1>5, StillFits
<1>8. /\ editCount = 0 /\ editedMask = {} /\ editedRange = NoRange /\ editedDelta = 0
  BY <1>1 DEF PassInv, RecordInv
<1>9. PassInv'
  BY <1>1, <1>4, <1>5, <1>6, <1>7, <1>8, TopPassInv
<1>10. /\ m \in LayoutManagers /\ seen \in Seens /\ text \in Seq(Chars)
       /\ \A k \in 1..Len(managers) : managers[k] \in LayoutManagers
       /\ \A k \in 1..Len(managers) : managers[k] = m => k = i
  BY <1>0, <1>1, <1>2, ManagersAre DEF TextInv, ManagersInv
<1>11. Top.at = "tell" /\ ~UpToRecord(i)
  BY <1>0, <1>1, <1>2 DEF UpToRecord, Processing
<1>12. Updated(m, Top) = IF Known(m) THEN text ELSE seen[m]
  <2>1. CASE Known(m)
    <3>1. Covers(Top.range, Change(Top), seen[m], text)
      BY <1>0, <1>1, <1>2, <1>8, <1>11, <2>1 DEF SeenInv
    <3>2. seen[m] \in Seq(Chars) /\ Top.range \in SizedRange /\ Change(Top) \in Int
      BY <1>1, <1>2, <1>10, <2>1, PassFields DEF Known, Seens, SavedFits
    <3>3. Replaced(seen[m], Grown(Top.range, -Change(Top)), text, Top.range) = text
      BY <1>10, <3>1, <3>2, CoveredReplaced
    <3> QED
      BY <2>1, <3>3 DEF Updated, Known
  <2>2. CASE ~Known(m)
    BY <2>2 DEF Updated, Known
  <2> QED
    BY <2>1, <2>2
<1>13. seen' = [seen EXCEPT ![m] = Updated(m, Top)]
  BY <1>0 DEF Tell
<1>14. /\ seen' \in Seens
       /\ \A x \in LayoutManagers : x # m => seen'[x] = seen[x]
       /\ seen'[m] = IF Known(m) THEN text ELSE seen[m]
  <2>1. PICK u : u = Updated(m, Top)
    OBVIOUS
  <2>2. seen' = [seen EXCEPT ![m] = u] /\ u = IF Known(m) THEN text ELSE seen[m]
    BY <1>12, <1>13, <2>1
  <2>3. PICK g : g = seen'
    OBVIOUS
  <2>4. g \in Seens /\ g[m] = u /\ \A x \in LayoutManagers : x # m => g[x] = seen[x]
    <3>1. u \in Seq(Chars) \cup {Nothing, Unknown}
      BY <1>10, <2>2 DEF Seens
    <3>2. g = [seen EXCEPT ![m] = u] /\ seen \in Seens /\ m \in LayoutManagers
      BY <1>10, <2>2, <2>3
    <3> QED
      BY <3>1, <3>2 DEF Seens
  <2> QED
    BY <2>2, <2>3, <2>4
<1>15. /\ \A x \in LayoutManagers : Known(x)' => Known(x)
       /\ \A x \in LayoutManagers : seen[x] = Nothing => seen'[x] = Nothing
       /\ Known(m)' => seen'[m] = text
  <2>1. ASSUME NEW x \in LayoutManagers
        PROVE  (Known(x)' => Known(x)) /\ (seen[x] = Nothing => seen'[x] = Nothing)
    <3>1. CASE x = m
      BY <1>14, <3>1 DEF Known
    <3>2. CASE x # m
      BY <1>14, <3>2 DEF Known
    <3> QED
      BY <3>1, <3>2
  <2> QED
    BY <2>1, <1>14 DEF Known
<1>16. ManagersInv' /\ RecordInv' /\ TextInv'
  BY <1>1, <1>14, <1>15, FewerKnown DEF RecordInv, TextInv
<1>17. OuterInv'
  BY <1>1, <1>6, <1>10, <1>15, TopOuterInv
<1>18. Top' = p /\ passes' # <<>> /\ p.at = "told" /\ p.i = i /\ p.range = Top.range /\ p.r = Top.r
  BY <1>0, <1>4, <1>5, <1>6 DEF TopBecomes
<1>19. \A k \in 1..Len(managers) : UpToRecord(k)' <=> UpToRecord(k) \/ k = i
  <2> TAKE k \in 1..Len(managers)
  <2> QED
    BY <1>0, <1>1, <1>2, <1>11, <1>18 DEF UpToRecord, Processing
<1>20. SeenInv'
  <2> SUFFICES ASSUME NEW k \in 1..Len(managers), Known(managers[k])'
               PROVE  /\ UpToRecord(k)' =>
                           Covers(NoRange, 0, seen'[managers[k]], text)
                      /\ ~UpToRecord(k)' =>
                           /\ Covers(Top.range, Change(Top), seen'[managers[k]], text)
                           /\ End(Top.r) <= Len(text)
    BY <1>1, <1>7, <1>8, <1>18 DEF SeenInv, Change
  <2>3. managers[k] \in LayoutManagers /\ Known(managers[k])
        /\ (k = i => Known(m)')
    <3>1. managers' = managers
      BY <1>1
    <3> QED
      BY <1>0, <1>10, <1>15, <3>1 DEF Known
  <2>1. CASE k = i
    <3>1. seen'[managers[k]] = text
      BY <1>0, <1>15, <2>3, <2>1
    <3>2. Covers(NoRange, 0, seen'[managers[k]], text)
      BY <1>10, <3>1, CoversNothing
    <3>3. UpToRecord(k)'
      BY <1>19, <2>1
    <3> QED
      BY <3>2, <3>3
  <2>2. CASE k # i
    <3>1. seen'[managers[k]] = seen[managers[k]] /\ Known(managers[k])
      BY <1>10, <1>14, <2>3, <2>2
    <3>2. UpToRecord(k)' <=> UpToRecord(k)
      BY <1>19, <2>2
    <3> QED
      BY <1>1, <1>8, <3>1, <3>2 DEF SeenInv
  <2> QED
    BY <2>1, <2>2
<1> QED
  BY <1>9, <1>16, <1>17, <1>20 DEF IInv

\* Passes end.
LEMMA FewerPasses ==
    ASSUME PassInv, passes # <<>>, NEW n \in 0..Len(passes) - 1,
           passes' = SubSeq(passes, 1, n)
    PROVE  /\ PassInv' /\ ~Processing' /\ Len(passes') = n /\ n \in Nat
           /\ \A k \in 1..n : passes'[k] = passes[k] /\ k \in 1..Len(passes) /\ k < Len(passes)
           /\ (passes' = <<>> <=> n = 0)
           /\ (n > 0 => Top' = passes[n] /\ Top'.at = "told")
<1>1. Len(passes) \in Nat /\ n \in Nat /\ n <= Len(passes) /\ n < Len(passes)
      /\ passes \in Seq(Pass) /\ Len(passes) <= MaxPasses
  BY DEF PassInv
<1>2. \A s \in Seq(Pass) : \A j \in 0..Len(s) :
         /\ SubSeq(s, 1, j) \in Seq(Pass) /\ Len(SubSeq(s, 1, j)) = j
         /\ \A k \in 1..j : SubSeq(s, 1, j)[k] = s[k]
  OBVIOUS
<1>3. /\ passes' \in Seq(Pass) /\ Len(passes') = n
      /\ \A k \in 1..n : passes'[k] = passes[k]
  BY <1>1, <1>2
<1>4. \A k \in 1..n : k \in 1..Len(passes) /\ k < Len(passes)
  BY <1>1
<1>5. \A k \in 1..n : passes[k].at = "told" /\ SavedFits(passes[k])
  BY <1>4 DEF PassInv
<1>6. passes' = <<>> <=> n = 0
  <2>1. \A s \in Seq(Pass) : s = <<>> <=> Len(s) = 0
    OBVIOUS
  <2> QED
    BY <1>3, <2>1
<1>7. n > 0 => Top' = passes[n] /\ Top'.at = "told"
  BY <1>1, <1>3, <1>5 DEF Top
<1>8. ~Processing'
  BY <1>1, <1>6, <1>7 DEF Processing
<1>9. \A k \in 1..n : SavedFits(passes[k])'
  <2> TAKE k \in 1..n
  <2>1. passes'[k] = passes[k]
    BY <1>3
  <2> QED
    BY <1>5, <2>1 DEF SavedFits
<1>10. n <= MaxPasses
  BY <1>1
<1>11. PassInv'
  BY <1>1, <1>3, <1>5, <1>6, <1>7, <1>8, <1>9, <1>10 DEF PassInv
<1> QED
  BY <1>1, <1>3, <1>4, <1>6, <1>7, <1>8, <1>11

LEMMA AllToldStep ==
    ASSUME IInv, AllTold PROVE IInv'
<1> DEFINE n == Len(passes) - 1
<1>1. /\ RecordInv /\ PassInv /\ TextInv /\ ManagersInv /\ SeenInv /\ OuterInv
      /\ passes # <<>> /\ Top.at = "tell" /\ Top.i > Len(managers)
      /\ UNCHANGED <<text, editCount, editedMask, editedRange, editedDelta, managers, seen>>
  BY DEF IInv, AllTold, edited, layout
<1>2. passes' = SubSeq(passes, 1, n) /\ n \in 0..Len(passes) - 1
  BY <1>1, TopIs DEF AllTold, Outer
<1> HIDE DEF n
<1>3. /\ PassInv' /\ Len(passes') = n /\ n \in Nat /\ ~Processing'
      /\ \A k \in 1..n : passes'[k] = passes[k] /\ k \in 1..Len(passes) /\ k < Len(passes)
      /\ (passes' = <<>> <=> n = 0)
      /\ (n > 0 => Top' = passes[n] /\ Top'.at = "told")
  BY <1>1, <1>2, FewerPasses
<1>4. RecordInv' /\ TextInv' /\ ManagersInv'
  BY <1>1 DEF RecordInv, TextInv, ManagersInv, Listed
<1>5. OuterInv'
  <2> SUFFICES ASSUME NEW j \in 1..n, NEW k \in 1..Len(managers), k > passes[j].i
               PROVE  ~Known(managers[k])
    BY <1>1, <1>3 DEF OuterInv, Known
  <2> QED
    BY <1>1, <1>3 DEF OuterInv
<1>6. SeenInv'
  <2> SUFFICES ASSUME NEW k \in 1..Len(managers), Known(managers[k])
               PROVE  /\ Covers(editedRange, editedDelta, seen[managers[k]], text)
                      /\ UpToRecord(k)'
    BY <1>1 DEF SeenInv, Known
  <2>1. /\ Len(managers) \in Nat /\ Top.i \in Nat /\ k \in Nat
    BY <1>1, TopIs, PassFields, ManagersAre
  <2>2. UpToRecord(k)
    BY <1>1, <2>1 DEF UpToRecord
  <2>3. CASE n = 0
    BY <1>1, <1>3, <2>2, <2>3 DEF SeenInv, UpToRecord
  <2>4. CASE n > 0
    <3>1. n \in 1..n
      BY <1>3, <2>4
    <3>2. ~(k > passes[n].i)
      BY <1>1, <1>3, <3>1 DEF OuterInv
    <3>3. passes[n] \in Pass
      BY <1>1, <1>3, <3>1 DEF PassInv
    <3>4. k <= Top'.i
      BY <1>3, <2>1, <2>4, <3>2, <3>3, PassFields
    <3> QED
      BY <1>1, <1>3, <2>2, <2>4, <3>4 DEF SeenInv, UpToRecord
  <2> QED
    BY <1>3, <2>3, <2>4
<1> QED
  BY <1>3, <1>4, <1>5, <1>6 DEF IInv

\* Those told before the one that raises have the text and its record.
LEMMA ManagerRaisesStep ==
    ASSUME IInv, NEW j \in 1..MaxPasses, ManagerRaises(j) PROVE IInv'
<1> DEFINE n == Len(passes) - j
<1>0. PICK left : left = UNION {Unreached(passes[k]) : k \in Len(passes') + 1..Len(passes)}
  OBVIOUS
<1>1. /\ RecordInv /\ PassInv /\ TextInv /\ ManagersInv /\ SeenInv /\ OuterInv
      /\ passes # <<>> /\ j \in 1..Len(passes) /\ Top.at = "told"
      /\ seen' = Lost(left)
      /\ UNCHANGED <<text, editCount, editedMask, editedRange, editedDelta, managers>>
  BY <1>0 DEF IInv, ManagerRaises, edited
<1>2. passes' = SubSeq(passes, 1, n) /\ n \in 0..Len(passes) - 1
  BY <1>1, TopIs DEF ManagerRaises
<1> HIDE DEF n
<1>3. /\ PassInv' /\ Len(passes') = n /\ n \in Nat /\ ~Processing'
      /\ \A k \in 1..n : passes'[k] = passes[k] /\ k \in 1..Len(passes) /\ k < Len(passes)
      /\ (passes' = <<>> <=> n = 0)
      /\ (n > 0 => Top' = passes[n] /\ Top'.at = "told")
  BY <1>1, <1>2, FewerPasses
<1>4. /\ seen' \in Seens /\ DOMAIN managers = 1..Len(managers)
      /\ \A m \in LayoutManagers : seen[m] = Nothing => seen'[m] = Nothing
      /\ \A k \in 1..Len(managers) : Known(managers[k])' =>
            managers[k] \notin left /\ seen'[managers[k]] = seen[managers[k]]
  <2>1. /\ seen \in Seens /\ DOMAIN managers = 1..Len(managers)
        /\ \A k \in 1..Len(managers) : managers[k] \in LayoutManagers
    BY <1>1, ManagersAre
  <2> QED
    BY <1>1, <2>1, LostIs DEF Known
<1>5. RecordInv' /\ TextInv' /\ ManagersInv'
  BY <1>1, <1>4, FewerKnown DEF RecordInv, TextInv
<1>6. OuterInv'
  <2> SUFFICES ASSUME NEW p \in 1..n, NEW k \in 1..Len(managers), k > passes[p].i
               PROVE  ~Known(managers[k])'
    BY <1>1, <1>3 DEF OuterInv
  <2>1. ~Known(managers[k])
    BY <1>1, <1>3 DEF OuterInv
  <2> QED
    BY <1>1, <1>4, <2>1 DEF Known
<1>7. SeenInv'
  <2> SUFFICES ASSUME NEW k \in 1..Len(managers), Known(managers[k])'
               PROVE  /\ Covers(editedRange, editedDelta, seen[managers[k]], text)
                      /\ UpToRecord(k)'
    BY <1>1, <1>4 DEF SeenInv
  <2>1. /\ Len(managers) \in Nat /\ Top.i \in Nat /\ k \in Nat
    BY <1>1, TopIs, PassFields, ManagersAre
  <2>2. Known(managers[k]) /\ managers[k] \notin left
    BY <1>1, <1>4 DEF Known
  <2>3. k < Top.i
    <3>1. Len(passes) \in Len(passes') + 1..Len(passes) /\ Top = passes[Len(passes)]
      BY <1>1, <1>2, <1>3, TopIs DEF Top
    <3>2. managers[k] \notin Unreached(Top)
      BY <1>0, <2>2, <3>1
    <3> QED
      BY <1>4, <2>1, <3>2 DEF Unreached
  <2>4. UpToRecord(k)
    BY <1>1, <2>1, <2>3 DEF UpToRecord
  <2>5. Covers(editedRange, editedDelta, seen[managers[k]], text)
    BY <1>1, <2>2, <2>4 DEF SeenInv
  <2>6. CASE n = 0
    BY <1>3, <2>5, <2>6 DEF UpToRecord
  <2>7. CASE n > 0
    <3>1. n \in 1..n
      BY <1>3, <2>7
    <3>2. ~(k > passes[n].i)
      BY <1>1, <1>3, <2>2, <3>1 DEF OuterInv
    <3>3. passes[n] \in Pass
      BY <1>1, <1>3, <3>1 DEF PassInv
    <3>4. k <= Top'.i
      BY <1>3, <2>1, <2>7, <3>2, <3>3, PassFields
    <3> QED
      BY <1>3, <2>5, <2>7, <3>4 DEF UpToRecord
  <2> QED
    BY <1>3, <2>6, <2>7
<1> QED
  BY <1>3, <1>5, <1>6, <1>7 DEF IInv

LEMMA AppendIs ==
    ASSUME NEW S, NEW s \in Seq(S), NEW e \in S
    PROVE  /\ Append(s, e) \in Seq(S) /\ Len(Append(s, e)) = Len(s) + 1
           /\ Append(s, e)[Len(s) + 1] = e
           /\ \A k \in 1..Len(s) : Append(s, e)[k] = s[k]
OBVIOUS

LEMMA addLayoutManagerStep ==
    ASSUME IInv, NEW m \in LayoutManagers, addLayoutManager(m) PROVE IInv'
<1>0. PICK n : n = Len(managers)
  OBVIOUS
<1>1. /\ RecordInv /\ PassInv /\ TextInv /\ ManagersInv /\ SeenInv /\ OuterInv
      /\ ~Listed(m) /\ UNCHANGED <<text, editCount, editedMask, editedRange, editedDelta,
                                  seen, passes, edits>>
  BY DEF IInv, addLayoutManager, edited
<1>2. /\ n \in Nat /\ DOMAIN managers = 1..n /\ managers \in Seq(LayoutManagers)
      /\ seen[m] = Nothing
  BY <1>0, <1>1, ManagersAre DEF ManagersInv
<1>3. /\ managers' \in Seq(LayoutManagers) /\ Len(managers') = n + 1
      /\ managers'[n + 1] = m /\ \A k \in 1..n : managers'[k] = managers[k]
      /\ DOMAIN managers' = 1..n + 1
  <2>1. managers' = Append(managers, m)
    BY DEF addLayoutManager
  <2> QED
    BY <1>0, <1>2, <2>1, AppendIs
<1>4. \A k \in 1..n + 1 : k \in 1..n \/ k = n + 1
  BY <1>2
<1>5. \A k \in 1..n : managers[k] # m
  BY <1>1, <1>2 DEF Listed
<1>6. RecordInv' /\ PassInv' /\ TextInv'
  <2>1. Processing' <=> Processing
    BY <1>1 DEF Processing, Top
  <2>2. Top' = Top
    BY <1>1 DEF Top
  <2>3. ASSUME NEW x, SavedFits(x) PROVE SavedFits(x)'
    BY <1>1, <2>3 DEF SavedFits
  <2> QED
    BY <1>1, <2>1, <2>2, <2>3 DEF RecordInv, PassInv, TextInv
<1>7. ManagersInv'
  <2>1. ASSUME NEW j \in 1..n + 1, NEW k \in 1..n + 1, managers'[j] = managers'[k]
        PROVE  j = k
    BY <1>0, <1>1, <1>3, <1>4, <1>5, <2>1 DEF ManagersInv
  <2>2. ASSUME NEW x \in LayoutManagers, ~Listed(x)' PROVE seen[x] = Nothing
    <3>1. ~Listed(x)
      <4> SUFFICES ASSUME NEW k \in 1..n, managers[k] = x PROVE FALSE
        BY <1>2 DEF Listed
      <4>1. k \in 1..n + 1
        BY <1>2
      <4> QED
        BY <1>3, <2>2, <4>1 DEF Listed
    <3> QED
      BY <1>1, <3>1 DEF ManagersInv
  <2> QED
    BY <1>1, <1>3, <2>1, <2>2 DEF ManagersInv
<1>8. ASSUME NEW k \in 1..n + 1, Known(managers[k])'
      PROVE  k \in 1..n /\ managers'[k] = managers[k] /\ Known(managers[k])
  <2>1. seen'[managers'[k]] \notin {Nothing, Unknown} /\ seen' = seen
    BY <1>1, <1>8 DEF Known
  <2>2. k # n + 1
    BY <1>2, <1>3, <2>1
  <2>3. k \in 1..n /\ managers'[k] = managers[k]
    BY <1>3, <1>4, <2>2
  <2> QED
    BY <2>1, <2>3 DEF Known
<1>9. OuterInv'
  BY <1>0, <1>1, <1>3, <1>8 DEF OuterInv
<1>10. \A k \in 1..n : UpToRecord(k)' <=> UpToRecord(k)
  BY <1>1 DEF UpToRecord, Processing, Top
<1>11. SeenInv'
  <2>1. Top' = Top
    BY <1>1 DEF Top
  <2> QED
    BY <1>0, <1>1, <1>3, <1>8, <1>10, <2>1 DEF SeenInv, Change
<1> QED
  BY <1>6, <1>7, <1>9, <1>11 DEF IInv

LEMMA removeLayoutManagerStep ==
    ASSUME IInv, NEW m \in LayoutManagers, removeLayoutManager(m) PROVE IInv'
<1>0. PICK n : n = Len(managers)
  OBVIOUS
<1>1. /\ RecordInv /\ PassInv /\ TextInv /\ ManagersInv /\ SeenInv /\ OuterInv
      /\ InApplication /\ UNCHANGED <<text, editCount, editedMask, editedRange, editedDelta,
                                     passes, edits>>
  BY DEF IInv, removeLayoutManager, edited
<1>2. /\ n \in Nat /\ DOMAIN managers = 1..n /\ managers \in Seq(LayoutManagers)
      /\ seen \in Seens /\ \A k \in 1..n : managers[k] \in LayoutManagers
      /\ \A j, k \in 1..n : managers[j] = managers[k] => j = k
  BY <1>0, <1>1, ManagersAre DEF ManagersInv
<1>3. PICK p \in 1..n :
         /\ managers[p] = m
         /\ managers' = [k \in 1..(n - 1) |-> IF k < p THEN managers[k] ELSE managers[k + 1]]
         /\ seen' = [Lost(PassedOver(p)) EXCEPT ![m] = Nothing]
  BY <1>0, <1>2 DEF removeLayoutManager
\* Where a manager that stays was listed.
<1> DEFINE was(k) == IF k < p THEN k ELSE k + 1
<1>4. \A k \in 1..(n - 1) : was(k) \in 1..n /\ was(k) # p /\ was(k) >= k
  BY <1>2
<1>5. \A j \in 1..n : j # p => \E k \in 1..(n - 1) : was(k) = j
  <2> TAKE j \in 1..n
  <2>1. CASE j < p
    <3>1. j \in 1..(n - 1) /\ was(j) = j
      BY <1>2, <2>1
    <3> QED
      BY <3>1
  <2>2. CASE j > p
    <3>1. j - 1 \in 1..(n - 1) /\ was(j - 1) = j
      BY <1>2, <2>2
    <3> QED
      BY <3>1
  <2> QED
    BY <1>2, <2>1, <2>2
<1>6. \A j, k \in 1..(n - 1) : was(j) = was(k) => j = k
  BY <1>2
<1>7. /\ managers' \in Seq(LayoutManagers) /\ Len(managers') = n - 1
      /\ DOMAIN managers' = 1..(n - 1)
      /\ \A k \in 1..(n - 1) : managers'[k] = managers[was(k)]
  <2>1. managers' = [k \in 1..(n - 1) |-> managers[was(k)]]
    BY <1>3
  <2>2. n - 1 \in Nat
    BY <1>2
  <2>3. ASSUME NEW f, f = [k \in 1..(n - 1) |-> managers[was(k)]]
        PROVE  /\ f \in [1..(n - 1) -> LayoutManagers] /\ DOMAIN f = 1..(n - 1)
               /\ \A k \in 1..(n - 1) : f[k] = managers[was(k)]
    <3> HIDE DEF was
    <3> QED
      BY <1>2, <1>4, <2>3
  <2>4. \A j \in Nat : \A f \in [1..j -> LayoutManagers] : f \in Seq(LayoutManagers) /\ Len(f) = j
    OBVIOUS
  <2> HIDE DEF was
  <2> QED
    BY <2>1, <2>2, <2>3, <2>4
<1>8. /\ seen' \in Seens /\ seen'[m] = Nothing
      /\ \A x \in LayoutManagers :
           /\ seen'[x] \notin {Nothing, Unknown} =>
                x # m /\ x \notin PassedOver(p) /\ seen'[x] = seen[x]
           /\ seen[x] = Nothing => seen'[x] = Nothing
  <2>1. PICK f \in Seens : f = Lost(PassedOver(p))
    BY <1>2, LostIs
  <2>2. \A x \in LayoutManagers :
          /\ f[x] \notin {Nothing, Unknown} => x \notin PassedOver(p) /\ f[x] = seen[x]
          /\ seen[x] = Nothing => f[x] = Nothing
    BY <1>2, <2>1, LostIs
  <2>3. seen' = [f EXCEPT ![m] = Nothing]
    BY <1>3, <2>1
  <2>4. /\ seen' \in Seens /\ seen'[m] = Nothing
        /\ \A x \in LayoutManagers : x # m => seen'[x] = f[x]
    BY <2>3 DEF Seens
  <2> QED
    BY <2>2, <2>4
<1> HIDE DEF was
<1>9. RecordInv' /\ PassInv' /\ TextInv'
  <2>1. Processing' <=> Processing
    BY <1>1 DEF Processing, Top
  <2>2. Top' = Top
    BY <1>1 DEF Top
  <2>3. ASSUME NEW x, SavedFits(x) PROVE SavedFits(x)'
    BY <1>1, <2>3 DEF SavedFits
  <2> QED
    BY <1>1, <2>1, <2>2, <2>3 DEF RecordInv, PassInv, TextInv
<1>10. ManagersInv'
  <2>1. ASSUME NEW j \in 1..(n - 1), NEW k \in 1..(n - 1), managers'[j] = managers'[k]
        PROVE  j = k
    BY <1>2, <1>4, <1>6, <1>7, <2>1
  <2>2. ASSUME NEW x \in LayoutManagers, ~Listed(x)' PROVE seen'[x] = Nothing
    <3>1. CASE x = m
      BY <1>8, <3>1
    <3>2. CASE x # m
      <4>1. ~Listed(x)
        BY <1>2, <1>3, <1>5, <1>7, <2>2, <3>2 DEF Listed
      <4> QED
        BY <1>1, <1>8, <4>1 DEF ManagersInv
    <3> QED
      BY <3>1, <3>2
  <2> QED
    BY <1>7, <1>8, <2>1, <2>2 DEF ManagersInv, Seens
<1>11. ASSUME NEW k \in 1..(n - 1), Known(managers[k])'
       PROVE  /\ was(k) \in 1..n /\ Known(managers[was(k)])
              /\ seen'[managers'[k]] = seen[managers[was(k)]]
              /\ managers[was(k)] \notin PassedOver(p)
  BY <1>2, <1>4, <1>7, <1>8, <1>11 DEF Known
<1>12. OuterInv'
  <2> SUFFICES ASSUME NEW o \in 1..Len(passes), o < Len(passes),
                      NEW k \in 1..(n - 1), k > passes[o].i, Known(managers[k])'
               PROVE  FALSE
    BY <1>1, <1>7 DEF OuterInv
  <2>1. was(k) \in 1..n /\ Known(managers[was(k)])
    BY <1>11
  <2>2. passes[o].i \in Nat
    BY <1>1, PassFields DEF PassInv
  <2>3. was(k) > passes[o].i
    BY <1>2, <1>4, <2>1, <2>2
  <2> QED
    BY <1>0, <1>1, <2>1, <2>3 DEF OuterInv
<1>13. ASSUME NEW k \in 1..(n - 1), Known(managers[k])'
       PROVE  UpToRecord(k)' <=> UpToRecord(was(k))
  <2>1. UpToRecord(k)' <=> UpToRecord(k)
    BY <1>1 DEF UpToRecord, Processing, Top
  <2>2. CASE k < p
    BY <2>1, <2>2 DEF was
  <2>3. CASE ~(k < p) /\ (passes = <<>> \/ Processing)
    BY <2>1, <2>3 DEF UpToRecord
  <2>4. CASE ~(k < p) /\ passes # <<>> /\ ~Processing
    <3>1. Top.at = "told" /\ Top.i \in Nat /\ Len(passes) \in DOMAIN passes
          /\ Top = passes[Len(passes)]
      BY <1>1, <2>4, TopAt, TopIs, PassFields DEF PassInv
    <3>2. was(k) = k + 1 /\ k \in p..(n - 1) /\ k \in Nat
      BY <1>2, <2>4 DEF was
    <3>3. managers[k + 1] \notin PassedOver(p)
      BY <1>11, <1>13, <3>2
    <3>4. k # Top.i
      BY <1>0, <3>1, <3>2, <3>3 DEF PassedOver
    <3>5. UpToRecord(k) <=> k <= Top.i
      BY <2>4, <3>1 DEF UpToRecord
    <3>6. UpToRecord(k + 1) <=> k + 1 <= Top.i
      BY <2>4, <3>1 DEF UpToRecord
    <3> QED
      BY <2>1, <3>1, <3>2, <3>4, <3>5, <3>6
  <2> QED
    BY <2>2, <2>3, <2>4
<1>14. SeenInv'
  <2> SUFFICES ASSUME NEW k \in 1..(n - 1), Known(managers[k])'
               PROVE  /\ UpToRecord(k)' =>
                           Covers(editedRange, editedDelta, seen'[managers'[k]], text)
                      /\ ~UpToRecord(k)' /\ editedMask = {} =>
                           /\ Covers(Top.range, Change(Top), seen'[managers'[k]], text)
                           /\ End(Top.r) <= Len(text)
    <3>1. Top' = Top
      BY <1>1 DEF Top
    <3> QED
      BY <1>1, <1>7, <3>1 DEF SeenInv, Change
  <2> QED
    BY <1>0, <1>1, <1>11, <1>13 DEF SeenInv
<1> QED
  BY <1>9, <1>10, <1>12, <1>14 DEF IInv

LEMMA generateGlyphsStep ==
    ASSUME IInv, NEW m \in LayoutManagers, generateGlyphs(m) PROVE IInv'
<1>1. /\ RecordInv /\ PassInv /\ TextInv /\ ManagersInv /\ SeenInv /\ OuterInv
      /\ InApplication /\ editCount = 0 /\ Listed(m)
      /\ UNCHANGED <<text, editCount, editedMask, editedRange, editedDelta, managers, passes>>
  BY DEF IInv, generateGlyphs, edited
<1>2. /\ seen \in Seens /\ text \in Seq(Chars) /\ Len(managers) \in Nat
      /\ DOMAIN managers = 1..Len(managers)
      /\ \A k \in 1..Len(managers) : managers[k] \in LayoutManagers
      /\ editedMask = {} /\ editedRange = NoRange /\ editedDelta = 0
  BY <1>1, ManagersAre DEF TextInv, RecordInv
<1>3. /\ seen' \in Seens
      /\ \A x \in LayoutManagers : x # m => seen'[x] = seen[x]
      /\ Known(m)' => ~ToBeTold(m) /\ (seen'[m] = text \/ (Known(m) /\ seen'[m] = seen[m]))
  <2>1. seen' = [seen EXCEPT ![m] = IF ToBeTold(m) THEN Unknown
                                  ELSE IF seen[m] = Nothing THEN text ELSE seen[m]]
    BY DEF generateGlyphs
  <2>2. seen' \in Seens /\ \A x \in LayoutManagers : x # m => seen'[x] = seen[x]
    BY <1>2, <2>1 DEF Seens
  <2>3. seen'[m] = IF ToBeTold(m) THEN Unknown
                   ELSE IF seen[m] = Nothing THEN text ELSE seen[m]
    BY <1>2, <2>1 DEF Seens
  <2>4. Known(m)' => ~ToBeTold(m) /\ (seen'[m] = text \/ (Known(m) /\ seen'[m] = seen[m]))
    BY <2>3 DEF Known
  <2> QED
    BY <2>2, <2>4
<1>4. ASSUME NEW n \in 1..Len(passes), NEW k \in 1..Len(managers), managers[k] = m,
             k > passes[n].i
      PROVE  ToBeTold(m)
  <2>1. n \in DOMAIN passes
    BY <1>1 DEF PassInv
  <2> QED
    BY <1>2, <1>4, <2>1 DEF ToBeTold, Untold
<1>5. RecordInv' /\ PassInv' /\ TextInv'
  <2>1. Top' = Top /\ (Processing' <=> Processing)
    BY <1>1 DEF Top, Processing
  <2>2. ASSUME NEW x, SavedFits(x) PROVE SavedFits(x)'
    BY <1>1, <2>2 DEF SavedFits
  <2> QED
    BY <1>1, <2>1, <2>2 DEF RecordInv, PassInv, TextInv
<1>6. ManagersInv'
  <2>1. \A x \in LayoutManagers : ~Listed(x)' => ~Listed(x) /\ x # m
    BY <1>1 DEF Listed
  <2> QED
    BY <1>1, <1>3, <2>1 DEF ManagersInv, Seens
<1>7. OuterInv'
  <2> SUFFICES ASSUME NEW n \in 1..Len(passes), n < Len(passes),
                      NEW k \in 1..Len(managers), k > passes[n].i, Known(managers[k])'
               PROVE  FALSE
    BY <1>1 DEF OuterInv
  <2>1. CASE managers[k] = m
    BY <1>1, <1>3, <1>4, <2>1 DEF Known
  <2>2. CASE managers[k] # m
    BY <1>1, <1>2, <1>3, <2>2 DEF OuterInv, Known
  <2> QED
    BY <2>1, <2>2
<1>8. SeenInv'
  <2> SUFFICES ASSUME NEW k \in 1..Len(managers), Known(managers[k])'
               PROVE  /\ UpToRecord(k) =>
                           Covers(editedRange, editedDelta, seen'[managers[k]], text)
                      /\ ~UpToRecord(k) =>
                           /\ Covers(Top.range, Change(Top), seen'[managers[k]], text)
                           /\ End(Top.r) <= Len(text)
    <3>1. Top' = Top
      BY <1>1 DEF Top
    <3>2. \A j \in 1..Len(managers) : UpToRecord(j)' <=> UpToRecord(j)
      BY <1>1, <3>1 DEF UpToRecord, Processing
    <3> QED
      BY <1>1, <1>2, <3>1, <3>2 DEF SeenInv, Change
  <2>1. managers[k] \in LayoutManagers
    BY <1>2
  <2>2. CASE Known(managers[k]) /\ seen'[managers[k]] = seen[managers[k]]
    BY <1>1, <1>2, <2>2 DEF SeenInv
  <2>3. CASE managers[k] = m /\ seen'[m] = text
    <3>1. ~ToBeTold(m)
      BY <1>1, <1>3, <2>3 DEF Known
    <3>2. UpToRecord(k)
      <4>1. CASE passes = <<>> \/ Processing
        BY <4>1 DEF UpToRecord
      <4>2. CASE passes # <<>> /\ ~Processing
        <5>1. Top.at = "told" /\ Len(passes) \in 1..Len(passes)
              /\ Top = passes[Len(passes)] /\ Top.i \in Nat
          BY <1>1, <4>2, TopAt, TopIs, PassFields
        <5>2. ~(k > Top.i)
          BY <1>4, <2>3, <3>1, <5>1
        <5> QED
          BY <5>1, <5>2 DEF UpToRecord
      <4> QED
        BY <4>1, <4>2
    <3> QED
      BY <1>2, <2>3, <3>2, CoversNothing
  <2> QED
    BY <1>1, <1>3, <2>1, <2>2, <2>3 DEF Known
<1> QED
  BY <1>5, <1>6, <1>7, <1>8 DEF IInv

-----------------------------------------------------------------------------
(* The theorems.                                                           *)

LEMMA InitInv == Init => IInv
<1> SUFFICES ASSUME Init PROVE IInv
  OBVIOUS
<1>1. NoRange \in SizedRange /\ NoRange.len = 0 /\ End(NoRange) = 0
  BY DEF NoRange, SizedRange, End
<1>2. Len(text) = 0 /\ Len(managers) = 0 /\ Len(passes) = 0 /\ MaxPasses \in Nat
  BY DEF Init
<1>3. RecordInv
  BY <1>1, <1>2 DEF Init, RecordInv
<1>4. PassInv /\ TextInv
  BY <1>2 DEF Init, PassInv, TextInv, Processing
<1>5. ManagersInv /\ SeenInv /\ OuterInv
  BY <1>2 DEF Init, ManagersInv, SeenInv, OuterInv, Listed
<1> QED
  BY <1>3, <1>4, <1>5 DEF IInv

LEMMA StepInv == IInv /\ [Next]_vars => IInv'
<1> SUFFICES ASSUME IInv, [Next]_vars PROVE IInv'
  OBVIOUS
<1>1. CASE beginEditing
  <2>1. editCount \in Nat
    BY DEF IInv, RecordInv
  <2>2. /\ InApplication /\ editCount' \in Nat /\ editCount' >= 1
        /\ UNCHANGED <<text, editedMask, editedRange, editedDelta, layout, passes>>
    BY <1>1, <2>1 DEF beginEditing
  <2> QED
    BY <2>2, CountStep
<1>2. CASE endEditing
  BY <1>2, endEditingStep
<1>3. CASE replaceCharacters \/ setAttributes
  BY <1>3, replaceCharactersStep, setAttributesStep
<1>4. ASSUME NEW m \in LayoutManagers,
             addLayoutManager(m) \/ removeLayoutManager(m) \/ generateGlyphs(m)
      PROVE  IInv'
  BY <1>4, addLayoutManagerStep, removeLayoutManagerStep, generateGlyphsStep
<1>5. CASE processEditing
  <2>1. CASE WillProcessDone \/ FixDone \/ DidProcessDone
    BY <2>1, WillProcessDoneStep, FixDoneStep, DidProcessDoneStep
  <2>2. CASE Tell \/ TellNext \/ AllTold
    BY <2>2, TellStep, TellNextStep, AllToldStep
  <2>3. CASE \E n \in 1..MaxPasses : ManagerRaises(n)
    BY <2>3, ManagerRaisesStep
  <2> QED
    BY <1>5, <2>1, <2>2, <2>3 DEF processEditing
<1>6. CASE UNCHANGED vars
  <2>1. /\ Top' = Top /\ (Processing' <=> Processing)
        /\ \A k \in 1..Len(managers) : UpToRecord(k)' <=> UpToRecord(k)
    BY <1>6 DEF vars, edited, layout, Top, Processing, UpToRecord
  <2>2. ASSUME NEW x, SavedFits(x) PROVE SavedFits(x)'
    BY <1>6, <2>2 DEF vars, edited, SavedFits
  <2>3. RecordInv' /\ TextInv' /\ ManagersInv' /\ OuterInv'
    BY <1>6 DEF IInv, vars, edited, layout, RecordInv, TextInv, ManagersInv, OuterInv,
                Known, Listed
  <2>4. PassInv'
    BY <1>6, <2>1, <2>2 DEF IInv, vars, edited, PassInv
  <2>5. SeenInv'
    BY <1>6, <2>1 DEF IInv, vars, edited, layout, SeenInv, Known, Change
  <2> QED
    BY <2>3, <2>4, <2>5 DEF IInv
<1> QED
  BY <1>1, <1>2, <1>3, <1>4, <1>5, <1>6 DEF Next

LEMMA SpecInv == Spec => []IInv
BY InitInv, StepInv, PTL DEF Spec

\* What -beginEditing, -endEditing, -edited:range:changeInLength:, the steps of
\* -processEditing and the calls that add and remove layout managers keep: the
\* counts and ranges are of their types, no layout manager is listed twice, and
\* every pass but the innermost is in the code of a layout manager.
THEOREM TypesOK == Spec => []TypeOK
<1>1. IInv => TypeOK
  <2> SUFFICES ASSUME IInv PROVE TypeOK
    OBVIOUS
  <2>1. DOMAIN managers = 1..Len(managers) /\ DOMAIN passes = 1..Len(passes)
    BY DEF IInv, ManagersInv, PassInv
  <2> QED
    BY <2>1 DEF IInv, RecordInv, PassInv, TextInv, ManagersInv, SizedRange, TypeOK
<1> QED
  BY <1>1, SpecInv, PTL

LEMMA ListedAt ==
    ASSUME IInv, NEW m \in LayoutManagers, InStep(m)
    PROVE  \E k \in 1..Len(managers) : managers[k] = m /\ Known(managers[k])
BY ManagersAre DEF IInv, InStep, Listed, Known

\* -editedRange and -changeInLength, whenever an observer or an attribute fixer
\* may ask for them, cover every difference between the text and what each
\* layout manager that is in step knows of it: edited:range:changeInLength:
\* joins the range of an edit to those before it and adds up the changes.
THEOREM RecordCovers == Spec => []EditedRangeCovers
<1>1. IInv => EditedRangeCovers
  <2> SUFFICES ASSUME IInv, NEW m \in LayoutManagers, passes = <<>> \/ Processing, InStep(m)
               PROVE  IF editedMask = {} THEN seen[m] = text
                      ELSE Covers(editedRange, editedDelta, seen[m], text)
    BY DEF EditedRangeCovers
  <2>1. PICK k \in 1..Len(managers) : managers[k] = m /\ Known(managers[k])
    BY ListedAt
  <2>2. Covers(editedRange, editedDelta, seen[m], text)
    BY <2>1 DEF IInv, SeenInv, UpToRecord
  <2>3. seen[m] \in Seq(Chars) /\ text \in Seq(Chars)
    BY <2>1 DEF IInv, ManagersInv, TextInv, Known
  <2>4. editedMask = {} => editedRange = NoRange /\ editedDelta = 0
    BY DEF IInv, RecordInv
  <2> QED
    BY <2>2, <2>3, <2>4, CoversNothingEqual
<1> QED
  BY <1>1, SpecInv, PTL

\* What processEditing tells a layout manager that is in step denotes a part of
\* the text and a part of what that layout manager knew: the adjustment of the saved range is
\* enough, whatever observers and attribute fixing add and delete meanwhile.
THEOREM ToldFit == Spec => []ToldRangesFit
<1>1. IInv => ToldRangesFit
  <2> SUFFICES ASSUME IInv, passes # <<>>, Top.at = "tell", Top.i <= Len(managers),
                      InStep(managers[Top.i]), NEW range \in {Top.r, Top.range}
               PROVE  /\ range.len >= 0 /\ range.len >= Change(Top)
                      /\ End(range) <= Len(text)
                      /\ End(range) - Change(Top) <= Len(seen[managers[Top.i]])
    BY DEF ToldRangesFit
  <2> USE DEF IInv
  <2>1. /\ Top \in Pass /\ SavedFits(Top) /\ Top.i \in 1..Len(managers)
        /\ Change(Top) \in Int /\ Top.i \in Nat
    BY TopIs, PassFields, ManagersAre DEF SavedFits
  <2>2. editedMask = {}
    BY DEF PassInv, RecordInv
  <2>3. ~UpToRecord(Top.i)
    BY <2>1 DEF UpToRecord, Processing
  <2>4. /\ Covers(Top.range, Change(Top), seen[managers[Top.i]], text)
        /\ End(Top.r) <= Len(text)
    BY <2>1, <2>2, <2>3 DEF SeenInv, Known, InStep
  <2>5. seen[managers[Top.i]] \in Seq(Chars) /\ text \in Seq(Chars)
    BY <2>1, ManagersAre DEF TextInv, ManagersInv, InStep
  <2>6. /\ Len(text) \in Nat /\ Len(seen[managers[Top.i]]) \in Nat
        /\ Top.r \in SizedRange /\ Top.range \in SizedRange
    BY <2>1, <2>5 DEF SavedFits
  <2>7. /\ Len(text) = Len(seen[managers[Top.i]]) + Change(Top)
        /\ Change(Top) <= Top.range.len /\ End(Top.range) <= Len(text)
        /\ Change(Top) <= Top.r.len
    BY <2>1, <2>4 DEF Covers, SavedFits
  <2>8. \A r \in SizedRange : r.len \in Nat /\ r.loc \in Nat /\ End(r) \in Nat
    BY DEF SizedRange, End
  <2>9. range \in SizedRange /\ Change(Top) <= range.len /\ End(range) <= Len(text)
    BY <2>4, <2>6, <2>7
  <2>10. /\ range.len \in Nat /\ End(range) \in Nat
         /\ Len(text) - Change(Top) = Len(seen[managers[Top.i]])
    BY <2>1, <2>6, <2>7, <2>8, <2>9
  <2> HIDE DEF IInv
  <2> QED
    BY <2>1, <2>6, <2>9, <2>10
<1> QED
  BY <1>1, SpecInv, PTL

\* When the last -endEditing has returned, every layout manager stands for the
\* text that no nested pass, exception or change of the list left behind and that
\* made no glyphs while it was still to be told of a change.
THEOREM LayoutFollows == Spec => []LayoutFollowsText
<1>1. IInv /\ EditedRangeCovers => LayoutFollowsText
  BY DEF IInv, RecordInv, EditedRangeCovers, LayoutFollowsText
<1> QED
  BY <1>1, SpecInv, RecordCovers, PTL
=============================================================================
