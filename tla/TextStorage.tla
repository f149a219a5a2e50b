---------------------------- MODULE TextStorage ----------------------------
(***************************************************************************)
(* Editing a text storage (Source/NSTextStorage.m): the edits made between *)
(* beginEditing and endEditing, and those that observers and attribute     *)
(* fixing add while an edit is processed, are summed up in one range and   *)
(* one change of length, with which every layout manager brings its record *)
(* of the text up to date.  The text is a sequence of characters; a change *)
(* of attributes is a change of characters that keeps the length.          *)
(***************************************************************************)
EXTENDS Integers, Sequences

CONSTANTS
    Chars,
    LayoutManagers,
    Nothing,        \* what a layout manager knows that has no glyphs yet
    Unknown,        \* what one knows that was passed over, told too late, or
                    \* made glyphs of a change before it was told of it
    MaxLength,      \* bound on the text
    MaxBrackets,    \* bound on the beginEditing calls open in one place
    MaxPasses,      \* bound on the nesting of processEditing
    MaxEdits        \* bound on the edits until all passes have ended

ASSUME NothingAssumption == {Nothing, Unknown} \cap Seq(Chars) = {} /\ Nothing # Unknown
ASSUME BoundsAssumption ==
    MaxLength \in Nat /\ MaxBrackets \in Nat /\ MaxPasses \in Nat
    /\ MaxEdits \in Nat

VARIABLES
    text,
    editCount, editedMask, editedRange, editedDelta,
    managers,       \* _layoutManagers
    seen,           \* the text the glyphs of each layout manager stand for
    passes,         \* the calls of processEditing that run, innermost last
    edits           \* the edits made since no pass was running

edited == <<editCount, editedMask, editedRange, editedDelta>>
layout == <<managers, seen>>
vars == <<text, edited, layout, passes, edits>>

Flags == {"attributes", "characters"}
Range == [loc: Nat, len: Int]
NoRange == [loc |-> 0, len |-> 0]

Pass == [at: {"will", "fix", "did", "tell", "told"},
         r: Range, originalDelta: Int,          \* saved before attributes are fixed
         i: Nat,                                \* the layout manager that is told
         mask: SUBSET Flags, range: Range, delta: Int]  \* what it is told

Init ==
    /\ text = <<>>
    /\ editCount = 0 /\ editedMask = {} /\ editedRange = NoRange /\ editedDelta = 0
    /\ managers = <<>>
    /\ seen = [m \in LayoutManagers |-> Nothing]
    /\ passes = <<>>
    /\ edits = 0

-----------------------------------------------------------------------------
(* Ranges and texts.                                                       *)

Min(a, b) == IF a <= b THEN a ELSE b
Max(a, b) == IF a >= b THEN a ELSE b
End(range) == range.loc + range.len

\* NSUnionRange
Union(a, b) == [loc |-> Min(a.loc, b.loc),
                len |-> Max(End(a), End(b)) - Min(a.loc, b.loc)]

Grown(range, delta) == [range EXCEPT !.len = @ + delta]

\* s with the characters in the range old replaced by those of t in the range
\* new, which begins at the same place.
Replaced(s, old, t, new) ==
    [k \in 1..(Len(s) + new.len - old.len) |->
        IF k <= new.loc THEN s[k]
        ELSE IF k <= End(new) THEN t[k]
        ELSE s[k - (new.len - old.len)]]

RangesOf(s) == {range \in [loc: 0..Len(s), len: 0..Len(s)] : End(range) <= Len(s)}

-----------------------------------------------------------------------------
(* processEditing                                                          *)

Top == passes[Len(passes)]
Outer == SubSeq(passes, 1, Len(passes) - 1)

\* Code of the application runs: outside of any pass, in an observer of one
\* of the two notifications, in the fixing of attributes, or in the code of a
\* layout manager.
InApplication == passes # <<>> => Top.at \in {"will", "fix", "did", "told"}

\* processEditing counts as one beginEditing until the layout managers' turn.
Processing == passes # <<>> /\ Top.at \in {"will", "fix", "did"}
MutantOpenBrackets == editCount
OpenBrackets == editCount - (IF Processing THEN 1 ELSE 0)

\* Layout managers that have made glyphs and miss a change stand for no text.
Lost(ms) == [m \in LayoutManagers |->
                IF m \in ms /\ seen[m] # Nothing THEN Unknown ELSE seen[m]]

Untold(pass) == {managers[k] : k \in {k \in DOMAIN managers : k > pass.i}}

\* edited:range:changeInLength: and endEditing begin a pass at count 0.  Those
\* the innermost pass has not told yet will hear of the later edit first.
Begin ==
    /\ Len(passes) < MaxPasses
    /\ editCount' = 1
    /\ passes' = Append(passes, [at |-> "will", r |-> NoRange, originalDelta |-> 0,
                                 i |-> 0, mask |-> {}, range |-> NoRange, delta |-> 0])
    /\ seen' = IF passes = <<>> THEN seen ELSE Lost(Untold(Top))

\* The range is clipped, in case it is too long, and saved.
Clipped(range) ==
    IF End(range) > Len(text) THEN [range EXCEPT !.len = Len(text) - range.loc] ELSE range

WillProcessDone ==
    /\ passes # <<>> /\ Top.at = "will" /\ OpenBrackets = 0
    /\ passes' = [passes EXCEPT ![Len(passes)] =
                    [@ EXCEPT !.at = "fix", !.r = Clipped(editedRange),
                              !.originalDelta = editedDelta]]
    /\ UNCHANGED <<text, edited, layout, edits>>

FixDone ==
    /\ passes # <<>> /\ Top.at = "fix" /\ OpenBrackets = 0
    /\ passes' = [passes EXCEPT ![Len(passes)].at = "did"]
    /\ UNCHANGED <<text, edited, layout, edits>>

\* The saved range follows the change of length since it was saved.
MutantAdjusted(r, change) == Grown(r, change)
Adjusted(r, change) ==
    IF r.len + change >= 0 THEN Grown(r, change)
    ELSE [loc |-> Min(r.loc, Len(text)), len |-> 0]

\* The record of the edits is copied and reset before anyone is told of it.
DidProcessDone ==
    /\ passes # <<>> /\ Top.at = "did" /\ OpenBrackets = 0
    /\ passes' = [passes EXCEPT ![Len(passes)] =
                    [@ EXCEPT !.at = "tell", !.i = 1, !.originalDelta = 0,
                              !.r = Adjusted(Top.r, editedDelta - Top.originalDelta),
                              !.mask = editedMask, !.range = editedRange,
                              !.delta = editedDelta]]
    /\ editCount' = 0 /\ editedMask' = {} /\ editedRange' = NoRange /\ editedDelta' = 0
    /\ UNCHANGED <<text, layout, edits>>

\* textStorage:edited:range:changeInLength:invalidatedRange: of a layout
\* manager: the glyphs of the range are made anew, those after it move.
Change(pass) == IF "characters" \in pass.mask THEN pass.delta ELSE 0

MutantUpdated(m, pass) ==
    IF seen[m] \in {Nothing, Unknown} THEN seen[m]
    ELSE Replaced(seen[m], Grown(pass.r, -Change(pass)), text, pass.r)

Updated(m, pass) ==
    IF seen[m] \in {Nothing, Unknown} THEN seen[m]
    ELSE Replaced(seen[m], Grown(pass.range, -Change(pass)), text, pass.range)

Tell ==
    /\ passes # <<>> /\ Top.at = "tell" /\ Top.i <= Len(managers)
    /\ seen' = [seen EXCEPT ![managers[Top.i]] = Updated(managers[Top.i], Top)]
    /\ passes' = [passes EXCEPT ![Len(passes)].at = "told"]
    /\ UNCHANGED <<text, edited, managers, edits>>

TellNext ==
    /\ passes # <<>> /\ Top.at = "told" /\ OpenBrackets = 0
    /\ passes' = [passes EXCEPT ![Len(passes)] = [@ EXCEPT !.at = "tell", !.i = Top.i + 1]]
    /\ UNCHANGED <<text, edited, layout, edits>>

Rest(running) == IF running = <<>> THEN 0 ELSE edits

AllTold ==
    /\ passes # <<>> /\ Top.at = "tell" /\ Top.i > Len(managers)
    /\ passes' = Outer
    /\ edits' = Rest(Outer)
    /\ UNCHANGED <<text, edited, layout>>

\* A layout manager raises; the exception leaves n passes, and in each of them
\* the layout manager that is told and those after it.
Unreached(pass) == {managers[k] : k \in {k \in DOMAIN managers : k >= pass.i}}

ManagerRaises(n) ==
    /\ passes # <<>> /\ Top.at = "told" /\ OpenBrackets = 0
    /\ n \in 1..Len(passes)
    /\ passes' = SubSeq(passes, 1, Len(passes) - n)
    /\ edits' = Rest(passes')
    /\ seen' = Lost(UNION {Unreached(passes[k]) : k \in Len(passes') + 1..Len(passes)})
    /\ UNCHANGED <<text, edited, managers>>

-----------------------------------------------------------------------------
(* What the application, observers, attribute fixing and layout managers   *)
(* may call.                                                               *)

beginEditing ==
    /\ InApplication /\ OpenBrackets < MaxBrackets
    /\ editCount' = editCount + 1
    /\ UNCHANGED <<text, editedMask, editedRange, editedDelta, layout, passes, edits>>

\* It raises when it is not paired with a beginEditing.
endEditing ==
    /\ InApplication /\ OpenBrackets > 0
    /\ IF editCount = 1 THEN Begin
       ELSE editCount' = editCount - 1 /\ UNCHANGED <<passes, seen>>
    /\ UNCHANGED <<text, editedMask, editedRange, editedDelta, managers, edits>>

MutantExtended(old) == old
Extended(old) == IF editedMask = {} THEN old ELSE Union(editedRange, old)

\* replaceCharactersInRange:withString: and setAttributes:range: change the
\* text and call edited:range:changeInLength:.
Edit(flag, old, new) ==
    LET delta == Len(new) - old.len
        inserted == [loc |-> old.loc, len |-> Len(new)]
    IN  /\ InApplication
        /\ Len(text) + delta <= MaxLength /\ edits < MaxEdits
        /\ edits' = edits + 1
        /\ text' = Replaced(text, old,
                            [k \in 1..End(inserted) |-> new[k - old.loc]], inserted)
        /\ editedRange' = Grown(Extended(old), delta)
        /\ editedMask' = editedMask \cup {flag}
        /\ editedDelta' = editedDelta + delta
        /\ IF editCount = 0 THEN Begin ELSE UNCHANGED <<editCount, passes, seen>>
        /\ UNCHANGED managers

replaceCharacters ==
    \E old \in RangesOf(text), new \in {<<>>} \cup {<<c>> : c \in Chars} :
        Edit("characters", old, new)

setAttributes ==
    \E old \in RangesOf(text), c \in Chars :
        old.len > 0 /\ Edit("attributes", old, [k \in 1..old.len |-> c])

Listed(m) == \E k \in DOMAIN managers : managers[k] = m

addLayoutManager(m) ==
    /\ InApplication /\ ~Listed(m)
    /\ managers' = Append(managers, m)
    /\ UNCHANGED <<text, edited, seen, passes, edits>>

\* A pass that has told the one that goes, or some after it, passes over the
\* one that moves up into the place it is at.
PassedOver(p) ==
    {managers[k + 1] : k \in {k \in p..(Len(managers) - 1) :
        \E n \in DOMAIN passes : passes[n].at = "told" /\ passes[n].i = k}}

removeLayoutManager(m) ==
    /\ InApplication /\ Listed(m)
    /\ \E p \in DOMAIN managers :
         /\ managers[p] = m
         /\ managers' = [k \in 1..(Len(managers) - 1) |->
                            IF k < p THEN managers[k] ELSE managers[k + 1]]
         /\ seen' = [Lost(PassedOver(p)) EXCEPT ![m] = Nothing]
    /\ UNCHANGED <<text, edited, passes, edits>>

\* A layout manager makes glyphs when it displays the text or is asked about
\* them, unless edits wait to be processed.  Nothing keeps one from it that a
\* pass has yet to tell: it makes them of the new text and is then told of a
\* change it has already.
ToBeTold(m) == \E n \in DOMAIN passes : m \in Untold(passes[n])

generateGlyphs(m) ==
    /\ InApplication /\ editCount = 0 /\ Listed(m)
    /\ seen' = [seen EXCEPT ![m] = IF ToBeTold(m) THEN Unknown
                                  ELSE IF @ = Nothing THEN text ELSE @]
    /\ UNCHANGED <<text, edited, managers, passes, edits>>

processEditing ==
    \/ WillProcessDone \/ FixDone \/ DidProcessDone
    \/ Tell \/ TellNext \/ AllTold
    \/ \E n \in 1..MaxPasses : ManagerRaises(n)

Next ==
    \/ beginEditing \/ endEditing \/ replaceCharacters \/ setAttributes
    \/ \E m \in LayoutManagers :
         addLayoutManager(m) \/ removeLayoutManager(m) \/ generateGlyphs(m)
    \/ processEditing

Spec == Init /\ [][Next]_vars

-----------------------------------------------------------------------------
(* Properties.                                                             *)

\* The types of the record of the edits, of the passes and of the layout
\* managers' records; only the innermost pass is not in a layout manager.
TypeOK ==
    /\ text \in Seq(Chars) /\ Len(text) <= MaxLength
    /\ editCount \in Nat
    /\ editedMask \subseteq Flags
    /\ editedRange \in [loc: Nat, len: Nat] /\ editedDelta \in Int
    /\ managers \in Seq(LayoutManagers)
    /\ \A j, k \in DOMAIN managers : managers[j] = managers[k] => j = k
    /\ seen \in [LayoutManagers -> Seq(Chars) \cup {Nothing, Unknown}]
    /\ passes \in Seq(Pass) /\ Len(passes) <= MaxPasses
    /\ \A k \in DOMAIN passes : k < Len(passes) => passes[k].at = "told"

\* new is old with a change inside the range, which made it delta longer.
Covers(range, delta, old, new) ==
    /\ Len(new) = Len(old) + delta
    /\ delta <= range.len /\ End(range) <= Len(new)
    /\ \A k \in 1..range.loc : new[k] = old[k]
    /\ \A k \in (End(range) + 1)..Len(new) : new[k] = old[k - delta]

InStep(m) == Listed(m) /\ seen[m] \notin {Nothing, Unknown}

\* editedRange and changeInLength describe the difference between the text and
\* what the layout managers know at every moment at which an observer can ask
\* for them, however many edits have been added up and whoever made them; of
\* layout managers, that is, that are not Unknown.
EditedRangeCovers ==
    \A m \in LayoutManagers : (passes = <<>> \/ Processing) /\ InStep(m) =>
        IF editedMask = {} THEN seen[m] = text
        ELSE Covers(editedRange, editedDelta, seen[m], text)

\* The range and the change of length a layout manager is told denote a part
\* of the text and a part of what it knew of the text (it replaces the one by
\* the other, so a bad range raises), although observers may have added and
\* deleted characters since the range was saved.  It does not hold of one that
\* is Unknown: one that made its glyphs while another was told of a deletion is
\* told of more characters than it has.
ToldRangesFit ==
    passes # <<>> /\ Top.at = "tell" /\ Top.i <= Len(managers) /\ InStep(managers[Top.i]) =>
        \A range \in {Top.r, Top.range} :
            /\ range.len >= 0 /\ range.len >= Change(Top)
            /\ End(range) <= Len(text)
            /\ End(range) - Change(Top) <= Len(seen[managers[Top.i]])

\* When the last endEditing, or an edit outside of beginEditing and endEditing,
\* has returned, every layout manager stands for the text as it is, whatever
\* edits were made by observers and by the layout managers themselves; except
\* for those that are Unknown: left behind by a nested pass, an exception or a
\* change of the list, or ahead of what they were told.
LayoutFollowsText ==
    \A m \in LayoutManagers :
        passes = <<>> /\ editCount = 0 /\ InStep(m) => seen[m] = text
=============================================================================
