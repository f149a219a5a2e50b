----------------------- MODULE DocumentRecoveryProofs -----------------------
(***************************************************************************)
(* Proofs about Document, for any set of files and versions and any number *)
(* of changes to undo: what its two pairs of counts and flags promise, and *)
(* that nothing the user was told to be safe is lost.                      *)
(***************************************************************************)
EXTENDS DocumentProofs

USE AbsentAssumption, UndoAssumption

-----------------------------------------------------------------------------
(* The inductive invariants.                                               *)

\* The contents k changes back, or -k changes forth, for the undo stack u, the
\* contents c and the redo stack r.
Held(u, c, r, k) ==
    IF k > 0 THEN u[Len(u) + 1 - k] ELSE IF k = 0 THEN c ELSE r[Len(r) + 1 + k]

Reachable(u, r, k) == k <= Len(u) /\ -k <= Len(r)

ClearingSteps == {"unrecord", "deleteAutosave", "cleared"}
Clearing == call.op \in {"save", "saveAs"} /\ call.step \in ClearingSteps

\* How far the call has come: what it has written is there, and the autosaved
\* contents are forgotten before they are deleted.
ProgressInv ==
    /\ call.op \in SaveOps /\ call.step \in WrittenSteps => file[call.url] = content
    /\ call.step = "autosaved" => autosave = content /\ content # Absent
    /\ call.op = "revert" => fileURL # None /\ OnDisk(fileURL) = content
    /\ call.op = "close" => content = Absent
    /\ call.op \in {"revert", "close"} => call.step \in ClearingSteps
    /\ call.step \in ClearingSteps => call.op \in {"save", "saveAs", "revert", "close"}
    /\ call.op = "autosave" => call.step \in {"write", "autosaved"}
    /\ call.step \in {"deleteAutosave", "cleared"} => ~autosavedURL
    /\ call.op \in {"save", "saveAs"} /\ call.step = "cleanup" =>
           fileURL = call.url /\ ~autosavedURL

\* The change count leads from the contents to those in the file.
SavedInv ==
    ~permanentlyModified =>
        /\ Reachable(undo, redo, changeCount)
        /\ fileURL # None /\ ~exported /\ ~(Clearing /\ call.url = fileURL) =>
               OnDisk(fileURL) = Held(undo, content, redo, changeCount)

\* The autosaving count leads to the contents last autosaved, or there are none
\* and it agrees with the other count.
NotAutosaved == changeCount = autosaveCount /\ ~permanentlyModified

AutosaveInv ==
    /\ ~autosavePermanentlyModified =>
           /\ Reachable(undo, redo, autosaveCount)
           /\ \/ NotAutosaved \/ Clearing \/ call.step = "autosaved"
              \/ /\ autosave = Held(undo, content, redo, autosaveCount)
                 /\ entry = [location |-> fileURL]
    /\ call.op \in {"revert", "close"} => NotAutosaved

\* While the document has an entry, it has autosaved contents.
EntryInv ==
    /\ autosavedURL => running /\ autosave # Absent
    /\ content = Absent /\ autosavedURL => call.step = "unrecord"

\* What the user was told to be safe is in the autosaved contents file or in the
\* file, unless a call is about to tell otherwise.
AcknowledgedInv ==
    Open /\ acknowledged # Absent =>
        /\ call.step = "autosaved" \/ call.op = "revert" =>
               Kept(fileURL) \in {acknowledged, content}
        /\ call.op # "revert" /\ call.step \notin WrittenSteps \cup {"autosaved"} =>
               Kept(fileURL) = acknowledged
        /\ call.op = "saveTo" /\ call.step = "cleanup"
             /\ (call.url # fileURL \/ autosavedURL) =>
               Kept(fileURL) = acknowledged

-----------------------------------------------------------------------------
(* Lemmas on the contents the undo manager holds.                          *)

LEMMA OneOrMore ==
    ASSUME NEW n \in Nat, n > 0 PROVE n = 1 \/ n > 1
OBVIOUS

LEMMA FrontProperties ==
    ASSUME NEW s \in Seq(Versions), s # <<>>
    PROVE  /\ Len(s) \in Nat /\ Len(s) > 0 /\ Len(Front(s)) = Len(s) - 1
           /\ \A i \in 1 .. Len(s) - 1 : Front(s)[i] = s[i]
<1>1. Len(s) \in Nat /\ Len(s) > 0
  OBVIOUS
<1>2. Len(Front(s)) = Len(s) - 1
  <2>1. CASE Len(s) = 1
    BY <2>1 DEF Front
  <2>2. CASE Len(s) > 1
    BY <1>1, <2>2 DEF Front
  <2>3. Len(s) = 1 \/ Len(s) > 1
    BY <1>1, OneOrMore, Zenon
  <2> QED
    BY <2>1, <2>2, <2>3
<1>3. \A i \in 1 .. Len(s) - 1 : Front(s)[i] = s[i]
  BY <1>1 DEF Front
<1> QED
  BY <1>1, <1>2, <1>3

LEMMA HeldDone ==
    ASSUME NEW u \in Seq(Versions), NEW r \in Seq(Versions), NEW c, NEW v,
           NEW k \in Int, Reachable(u, r, k), k >= 0
    PROVE  /\ Reachable(Append(u, c), <<>>, k + 1)
           /\ Held(Append(u, c), v, <<>>, k + 1) = Held(u, c, r, k)
BY DEF Reachable, Held

LEMMA HeldUndone ==
    ASSUME NEW u \in Seq(Versions), NEW r \in Seq(Versions), NEW c,
           NEW k \in Int, Reachable(u, r, k), u # <<>>
    PROVE  /\ Reachable(Front(u), Append(r, c), k - 1)
           /\ Held(Front(u), Last(u), Append(r, c), k - 1) = Held(u, c, r, k)
BY DEF Reachable, Held, Front, Last

LEMMA HeldRedone ==
    ASSUME NEW u \in Seq(Versions), NEW r \in Seq(Versions), NEW c,
           NEW k \in Int, Reachable(u, r, k), r # <<>>
    PROVE  /\ Reachable(Append(u, c), Front(r), k + 1)
           /\ Held(Append(u, c), Last(r), Front(r), k + 1) = Held(u, c, r, k)
<1>1. Len(r) \in Nat /\ Len(u) \in Nat /\ Len(r) > 0
  OBVIOUS
<1>2. Len(Front(r)) = Len(r) - 1 /\ Len(Append(u, c)) = Len(u) + 1
  BY FrontProperties
<1>3. \A i \in 1 .. Len(r) - 1 : Front(r)[i] = r[i]
  BY FrontProperties
<1>4. \A i \in 1 .. Len(u) + 1 : Append(u, c)[i] = IF i = Len(u) + 1 THEN c ELSE u[i]
  BY <1>1
<1>5. Reachable(Append(u, c), Front(r), k + 1)
  BY <1>1, <1>2 DEF Reachable
<1>6. CASE k >= 0
  <2>1. k + 1 > 0 /\ k <= Len(u) /\ Len(u) + 1 - k \in 1 .. Len(u) + 1
    BY <1>1, <1>6 DEF Reachable
  <2>2. Held(Append(u, c), Last(r), Front(r), k + 1) = Append(u, c)[Len(u) + 1 - k]
    <3>1. Len(Append(u, c)) + 1 - (k + 1) = Len(u) + 1 - k
      BY <1>1, <1>2
    <3> QED
      BY <2>1, <3>1 DEF Held
  <2>3. Append(u, c)[Len(u) + 1 - k] = IF k = 0 THEN c ELSE u[Len(u) + 1 - k]
    <3>1. Len(u) + 1 - k = Len(u) + 1 <=> k = 0
      BY <1>1
    <3> QED
      BY <1>4, <2>1, <3>1
  <2>4. Held(u, c, r, k) = IF k = 0 THEN c ELSE u[Len(u) + 1 - k]
    BY <1>6 DEF Held
  <2> QED
    BY <1>5, <2>2, <2>3, <2>4
<1>7. CASE k = -1
  <2>1. Held(Append(u, c), Last(r), Front(r), k + 1) = Last(r)
    BY <1>7 DEF Held
  <2>2. Held(u, c, r, k) = r[Len(r)]
    BY <1>1, <1>7 DEF Held
  <2> QED
    BY <1>5, <2>1, <2>2 DEF Last
<1>8. CASE k < -1
  BY <1>1, <1>2, <1>3, <1>8 DEF Reachable, Held
<1> QED
  BY <1>5, <1>6, <1>7, <1>8

LEMMA HeldNow ==
    ASSUME NEW u \in Seq(Versions), NEW r \in Seq(Versions), NEW c
    PROVE  Reachable(u, r, 0) /\ Held(u, c, r, 0) = c
BY DEF Reachable, Held
-----------------------------------------------------------------------------
(* The progress of a call.                                                 *)

LEMMA IdleProgress ==
    ASSUME call' = Idle PROVE ProgressInv'
BY IdleCall DEF ProgressInv, SaveOps, WrittenSteps, ClearingSteps

\* A save that has not written yet.
LEMMA EarlyProgress ==
    ASSUME call'.op \in SaveOperations, call'.step \in {"removeBackup", "moveToBackup", "write"},
           call'.op = "autosave" => call'.step = "write"
    PROVE  ProgressInv'
BY DEF ProgressInv, SaveOps, SaveOperations, WrittenSteps, ClearingSteps

LEMMA WriteProgress ==
    ASSUME IInv, ProgressInv, WriteSucceeds PROVE ProgressInv'
<1> USE DEF IInv
<1>1. call.op \in SaveOperations /\ content # Absent /\ content' = content /\ call.step = "write"
  BY DEF WriteSucceeds, At, SavingInv, memory
<1>2. CASE call.op = "autosave"
  <2>1. Goto("autosaved") /\ autosave' = content
    BY <1>2 DEF WriteSucceeds
  <2>2. call'.step = "autosaved" /\ call'.op = "autosave"
    BY <1>2, <2>1, GotoCall DEF Steps
  <2> QED
    BY <1>1, <2>1, <2>2 DEF ProgressInv, SaveOps, WrittenSteps, ClearingSteps
<1>3. CASE call.op # "autosave"
  <2>1. call.op \in SaveOps /\ call.url \in Names
    BY <1>1, <1>3 DEF SaveOps, SaveOperations, SavingInv
  <2>2. file' = [file EXCEPT ![call.url] = content] /\ Goto(AfterWrite(call.op))
    BY <1>3 DEF WriteSucceeds
  <2>3. AfterWrite(call.op) \in Steps
    BY DEF AfterWrite, Steps
  <2>4. call'.step = AfterWrite(call.op) /\ call'.op = call.op /\ call'.url = call.url
    BY <2>2, <2>3, GotoCall
  <2>5. file'[call.url] = content
    BY <2>1, <2>2 DEF DiskInv
  <2> QED
    BY <1>1, <2>1, <2>4, <2>5
       DEF ProgressInv, AfterWrite, SaveOps, WrittenSteps, ClearingSteps
<1> QED
  BY <1>2, <1>3

LEMMA ClearingProgress ==
    ASSUME IInv, ProgressInv, Unrecord \/ DeleteAutosave \/ SaveCleared
    PROVE  ProgressInv'
<1> USE DEF IInv
<1>1. UNCHANGED <<content, file, backup>> /\ call.step \in ClearingSteps
  BY DEF Unrecord, DeleteAutosave, SaveCleared, At, memory, disk, ClearingSteps
<1>2. CASE Unrecord \/ DeleteAutosave
  <2>1. PICK step \in {"deleteAutosave", "cleared"} : Goto(step)
    BY <1>2 DEF Unrecord, DeleteAutosave
  <2>2. step \in Steps
    BY DEF Steps
  <2>3. call'.step = step /\ call'.op = call.op /\ call'.url = call.url
    BY <2>1, <2>2, GotoCall
  <2>4. ~autosavedURL' /\ fileURL' = fileURL
    BY <1>2 DEF Unrecord, ListWritten, DeleteAutosave, At, ProgressInv, memory, autosavedURL
  <2>5. call.op # "autosave"
    BY <1>1 DEF ProgressInv, ClearingSteps
  <2>6. OnDisk(fileURL)' = OnDisk(fileURL)
    BY <1>1, <2>4 DEF OnDisk
  <2> QED
    BY <1>1, <2>3, <2>4, <2>5, <2>6 DEF ProgressInv, SaveOps, WrittenSteps, ClearingSteps
<1>3. CASE SaveCleared
  <2>1. call'.step = "cleanup" /\ call'.op = call.op /\ call'.url = call.url
    BY <1>3, GotoCall DEF SaveCleared, Steps
  <2>2. /\ call.op \in {"save", "saveAs"} /\ call.step = "cleared"
        /\ fileURL' = call.url /\ autosavedURL' = autosavedURL
    BY <1>3 DEF SaveCleared, At, autosavedURL
  <2> QED
    BY <1>1, <2>1, <2>2 DEF ProgressInv, SaveOps, WrittenSteps, ClearingSteps
<1> QED
  BY <1>2, <1>3

LEMMA RevertProgress ==
    ASSUME IInv, revertDocumentToSaved \/ close PROVE ProgressInv'
<1>1. CASE revertDocumentToSaved
  <2>1. call'.op = "revert" /\ call'.step = "unrecord"
    BY <1>1 DEF revertDocumentToSaved, Idle
  <2>2. /\ fileURL # None /\ fileURL' = fileURL /\ file[fileURL] # Absent
        /\ file' = file /\ content' = file[fileURL]
    BY <1>1 DEF revertDocumentToSaved, disk
  <2> QED
    BY <2>1, <2>2 DEF ProgressInv, OnDisk, SaveOps, WrittenSteps, ClearingSteps
<1>2. CASE close
  <2>1. call'.op = "close" /\ call'.step = "unrecord" /\ content' = Absent
    BY <1>2 DEF close, Idle, Present
  <2> QED
    BY <2>1 DEF ProgressInv, SaveOps, WrittenSteps, ClearingSteps
<1> QED
  BY <1>1, <1>2

LEMMA ProgressStep ==
    ASSUME IInv, CrashedInv, ProgressInv, [Next]_vars
    PROVE  ProgressInv'
<1> USE DEF IInv
<1>1. CASE \/ \E v \in Versions : Edit(v) \/ newDocument(v)
           \/ Undo \/ Redo \/ WriteFails \/ RecordAutosaved \/ Cleanup \/ AutosaveRemoved
           \/ \E f \in Names : openDocument(f)
           \/ Crash \/ Launch
  <2>1. call' = Idle
    BY <1>1 DEF Edit, newDocument, Undo, Redo, WriteFails, RecordAutosaved, Cleanup,
       AutosaveRemoved, openDocument, Crash, Launch, AtRest, CrashedInv
  <2> QED
    BY <2>1, IdleProgress
<1>2. CASE \E op \in SaveOperations, url \in Names \cup {None} : BeginSave(op, url)
  <2>1. PICK op \in SaveOperations, url \in Names \cup {None} : BeginSave(op, url)
    BY <1>2
  <2>2. /\ call'.op = op /\ call'.step \in {"removeBackup", "write"}
        /\ op = "autosave" => call'.step = "write"
    BY <2>1 DEF BeginSave, MakesBackup
  <2> QED
    BY <2>2, EarlyProgress
<1>3. CASE RemoveBackup \/ MoveToBackup \/ MoveFails
  <2>1. call.op = "save"
    BY <1>3 DEF RemoveBackup, MoveToBackup, MoveFails, At, SavingInv
  <2>2. CASE call' = Idle
    BY <2>2, IdleProgress
  <2>3. CASE call' # Idle
    <3>1. PICK step \in {"moveToBackup", "write"} : Goto(step)
      BY <1>3, <2>3 DEF RemoveBackup, MoveToBackup, MoveFails
    <3>2. step \in Steps
      BY DEF Steps
    <3>3. call'.step = step /\ call'.op = call.op
      BY <3>1, <3>2, GotoCall
    <3> QED
      BY <2>1, <3>3, EarlyProgress DEF SaveOperations
  <2> QED
    BY <2>2, <2>3
<1>4. CASE UNCHANGED vars
  BY <1>4 DEF ProgressInv, OnDisk, vars, memory, disk, autosavedURL
<1> QED
  BY <1>1, <1>2, <1>3, <1>4, WriteProgress, ClearingProgress, RevertProgress
     DEF Next, SaveStep

-----------------------------------------------------------------------------
(* The change count.                                                       *)

\* A call that is about to clear the counts goes on to do so.
LEMMA ClearingGoesOn ==
    ASSUME IInv, ProgressInv, [Next]_vars, Clearing, ~SaveCleared, ~Crash
    PROVE  Clearing' /\ call'.op = call.op /\ call'.url = call.url
<1> USE DEF IInv
<1>1. call # Idle /\ call.step \in ClearingSteps /\ call.op \in {"save", "saveAs"}
  BY IdleCall DEF Clearing, ClearingSteps
<1>2. CASE Unrecord \/ DeleteAutosave
  <2>1. PICK step \in {"deleteAutosave", "cleared"} : Goto(step)
    BY <1>2 DEF Unrecord, DeleteAutosave
  <2>2. step \in Steps
    BY DEF Steps
  <2>3. call'.step = step /\ call'.op = call.op /\ call'.url = call.url
    BY <2>1, <2>2, GotoCall
  <2> QED
    BY <1>1, <2>3 DEF Clearing, ClearingSteps
<1>3. CASE UNCHANGED vars
  BY <1>1, <1>3 DEF vars, Clearing, ClearingSteps
<1>4. CASE Launch
  BY <1>1, <1>4 DEF Launch, Clearing, ClearingSteps
<1> QED
  BY <1>1, <1>2, <1>3, <1>4
     DEF Next, SaveStep, ClearingSteps, Edit, newDocument, Undo, Redo, BeginSave,
         RemoveBackup, MoveToBackup, MoveFails, WriteSucceeds, WriteFails, RecordAutosaved,
         Cleanup, AutosaveRemoved, revertDocumentToSaved, close, openDocument, AtRest, At

\* Steps that leave the contents and their file alone.
LEMMA QuietSaved ==
    ASSUME SavedInv,
           UNCHANGED <<undo, redo, content, changeCount, permanentlyModified, fileURL, exported>>,
           fileURL # None => OnDisk(fileURL)' = OnDisk(fileURL),
           Clearing => Clearing' /\ call'.url = call.url
    PROVE  SavedInv'
BY DEF SavedInv

\* The count starts from contents that are in their file.
LEMMA StartedSaved ==
    ASSUME undo' \in Seq(Versions), redo' \in Seq(Versions), changeCount' = 0,
           permanentlyModified' \/ fileURL' = None \/ OnDisk(fileURL)' = content'
    PROVE  SavedInv'
<1>1. Reachable(undo', redo', 0) /\ Held(undo', content', redo', 0) = content'
  BY HeldNow
<1> QED
  BY <1>1 DEF SavedInv

\* A change is done, undone or redone: the count is led on.
LEMMA ChangeSaved ==
    ASSUME IInv, SavedInv, [Next]_vars,
           (\E v \in Versions : Edit(v)) \/ Undo \/ Redo
    PROVE  SavedInv'
<1> USE DEF IInv
<1>1. /\ call = Idle /\ UNCHANGED <<fileURL, exported>> /\ ~WriteSucceeds
      /\ undo \in Seq(Versions) /\ redo \in Seq(Versions) /\ changeCount \in Int
  BY IdleCall DEF Edit, Undo, Redo, AtRest, ghosts, WriteSucceeds, At, MemoryInv
<1>2. ~Clearing
  BY <1>1, IdleCall DEF Clearing
<1>3. fileURL # None => OnDisk(fileURL)' = OnDisk(fileURL)
  BY <1>1, FoundSame DEF MemoryInv, OnDisk
<1>4. CASE ~permanentlyModified'
  <2>1. ~permanentlyModified /\ Reachable(undo', redo', changeCount')
        /\ Held(undo', content', redo', changeCount')
             = Held(undo, content, redo, changeCount)
    <3>1. CASE \E v \in Versions : Edit(v)
      <4>1. PICK v \in Versions : Edit(v)
        BY <3>1
      <4>2. /\ undo' = Append(undo, content) /\ redo' = <<>> /\ content' = v
            /\ changeCount' = changeCount + 1 /\ ~permanentlyModified /\ ~(changeCount < 0)
        BY <4>1, <1>4 DEF Edit, ChangeDone, Counts, Marked
      <4>3. Reachable(undo, redo, changeCount) /\ changeCount >= 0
        BY <4>2, <1>1 DEF SavedInv
      <4> QED
        BY <4>2, <4>3, <1>1, HeldDone
    <3>2. CASE Undo
      <4>1. /\ undo' = Front(undo) /\ redo' = Append(redo, content) /\ content' = Last(undo)
            /\ changeCount' = changeCount - 1 /\ ~permanentlyModified /\ undo # <<>>
        BY <3>2, <1>1, <1>4 DEF Undo, ChangeBy, Counts
      <4>2. Reachable(undo, redo, changeCount)
        BY <4>1 DEF SavedInv
      <4> QED
        BY <4>1, <4>2, <1>1, HeldUndone
    <3>3. CASE Redo
      <4>1. /\ undo' = Append(undo, content) /\ redo' = Front(redo) /\ content' = Last(redo)
            /\ changeCount' = changeCount + 1 /\ ~permanentlyModified /\ redo # <<>>
        BY <3>3, <1>1, <1>4 DEF Redo, ChangeBy, Counts
      <4>2. Reachable(undo, redo, changeCount)
        BY <4>1 DEF SavedInv
      <4> QED
        BY <4>1, <4>2, <1>1, HeldRedone
    <3> QED
      BY <3>1, <3>2, <3>3
  <2> QED
    BY <1>1, <1>2, <1>3, <2>1 DEF SavedInv
<1> QED
  BY <1>4 DEF SavedInv

\* The save that writes over the document's own file either clears the counts
\* or is an export.
LEMMA WriteSaved ==
    ASSUME IInv, SavedInv, WriteSucceeds
    PROVE  SavedInv'
<1> USE DEF IInv
<1>1. /\ UNCHANGED <<undo, redo, content, changeCount, permanentlyModified, fileURL>>
      /\ call.step = "write" /\ call.op \in SaveOperations
      /\ exported' = (exported \/ (call.op = "saveTo" /\ call.url = fileURL))
  BY DEF WriteSucceeds, memory, counts, At, SavingInv
<1>2. ~Clearing
  BY <1>1 DEF Clearing, ClearingSteps
<1>3. fileURL # None => OnDisk(fileURL)' =
          IF call.op # "autosave" /\ fileURL = call.url THEN content ELSE OnDisk(fileURL)
  BY <1>1, FoundWritten DEF MemoryInv, OnDisk
<1>4. CASE call.op = "autosave" \/ call.url # fileURL
  <2>1. exported' = exported
    BY <1>1, <1>4 DEF RestInv
  <2> QED
    BY <1>1, <1>2, <1>3, <1>4, <2>1, QuietSaved
<1>5. CASE call.op = "saveTo" /\ call.url = fileURL
  BY <1>1, <1>5 DEF SavedInv
<1>6. CASE call.op \in {"save", "saveAs"} /\ call.url = fileURL
  <2>1. Goto("unrecord")
    BY <1>6 DEF WriteSucceeds, AfterWrite
  <2>2. call'.step = "unrecord" /\ call'.op = call.op /\ call'.url = call.url
    BY <2>1, GotoCall DEF Steps
  <2>3. Clearing' /\ call'.url = fileURL'
    BY <1>1, <1>6, <2>2 DEF Clearing, ClearingSteps
  <2> QED
    BY <1>1, <2>3 DEF SavedInv
<1> QED
  BY <1>1, <1>4, <1>5, <1>6 DEF SaveOperations

\* The contents are in the file when the counts are cleared, and when they are
\* read from it.
LEMMA ReadSaved ==
    ASSUME IInv, ProgressInv,
           \/ SaveCleared \/ revertDocumentToSaved \/ close \/ Crash \/ Launch
           \/ \E f \in Names : openDocument(f)
           \/ \E v \in Versions : newDocument(v)
    PROVE  SavedInv'
<1> USE DEF IInv
<1>1. undo' \in Seq(Versions) /\ redo' \in Seq(Versions)
  <2>1. CASE SaveCleared
    BY <2>1 DEF SaveCleared, MemoryInv
  <2>2. CASE ~SaveCleared
    <3>1. undo' = <<>> /\ redo' = <<>>
      BY <2>2 DEF revertDocumentToSaved, close, Crash, Launch, openDocument, newDocument,
         Present
    <3> QED
      BY <3>1
  <2> QED
    BY <2>1, <2>2
<1>2. changeCount' = 0
  BY DEF SaveCleared, Cleared, Counts, revertDocumentToSaved, close, Crash, Launch,
     openDocument, newDocument, Present
<1>3. CASE SaveCleared
  <2>1. /\ fileURL' = call.url /\ UNCHANGED <<content, file, backup>>
        /\ call.step = "cleared" /\ call.op \in {"save", "saveAs"}
    BY <1>3 DEF SaveCleared, At, disk
  <2>2. file[call.url] = content /\ file[call.url] # Absent
    BY <2>1 DEF ProgressInv, SavingInv, SaveOps, WrittenSteps
  <2> QED
    BY <1>1, <1>2, <2>1, <2>2, StartedSaved DEF OnDisk
<1>4. CASE revertDocumentToSaved
  BY <1>1, <1>2, <1>4, StartedSaved DEF revertDocumentToSaved, OnDisk, disk
<1>5. CASE \E f \in Names : openDocument(f)
  BY <1>1, <1>2, <1>5, StartedSaved DEF openDocument, Present, OnDisk, disk
<1>6. CASE close \/ Crash \/ \E v \in Versions : newDocument(v)
  BY <1>1, <1>2, <1>6, StartedSaved DEF close, Crash, newDocument, Present
<1>7. CASE Launch
  BY <1>1, <1>2, <1>7, StartedSaved DEF Launch, Present, Counts
<1> QED
  BY <1>3, <1>4, <1>5, <1>6, <1>7

\* A write that succeeds is followed by more steps.
LEMMA WriteGoesOn ==
    ASSUME IInv, WriteSucceeds
    PROVE  /\ call.step = "write" /\ call' # Idle
           /\ call'.step \in {"autosaved", "cleanup", "unrecord"}
<1>1. PICK step \in {"autosaved", "cleanup", "unrecord"} : Goto(step)
  BY DEF WriteSucceeds, AfterWrite
<1>2. step \in Steps
  BY DEF Steps
<1>3. call'.step = step
  BY <1>1, <1>2, GotoCall DEF IInv
<1> QED
  BY <1>3, IdleCall DEF WriteSucceeds, At

LEMMA SavedStep ==
    ASSUME IInv, ProgressInv, SavedInv, [Next]_vars
    PROVE  SavedInv'
<1> USE DEF IInv
<1>1. CASE \/ RemoveBackup \/ MoveToBackup \/ MoveFails \/ WriteFails \/ RecordAutosaved
           \/ Unrecord \/ DeleteAutosave \/ Cleanup \/ AutosaveRemoved
           \/ \E op \in SaveOperations, url \in Names \cup {None} : BeginSave(op, url)
  <2>1. UNCHANGED <<undo, redo, content, changeCount, permanentlyModified, fileURL, exported>>
    BY <1>1 DEF RemoveBackup, MoveToBackup, MoveFails, WriteFails, RecordAutosaved, Autosaved,
       Counts, Unrecord, DeleteAutosave, Cleanup, AutosaveRemoved, BeginSave, memory,
       counts, ghosts
  <2>2. ~WriteSucceeds /\ ~SaveCleared /\ ~Crash
    <3>1. ~WriteSucceeds
      BY <1>1, IdleCall, WriteGoesOn DEF RemoveBackup, MoveToBackup, MoveFails, WriteFails,
         RecordAutosaved, Unrecord, DeleteAutosave, Cleanup, AutosaveRemoved, BeginSave,
         AtRest, At
    <3>2. ~Crash
      BY <1>1 DEF RemoveBackup, MoveToBackup, MoveFails, WriteFails, RecordAutosaved,
         Unrecord, DeleteAutosave, Cleanup, AutosaveRemoved, BeginSave, AtRest, Open, At, Crash
    <3>3. ~SaveCleared
      BY <1>1, IdleCall DEF RemoveBackup, MoveToBackup, MoveFails, WriteFails, RecordAutosaved,
         Unrecord, DeleteAutosave, Cleanup, AutosaveRemoved, BeginSave, AtRest, At, SaveCleared
    <3> QED
      BY <3>1, <3>2, <3>3
  <2>3. fileURL # None => OnDisk(fileURL)' = OnDisk(fileURL)
    BY <2>1, <2>2, FoundSame DEF MemoryInv, OnDisk
  <2> QED
    BY <2>1, <2>2, <2>3, ClearingGoesOn, QuietSaved
<1>2. CASE UNCHANGED vars
  BY <1>2, QuietSaved DEF vars, memory, counts, disk, ghosts, Clearing, OnDisk
<1> QED
  BY <1>1, <1>2, ChangeSaved, WriteSaved, ReadSaved DEF Next, SaveStep

-----------------------------------------------------------------------------
(* The autosaving count.                                                   *)

\* Steps that leave the contents and the autosaved contents alone.
LEMMA QuietAutosave ==
    ASSUME AutosaveInv,
           UNCHANGED <<undo, redo, content, counts, fileURL, autosave, entry>>,
           Clearing => Clearing',
           call.step # "autosaved" \/ call'.step = "autosaved",
           call'.op \notin {"revert", "close"} \/ call'.op = call.op
    PROVE  AutosaveInv'
BY DEF AutosaveInv, NotAutosaved, counts

\* Cleared counts agree.
LEMMA ClearedAutosave ==
    ASSUME undo' \in Seq(Versions), redo' \in Seq(Versions),
           changeCount' = 0, autosaveCount' = 0, ~permanentlyModified'
    PROVE  AutosaveInv'
<1>1. Reachable(undo', redo', 0)
  BY HeldNow
<1> QED
  BY <1>1 DEF AutosaveInv, NotAutosaved

\* A change leads on both counts.
LEMMA ChangeAutosave ==
    ASSUME IInv, AutosaveInv, (\E v \in Versions : Edit(v)) \/ Undo \/ Redo
    PROVE  AutosaveInv'
<1> USE DEF IInv
<1>1. /\ call = Idle /\ call' = Idle /\ UNCHANGED <<fileURL, autosave, entry>>
      /\ undo \in Seq(Versions) /\ redo \in Seq(Versions)
      /\ changeCount \in Int /\ autosaveCount \in Int
  BY DEF Edit, Undo, Redo, AtRest, disk, MemoryInv
<1>2. ~Clearing /\ call.step # "autosaved" /\ call'.op \notin {"revert", "close"}
  BY <1>1, IdleCall DEF Clearing
<1>3. CASE ~autosavePermanentlyModified'
  <2>1. /\ ~autosavePermanentlyModified /\ Reachable(undo', redo', autosaveCount')
        /\ Held(undo', content', redo', autosaveCount')
             = Held(undo, content, redo, autosaveCount)
        /\ NotAutosaved => NotAutosaved'
    <3>1. CASE \E v \in Versions : Edit(v)
      <4>1. PICK v \in Versions : Edit(v)
        BY <3>1
      <4>2. /\ undo' = Append(undo, content) /\ redo' = <<>> /\ content' = v
            /\ changeCount' = changeCount + 1 /\ autosaveCount' = autosaveCount + 1
            /\ ~autosavePermanentlyModified /\ ~(autosaveCount < 0)
            /\ permanentlyModified' = (permanentlyModified \/ changeCount < 0)
        BY <4>1, <1>3 DEF Edit, ChangeDone, Counts, Marked
      <4>3. Reachable(undo, redo, autosaveCount) /\ autosaveCount >= 0
        BY <4>2, <1>1 DEF AutosaveInv
      <4>4. NotAutosaved => NotAutosaved'
        BY <4>2 DEF NotAutosaved
      <4> QED
        BY <4>2, <4>3, <4>4, <1>1, HeldDone
    <3>2. CASE Undo
      <4>1. /\ undo' = Front(undo) /\ redo' = Append(redo, content) /\ content' = Last(undo)
            /\ changeCount' = changeCount - 1 /\ autosaveCount' = autosaveCount - 1
            /\ ~autosavePermanentlyModified /\ undo # <<>>
            /\ permanentlyModified' = permanentlyModified
        BY <3>2, <1>1, <1>3 DEF Undo, ChangeBy, Counts
      <4>2. Reachable(undo, redo, autosaveCount)
        BY <4>1 DEF AutosaveInv
      <4>3. NotAutosaved => NotAutosaved'
        BY <4>1 DEF NotAutosaved
      <4> QED
        BY <4>1, <4>2, <4>3, <1>1, HeldUndone
    <3>3. CASE Redo
      <4>1. /\ undo' = Append(undo, content) /\ redo' = Front(redo) /\ content' = Last(redo)
            /\ changeCount' = changeCount + 1 /\ autosaveCount' = autosaveCount + 1
            /\ ~autosavePermanentlyModified /\ redo # <<>>
            /\ permanentlyModified' = permanentlyModified
        BY <3>3, <1>1, <1>3 DEF Redo, ChangeBy, Counts
      <4>2. Reachable(undo, redo, autosaveCount)
        BY <4>1 DEF AutosaveInv
      <4>3. NotAutosaved => NotAutosaved'
        BY <4>1 DEF NotAutosaved
      <4> QED
        BY <4>1, <4>2, <4>3, <1>1, HeldRedone
    <3> QED
      BY <3>1, <3>2, <3>3
  <2> QED
    BY <1>1, <1>2, <2>1 DEF AutosaveInv
<1> QED
  BY <1>2, <1>3 DEF AutosaveInv

\* Autosaving writes the contents, then tells of it; saving under a name leaves
\* the autosaved contents alone.
LEMMA WriteAutosave ==
    ASSUME IInv, ProgressInv, AutosaveInv, WriteSucceeds \/ RecordAutosaved
    PROVE  AutosaveInv'
<1> USE DEF IInv
<1>1. CASE WriteSucceeds
  <2>1. /\ UNCHANGED <<undo, redo, content, counts, fileURL, entry>>
        /\ call.step = "write" /\ call.op \in SaveOperations
    BY <1>1 DEF WriteSucceeds, memory, At, SavingInv
  <2>2. call'.op = call.op /\ call.op \notin {"revert", "close"}
    BY <2>1, <1>1, GotoCall DEF WriteSucceeds, AfterWrite, Steps, SaveOperations
  <2>3. CASE call.op = "autosave"
    <3>1. call'.step = "autosaved"
      BY <1>1, <2>3, GotoCall DEF WriteSucceeds, Steps
    <3> QED
      BY <2>1, <2>2, <3>1 DEF AutosaveInv, counts
  <2>4. CASE call.op # "autosave"
    <3>1. autosave' = autosave
      BY <1>1, <2>4 DEF WriteSucceeds
    <3>2. ~Clearing
      BY <2>1 DEF Clearing, ClearingSteps
    <3> QED
      BY <2>1, <2>2, <3>1, <3>2, QuietAutosave
  <2> QED
    BY <2>3, <2>4
<1>2. CASE RecordAutosaved
  <2>1. /\ UNCHANGED <<undo, redo, content, fileURL, autosave>> /\ autosaveCount' = 0
        /\ entry' = [location |-> fileURL] /\ call' = Idle /\ autosave = content
    BY <1>2 DEF RecordAutosaved, ListWritten, Autosaved, Counts, ProgressInv, At
  <2>2. Reachable(undo, redo, 0) /\ Held(undo, content, redo, 0) = content
    BY HeldNow DEF MemoryInv
  <2> QED
    BY <2>1, <2>2, IdleCall DEF AutosaveInv
<1> QED
  BY <1>1, <1>2

\* The autosaved contents go when the counts are cleared, or agree.
LEMMA ClearingAutosave ==
    ASSUME IInv, ProgressInv, AutosaveInv, [Next]_vars, Unrecord \/ DeleteAutosave
    PROVE  AutosaveInv'
<1> USE DEF IInv
<1>1. /\ UNCHANGED <<undo, redo, content, counts>> /\ call.step \in ClearingSteps
  BY DEF Unrecord, DeleteAutosave, memory, At, ClearingSteps
<1>2. PICK step \in {"deleteAutosave", "cleared"} : Goto(step)
  BY DEF Unrecord, DeleteAutosave
<1>3. step \in Steps
  BY DEF Steps
<1>4. call'.step = step /\ call'.op = call.op
  BY <1>2, <1>3, GotoCall
<1>5. Clearing' \/ NotAutosaved
  BY <1>1, <1>4 DEF ProgressInv, AutosaveInv, Clearing, ClearingSteps
<1> QED
  BY <1>1, <1>4, <1>5 DEF AutosaveInv, NotAutosaved, counts

\* Contents that are read from a file, or saved, have nothing to autosave; those
\* that are recovered are the autosaved ones, and the entry leads to their file.
LEMMA ReadAutosave ==
    ASSUME IInv,
           \/ SaveCleared \/ revertDocumentToSaved \/ close \/ Crash
           \/ \E f \in Names : openDocument(f)
           \/ \E v \in Versions : newDocument(v)
    PROVE  AutosaveInv'
<1>1. undo' \in Seq(Versions) /\ redo' \in Seq(Versions)
  <2>1. CASE SaveCleared
    BY <2>1 DEF SaveCleared, IInv, MemoryInv
  <2>2. CASE ~SaveCleared
    <3>1. undo' = <<>> /\ redo' = <<>>
      BY <2>2 DEF revertDocumentToSaved, close, Crash, openDocument, newDocument, Present
    <3> QED
      BY <3>1
  <2> QED
    BY <2>1, <2>2
<1>2. Counts(0, 0, FALSE, FALSE)
  BY DEF SaveCleared, Cleared, revertDocumentToSaved, close, Crash, openDocument,
     newDocument, Present
<1> QED
  BY <1>1, <1>2, ClearedAutosave DEF Counts

LEMMA LaunchAutosave ==
    ASSUME IInv, CrashedInv, Launch PROVE AutosaveInv'
<1> USE DEF IInv
<1>1. call' = Idle /\ autosave' = autosave
  BY DEF Launch, CrashedInv, disk
<1>2. undo' \in Seq(Versions) /\ redo' \in Seq(Versions)
  <2>1. undo' = <<>> /\ redo' = <<>>
    BY DEF Launch, Present
  <2> QED
    BY <2>1
<1>3. CASE record # None /\ autosave # Absent
  <2>1. /\ content' = autosave /\ fileURL' = record.location /\ autosaveCount' = 0
        /\ entry' = record
    BY <1>3 DEF Launch, Present, Counts
  <2>2. record = [location |-> record.location]
    BY <1>3 DEF DiskInv, Record
  <2>3. Reachable(undo', redo', 0) /\ Held(undo', content', redo', 0) = content'
    BY <1>2, HeldNow
  <2> QED
    BY <1>1, <2>1, <2>2, <2>3, IdleCall DEF AutosaveInv
<1>4. CASE ~(record # None /\ autosave # Absent)
  <2>1. Counts(0, 0, FALSE, FALSE)
    BY <1>4 DEF Launch, Present
  <2> QED
    BY <1>2, <2>1, ClearedAutosave DEF Counts
<1> QED
  BY <1>3, <1>4

LEMMA AutosaveStep ==
    ASSUME IInv, CrashedInv, ProgressInv, AutosaveInv, [Next]_vars
    PROVE  AutosaveInv'
<1> USE DEF IInv
<1>1. CASE \/ RemoveBackup \/ MoveToBackup \/ MoveFails \/ WriteFails
           \/ Cleanup \/ AutosaveRemoved
           \/ \E op \in SaveOperations, url \in Names \cup {None} : BeginSave(op, url)
  <2>1. UNCHANGED <<undo, redo, content, counts, fileURL, autosave, entry>>
    BY <1>1 DEF RemoveBackup, MoveToBackup, MoveFails, WriteFails, Cleanup, AutosaveRemoved,
       BeginSave, memory, disk
  <2>2. ~Clearing /\ call.step # "autosaved"
    BY <1>1, IdleCall DEF RemoveBackup, MoveToBackup, MoveFails, WriteFails, Cleanup,
       AutosaveRemoved, BeginSave, AtRest, At, Clearing, ClearingSteps
  <2>3. call'.op \notin {"revert", "close"}
    <3>1. CASE call' = Idle
      BY <3>1, IdleCall
    <3>2. CASE \E op \in SaveOperations, url \in Names \cup {None} : BeginSave(op, url)
      BY <3>2 DEF BeginSave, SaveOperations
    <3>3. CASE call' # Idle /\ (RemoveBackup \/ MoveToBackup \/ MoveFails)
      <4>1. PICK step \in {"moveToBackup", "write"} : Goto(step)
        BY <3>3 DEF RemoveBackup, MoveToBackup, MoveFails
      <4>2. step \in Steps
        BY DEF Steps
      <4>3. call'.op = call.op
        BY <4>1, <4>2, GotoCall
      <4> QED
        BY <3>3, <4>3 DEF RemoveBackup, MoveToBackup, MoveFails, At, SavingInv
    <3> QED
      BY <1>1, <3>1, <3>2, <3>3 DEF WriteFails, Cleanup, AutosaveRemoved
  <2> QED
    BY <2>1, <2>2, <2>3, QuietAutosave
<1>2. CASE UNCHANGED vars
  BY <1>2, QuietAutosave DEF vars, memory, counts, disk, Clearing
<1> QED
  BY <1>1, <1>2, ChangeAutosave, WriteAutosave, ClearingAutosave, ReadAutosave, LaunchAutosave
     DEF Next, SaveStep

-----------------------------------------------------------------------------
(* The entry of the list of autosaved documents.                           *)

LEMMA QuietEntry ==
    ASSUME EntryInv, UNCHANGED <<running, content, entry, autosave>>,
           call.step # "unrecord" \/ call'.step = "unrecord"
    PROVE  EntryInv'
BY DEF EntryInv, autosavedURL

LEMMA WriteEntry ==
    ASSUME IInv, ProgressInv, EntryInv, WriteSucceeds \/ RecordAutosaved
    PROVE  EntryInv'
<1> USE DEF IInv
<1>1. /\ running' = running /\ running /\ content' = content /\ content # Absent
      /\ call.step \in {"write", "autosaved"}
  BY DEF WriteSucceeds, RecordAutosaved, memory, At, SavingInv, ProgressInv
<1>2. autosavedURL' => autosave' # Absent
  BY <1>1 DEF WriteSucceeds, RecordAutosaved, At, ProgressInv, EntryInv, memory, autosavedURL
<1> QED
  BY <1>1, <1>2 DEF EntryInv

LEMMA ClearingEntry ==
    ASSUME IInv, ProgressInv, EntryInv, Unrecord \/ DeleteAutosave
    PROVE  EntryInv'
<1>1. ~autosavedURL'
  BY DEF Unrecord, ListWritten, DeleteAutosave, At, ProgressInv, memory, autosavedURL
<1> QED
  BY <1>1 DEF EntryInv

LEMMA OpenEntry ==
    ASSUME IInv, EntryInv,
           \/ revertDocumentToSaved \/ close \/ Crash \/ Launch
           \/ \E f \in Names : openDocument(f)
           \/ \E v \in Versions : newDocument(v)
    PROVE  EntryInv'
<1>1. CASE revertDocumentToSaved \/ close
  <2>1. UNCHANGED <<running, entry, autosave>> /\ running /\ call'.step = "unrecord"
    BY <1>1 DEF revertDocumentToSaved, close, Present, AtRest, Open, Idle, disk
  <2> QED
    BY <2>1 DEF EntryInv, autosavedURL
<1>2. CASE Crash \/ (\E f \in Names : openDocument(f)) \/ \E v \in Versions : newDocument(v)
  <2>1. entry' = None
    BY <1>2 DEF Crash, openDocument, newDocument, Present
  <2> QED
    BY <2>1 DEF EntryInv, autosavedURL
<1>3. CASE Launch
  BY <1>3 DEF Launch, Present, EntryInv, autosavedURL, disk
<1> QED
  BY <1>1, <1>2, <1>3

LEMMA EntryStep ==
    ASSUME IInv, ProgressInv, EntryInv, [Next]_vars
    PROVE  EntryInv'
<1>1. CASE \/ RemoveBackup \/ MoveToBackup \/ MoveFails \/ WriteFails \/ SaveCleared
           \/ Cleanup \/ AutosaveRemoved
           \/ \E op \in SaveOperations, url \in Names \cup {None} : BeginSave(op, url)
  <2>1. UNCHANGED <<running, content, entry, autosave>>
    BY <1>1 DEF RemoveBackup, MoveToBackup, MoveFails, WriteFails, SaveCleared, Cleanup,
       AutosaveRemoved, BeginSave, memory, disk
  <2>2. call.step # "unrecord"
    BY <1>1, IdleCall DEF RemoveBackup, MoveToBackup, MoveFails, WriteFails, SaveCleared,
       Cleanup, AutosaveRemoved, BeginSave, AtRest, At
  <2> QED
    BY <2>1, <2>2, QuietEntry
<1>2. CASE (\E v \in Versions : Edit(v)) \/ Undo \/ Redo
  <2>1. /\ UNCHANGED <<running, entry, autosave>>
        /\ content # Absent /\ call = Idle
    BY <1>2 DEF Edit, Undo, Redo, AtRest, Open, disk
  <2>2. content' \in Versions
    BY <1>2, FrontType DEF Edit, Undo, Redo, IInv, MemoryInv
  <2> QED
    BY <2>1, <2>2, IdleCall DEF EntryInv, autosavedURL
<1>3. CASE UNCHANGED vars
  BY <1>3 DEF EntryInv, vars, memory, disk, autosavedURL
<1> QED
  BY <1>1, <1>2, <1>3, WriteEntry, ClearingEntry, OpenEntry DEF Next, SaveStep

-----------------------------------------------------------------------------
(* What the user was told to be safe.                                      *)

\* Where the contents are to be found only changes with what is there.
LEMMA SameKept ==
    ASSUME UNCHANGED <<autosave, entry>>,
           \/ autosavedURL
           \/ fileURL' = fileURL /\ (fileURL # None => OnDisk(fileURL)' = OnDisk(fileURL))
    PROVE  Kept(fileURL)' = Kept(fileURL)
BY DEF Kept, autosavedURL

\* Without autosaved contents, it is the file.
LEMMA FileKept ==
    ASSUME ~autosavedURL', fileURL' # None
    PROVE  Kept(fileURL)' = OnDisk(fileURL)'
BY DEF Kept

\* If the list could be written, the next launch finds them there.
LEMMA ListedRecovered ==
    ASSUME EntryInv, Listed
    PROVE  Recovered(fileURL) = Kept(fileURL)
BY DEF EntryInv, Listed, Recovered, Kept, autosavedURL

\* Steps that tell the user nothing.
LEMMA QuietAcknowledged ==
    ASSUME AcknowledgedInv, Open' => Open, acknowledged' = acknowledged,
           Kept(fileURL)' = Kept(fileURL),
           call.op # "revert", call.step \notin WrittenSteps \cup {"autosaved"},
           call'.op # "revert", call'.step \notin WrittenSteps \cup {"autosaved"}
    PROVE  AcknowledgedInv'
BY DEF AcknowledgedInv, WrittenSteps

\* Telling the user what is to be found.
LEMMA ToldAcknowledged ==
    ASSUME Open' /\ acknowledged' # Absent => Kept(fileURL)' = acknowledged'
    PROVE  AcknowledgedInv'
BY DEF AcknowledgedInv

LEMMA WriteAcknowledged ==
    ASSUME IInv, ProgressInv, EntryInv, AcknowledgedInv, WriteSucceeds
    PROVE  AcknowledgedInv'
<1> USE DEF IInv
<1>1. /\ UNCHANGED <<running, content, fileURL, entry, acknowledged>>
      /\ call.step = "write" /\ call.op \in SaveOperations
  BY DEF WriteSucceeds, memory, At, SavingInv
<1>2. fileURL # None => OnDisk(fileURL)' =
          IF call.op # "autosave" /\ fileURL = call.url THEN content ELSE OnDisk(fileURL)
  BY <1>1, FoundWritten DEF MemoryInv, OnDisk
<1>3. Open' = Open /\ (Open /\ acknowledged # Absent => Kept(fileURL) = acknowledged)
  BY <1>1 DEF Open, AcknowledgedInv, SaveOperations, WrittenSteps
<1>4. CASE call.op = "autosave"
  <2>1. autosave' = content /\ call'.step = "autosaved" /\ call'.op = "autosave"
    BY <1>1, <1>4, GotoCall DEF WriteSucceeds, Steps
  <2>2. Kept(fileURL)' \in {content', Kept(fileURL)}
    BY <1>1, <1>2, <1>4, <2>1 DEF Kept, autosavedURL
  <2> QED
    BY <1>1, <1>3, <2>1, <2>2 DEF AcknowledgedInv
<1>5. CASE call.op = "saveTo"
  <2>1. /\ autosave' = autosave /\ call'.step = "cleanup" /\ call'.op = "saveTo"
        /\ call'.url = call.url
    BY <1>1, <1>5, GotoCall DEF WriteSucceeds, AfterWrite, Steps
  <2>2. ASSUME call.url # fileURL \/ autosavedURL
        PROVE  Kept(fileURL)' = Kept(fileURL)
    BY <1>1, <1>2, <1>5, <2>1, <2>2, SameKept
  <2>3. autosavedURL' = autosavedURL
    BY <1>1 DEF autosavedURL
  <2> QED
    BY <1>1, <1>3, <2>1, <2>2, <2>3 DEF AcknowledgedInv, WrittenSteps
<1>6. CASE call.op \in {"save", "saveAs"}
  <2>1. call'.step = "unrecord" /\ call'.op = call.op
    BY <1>1, <1>6, GotoCall DEF WriteSucceeds, AfterWrite, Steps
  <2> QED
    BY <1>6, <2>1 DEF AcknowledgedInv, WrittenSteps
<1> QED
  BY <1>1, <1>4, <1>5, <1>6 DEF SaveOperations

\* The end of a save or an autosave.
LEMMA EndAcknowledged ==
    ASSUME IInv, ProgressInv, EntryInv, AcknowledgedInv, [Next]_vars,
           RecordAutosaved \/ Cleanup
    PROVE  AcknowledgedInv'
<1> USE DEF IInv
<1>1. CASE RecordAutosaved
  <2>1. /\ autosave' = autosave /\ autosave = content /\ content # Absent
        /\ acknowledged' = content /\ entry' = [location |-> fileURL]
    BY <1>1 DEF RecordAutosaved, ListWritten, At, ProgressInv
  <2>2. entry' # None
    BY <2>1 DEF MemoryInv
  <2> QED
    BY <2>1, <2>2, ToldAcknowledged DEF Kept, autosavedURL
<1>2. CASE Cleanup
  <2>1. /\ UNCHANGED <<running, content, fileURL, entry, file, autosave>>
        /\ call.step = "cleanup" /\ call.op \in SaveOps /\ ~WriteSucceeds
    BY <1>2 DEF Cleanup, memory, At, SavingInv, WriteSucceeds
  <2>2. fileURL # None => OnDisk(fileURL)' = OnDisk(fileURL)
    BY <2>1, FoundSame DEF MemoryInv, OnDisk
  <2>3. Kept(fileURL)' = Kept(fileURL)
    BY <2>1, <2>2, SameKept
  <2>4. CASE call.op = "saveTo" /\ (call.url # fileURL \/ autosavedURL)
    <3>1. acknowledged' = acknowledged /\ Open' = Open
      BY <1>2, <2>1, <2>4 DEF Cleanup, Open
    <3>2. Open /\ acknowledged # Absent => Kept(fileURL) = acknowledged
      BY <2>1, <2>4 DEF AcknowledgedInv
    <3> QED
      BY <2>3, <3>1, <3>2, ToldAcknowledged
  <2>5. CASE ~(call.op = "saveTo" /\ (call.url # fileURL \/ autosavedURL))
    <3>1. acknowledged' = content /\ running
      BY <1>2, <2>5 DEF Cleanup, At
    <3>2. fileURL = call.url /\ ~autosavedURL /\ call.url \in Names
      BY <2>1, <2>5 DEF ProgressInv, SaveOps, SavingInv
    <3>3. file[call.url] = content /\ file[call.url] # Absent
      BY <2>1 DEF ProgressInv, SavingInv, WrittenSteps
    <3>4. ~autosavedURL' /\ fileURL' # None /\ OnDisk(fileURL)' = content
      BY <2>1, <3>2, <3>3 DEF autosavedURL, OnDisk
    <3> QED
      BY <3>1, <3>4, FileKept, ToldAcknowledged
  <2> QED
    BY <2>4, <2>5
<1> QED
  BY <1>1, <1>2

\* What removes the autosaved contents, in a save, a revert or a close.
LEMMA ClearingAcknowledged ==
    ASSUME IInv, ProgressInv, EntryInv, EntryInv', AcknowledgedInv, [Next]_vars,
           Unrecord \/ DeleteAutosave \/ SaveCleared \/ AutosaveRemoved
    PROVE  AcknowledgedInv'
<1> USE DEF IInv
<1>1. /\ UNCHANGED <<running, content, file, backup>> /\ running
      /\ call.step \in ClearingSteps
      /\ call.op \in {"save", "saveAs", "revert", "close"}
  BY DEF Unrecord, DeleteAutosave, SaveCleared, AutosaveRemoved, memory, disk, At,
     ProgressInv, ClearingSteps
<1>2. CASE call.op = "close"
  <2>1. ~Open'
    BY <1>1, <1>2 DEF ProgressInv, Open
  <2> QED
    BY <2>1 DEF AcknowledgedInv
<1>3. CASE call.op = "revert"
  <2>1. /\ fileURL # None /\ OnDisk(fileURL) = content
        /\ fileURL' = fileURL /\ OnDisk(fileURL)' = OnDisk(fileURL)
    BY <1>1, <1>3 DEF ProgressInv, Unrecord, DeleteAutosave, SaveCleared, AutosaveRemoved,
       memory, OnDisk
  <2>2. ~autosavedURL'
    BY <1>1, <1>3 DEF Unrecord, ListWritten, DeleteAutosave, SaveCleared, AutosaveRemoved, At,
       ProgressInv, memory, autosavedURL
  <2>3. Kept(fileURL)' = content'
    BY <1>1, <2>1, <2>2, FileKept
  <2>4. CASE AutosaveRemoved
    BY <2>3, <2>4, <1>1, ToldAcknowledged DEF AutosaveRemoved
  <2>5. CASE Unrecord \/ DeleteAutosave
    <3>1. PICK step \in {"deleteAutosave", "cleared"} : Goto(step)
      BY <2>5 DEF Unrecord, DeleteAutosave
    <3>2. step \in Steps
      BY DEF Steps
    <3>3. call'.step = step /\ call'.op = "revert"
      BY <1>3, <3>1, <3>2, GotoCall
    <3> QED
      BY <2>3, <3>3 DEF AcknowledgedInv
  <2> QED
    BY <1>3, <2>4, <2>5 DEF SaveCleared
<1>4. CASE call.op \in {"save", "saveAs"}
  <2>1. PICK step \in {"deleteAutosave", "cleared", "cleanup"} : Goto(step)
    BY <1>4 DEF Unrecord, DeleteAutosave, SaveCleared, AutosaveRemoved
  <2>2. step \in Steps
    BY DEF Steps
  <2>3. call'.step = step /\ call'.op = call.op
    BY <2>1, <2>2, GotoCall
  <2> QED
    BY <1>4, <2>3 DEF AcknowledgedInv, WrittenSteps
<1> QED
  BY <1>1, <1>2, <1>3, <1>4

\* What is opened was safe in its file; what is recovered, in what it was
\* recovered from.
LEMMA OpenAcknowledged ==
    ASSUME IInv, EntryInv, EntryInv', AcknowledgedInv,
           \/ revertDocumentToSaved \/ close \/ Crash \/ Launch
           \/ \E f \in Names : openDocument(f)
           \/ \E v \in Versions : newDocument(v)
    PROVE  AcknowledgedInv'
<1> USE DEF IInv
<1>1. UNCHANGED <<file, backup>>
  BY DEF revertDocumentToSaved, close, Crash, Launch, openDocument, newDocument, disk
<1>2. CASE revertDocumentToSaved
  <2>1. /\ Open /\ call = Idle /\ call'.op = "revert" /\ call'.step = "unrecord"
        /\ acknowledged' = acknowledged /\ UNCHANGED <<fileURL, autosave, entry>>
    BY <1>2 DEF revertDocumentToSaved, AtRest, Idle, disk
  <2>2. acknowledged # Absent => Kept(fileURL) = acknowledged
    BY <2>1, IdleCall DEF AcknowledgedInv, WrittenSteps
  <2>3. Kept(fileURL)' = Kept(fileURL)
    BY <1>1, <2>1, SameKept DEF OnDisk
  <2> QED
    BY <2>1, <2>2, <2>3 DEF AcknowledgedInv
<1>3. CASE close \/ Crash \/ \E v \in Versions : newDocument(v)
  BY <1>3 DEF close, Crash, newDocument, Present, AcknowledgedInv, Open
<1>4. CASE \E f \in Names : openDocument(f)
  <2>1. PICK f \in Names : openDocument(f)
    BY <1>4
  <2>2. /\ running /\ content = Absent /\ call = Idle /\ file[f] # Absent
        /\ fileURL' = f /\ acknowledged' = file[f] /\ entry' = None
    BY <2>1 DEF openDocument, Present
  <2>3. ~autosavedURL' /\ fileURL' # None /\ OnDisk(fileURL)' = file[f]
    BY <1>1, <2>2 DEF autosavedURL, OnDisk
  <2> QED
    BY <2>2, <2>3, FileKept, ToldAcknowledged
<1>5. CASE Launch
  <2>1. CASE record # None /\ autosave # Absent
    <3>1. /\ content' = autosave /\ acknowledged' = content' /\ entry' = record
          /\ autosave' = autosave
      BY <1>5, <2>1 DEF Launch, Present, disk
    <3>2. Kept(fileURL)' = autosave
      BY <2>1, <3>1 DEF Kept, autosavedURL
    <3> QED
      BY <3>1, <3>2, ToldAcknowledged
  <2>2. CASE ~(record # None /\ autosave # Absent)
    BY <1>5, <2>2 DEF Launch, Present, AcknowledgedInv
  <2> QED
    BY <2>1, <2>2
<1> QED
  BY <1>2, <1>3, <1>4, <1>5

LEMMA AcknowledgedStep ==
    ASSUME IInv, ProgressInv, EntryInv, EntryInv', AcknowledgedInv, [Next]_vars
    PROVE  AcknowledgedInv'
<1> USE DEF IInv
<1>1. CASE (\E v \in Versions : Edit(v)) \/ Undo \/ Redo
  <2>1. /\ UNCHANGED <<fileURL, file, backup, autosave, entry, acknowledged>>
        /\ Open /\ call = Idle /\ call' = Idle
    BY <1>1 DEF Edit, Undo, Redo, AtRest, disk, ghosts
  <2>2. Kept(fileURL)' = Kept(fileURL)
    BY <2>1, SameKept DEF OnDisk
  <2> QED
    BY <2>1, <2>2, IdleCall, QuietAcknowledged DEF WrittenSteps
<1>2. CASE \/ RemoveBackup \/ MoveToBackup \/ MoveFails \/ WriteFails
           \/ \E op \in SaveOperations, url \in Names \cup {None} : BeginSave(op, url)
  <2>1. /\ UNCHANGED <<running, content, fileURL, autosave, entry, acknowledged>>
        /\ ~WriteSucceeds
    <3>1. UNCHANGED <<running, content, fileURL, autosave, entry, acknowledged>>
      BY <1>2 DEF RemoveBackup, MoveToBackup, MoveFails, WriteFails, BeginSave, memory,
         disk, ghosts
    <3>2. ~WriteSucceeds
      BY <1>2, IdleCall, WriteGoesOn DEF RemoveBackup, MoveToBackup, MoveFails, WriteFails,
         BeginSave, AtRest, At
    <3> QED
      BY <3>1, <3>2
  <2>2. fileURL # None => OnDisk(fileURL)' = OnDisk(fileURL)
    BY <2>1, FoundSame DEF MemoryInv, OnDisk
  <2>3. Kept(fileURL)' = Kept(fileURL)
    BY <2>1, <2>2, SameKept
  <2>4. call.op # "revert" /\ call.step \notin WrittenSteps \cup {"autosaved"}
    BY <1>2, IdleCall DEF RemoveBackup, MoveToBackup, MoveFails, WriteFails, BeginSave,
       AtRest, At, SavingInv, SaveOperations, WrittenSteps
  <2>5. call'.op # "revert" /\ call'.step \notin WrittenSteps \cup {"autosaved"}
    <3>1. CASE call' = Idle
      BY <3>1, IdleCall DEF WrittenSteps
    <3>2. CASE \E op \in SaveOperations, url \in Names \cup {None} : BeginSave(op, url)
      BY <3>2 DEF BeginSave, SaveOperations, WrittenSteps
    <3>3. CASE call' # Idle /\ (RemoveBackup \/ MoveToBackup \/ MoveFails)
      <4>1. PICK step \in {"moveToBackup", "write"} : Goto(step)
        BY <3>3 DEF RemoveBackup, MoveToBackup, MoveFails
      <4>2. step \in Steps
        BY DEF Steps
      <4>3. call'.op = call.op /\ call'.step = step
        BY <4>1, <4>2, GotoCall
      <4> QED
        BY <2>4, <4>3 DEF WrittenSteps
    <3> QED
      BY <1>2, <3>1, <3>2, <3>3 DEF WriteFails
  <2> QED
    BY <2>1, <2>3, <2>4, <2>5, QuietAcknowledged DEF Open
<1>3. CASE UNCHANGED vars
  BY <1>3 DEF AcknowledgedInv, Open, Kept, autosavedURL, OnDisk, vars, memory, disk, ghosts
<1> QED
  BY <1>1, <1>2, <1>3, WriteAcknowledged, EndAcknowledged, ClearingAcknowledged,
     OpenAcknowledged DEF Next, SaveStep

-----------------------------------------------------------------------------
(* The theorems.                                                           *)

RecoveryInv == ProgressInv /\ SavedInv /\ AutosaveInv /\ EntryInv /\ AcknowledgedInv

LEMMA RecoveryInit == Init => RecoveryInv
<1> SUFFICES ASSUME Init PROVE RecoveryInv
  OBVIOUS
<1>1. /\ undo = <<>> /\ redo = <<>> /\ content = Absent /\ fileURL = None /\ entry = None
      /\ call = Idle /\ changeCount = 0 /\ autosaveCount = 0 /\ ~autosavedURL
      /\ ~permanentlyModified
  BY DEF Init, autosavedURL
<1>2. ProgressInv
  BY <1>1, IdleCall DEF ProgressInv, SaveOps, WrittenSteps, ClearingSteps
<1>3. Reachable(undo, redo, 0)
  BY InitInv, HeldNow DEF IInv, MemoryInv
<1>4. SavedInv /\ AutosaveInv
  BY <1>1, <1>3, IdleCall DEF SavedInv, AutosaveInv, NotAutosaved
<1>5. EntryInv
  BY <1>1 DEF EntryInv
<1>6. AcknowledgedInv
  BY <1>1 DEF AcknowledgedInv, Open
<1> QED
  BY <1>2, <1>4, <1>5, <1>6 DEF RecoveryInv

LEMMA SpecRecovery == Spec => [](IInv /\ RecoveryInv)
<1>1. Init => RecoveryInv
  BY RecoveryInit
<1>2. IInv /\ CrashedInv /\ RecoveryInv /\ [Next]_vars => RecoveryInv'
  BY ProgressStep, SavedStep, AutosaveStep, EntryStep, AcknowledgedStep DEF RecoveryInv
<1> QED
  BY <1>1, <1>2, SpecInv, PTL DEF Spec

\* A document whose -isDocumentEdited answers NO can be closed without loss,
\* however many changes were made, undone and redone (-_changeWasUndone: and
\* -_changeWasRedone:) around however many saves, reverts and crashes.
THEOREM EditedHonest == Spec => []EditedIsHonest
<1>1. IInv /\ RecoveryInv => EditedIsHonest
  <2> SUFFICES ASSUME IInv, RecoveryInv, AtRest, ~isDocumentEdited, fileURL # None, ~exported
               PROVE  OnDisk(fileURL) = content
    BY DEF EditedIsHonest
  <2>1. ~Clearing
    BY IdleCall DEF AtRest, Clearing
  <2>2. changeCount = 0 /\ ~permanentlyModified
    BY DEF isDocumentEdited
  <2>3. OnDisk(fileURL) = Held(undo, content, redo, 0)
    BY <2>1, <2>2 DEF RecoveryInv, SavedInv
  <2> QED
    BY <2>3, HeldNow DEF IInv, MemoryInv
<1> QED
  BY <1>1, SpecRecovery, PTL

\* A document whose -hasUnautosavedChanges answers NO has its contents in its
\* autosaved file, and if -_recordAutosavedDocument: could write the list,
\* -_reopenAutosavedDocuments finds them there, with the URL of its own file.
THEOREM AutosaveHonest == Spec => []AutosaveIsHonest
<1>1. IInv /\ RecoveryInv => AutosaveIsHonest
  <2> SUFFICES ASSUME IInv, RecoveryInv, AtRest, isDocumentEdited, ~hasUnautosavedChanges
               PROVE  autosave = content /\ (Listed => record = [location |-> fileURL])
    BY DEF AutosaveIsHonest
  <2>1. ~Clearing /\ call.step # "autosaved"
    BY IdleCall DEF AtRest, Clearing
  <2>2. autosaveCount = 0 /\ ~autosavePermanentlyModified /\ ~NotAutosaved
    BY DEF hasUnautosavedChanges, isDocumentEdited, NotAutosaved
  <2>3. autosave = Held(undo, content, redo, 0) /\ entry = [location |-> fileURL]
    BY <2>1, <2>2 DEF RecoveryInv, AutosaveInv
  <2> QED
    BY <2>3, HeldNow DEF IInv, MemoryInv, Listed
<1> QED
  BY <1>1, SpecRecovery, PTL

\* Whatever step of a save, an autosave, a revert or a close the program dies
\* in, what the user was last told to be safe, or what was being saved, is in one
\* of the document's files, and the next launch presents it if the list of
\* autosaved documents could be written: -_removeAutosavedContentsFile, -_writeBackupForFile:toFile:
\* and -setAutosavedContentsFileURL: come in an order that loses neither.
THEOREM AcknowledgedKept == Spec => []NothingAcknowledgedIsLost
<1>1. IInv /\ RecoveryInv => NothingAcknowledgedIsLost
  <2> SUFFICES ASSUME IInv, RecoveryInv, Open, acknowledged # Absent
               PROVE  \/ Kept(fileURL) \in {acknowledged, content}
                      \/ call.op \in {"save", "saveAs"} /\ OnDisk(call.url) = content
    BY ListedRecovered DEF NothingAcknowledgedIsLost, RecoveryInv
  <2> USE DEF IInv, RecoveryInv
  <2>1. CASE call.step = "autosaved" \/ call.op = "revert"
    BY <2>1 DEF AcknowledgedInv
  <2>2. CASE call.op # "revert" /\ call.step \notin WrittenSteps \cup {"autosaved"}
    BY <2>2 DEF AcknowledgedInv
  <2>3. CASE call.op # "revert" /\ call.step \in WrittenSteps
    <3>1. call.op \in SaveOps
      BY <2>3 DEF ProgressInv, SavingInv, WrittenSteps, ClearingSteps, SaveOps, Open
    <3>2. OnDisk(call.url) = content
      BY <2>3, <3>1 DEF ProgressInv, SavingInv, OnDisk
    <3>3. CASE call.op = "saveTo"
      <4>1. call.step = "cleanup"
        BY <2>3, <3>3 DEF ProgressInv, WrittenSteps, ClearingSteps
      <4>2. CASE call.url # fileURL \/ autosavedURL
        BY <3>3, <4>1, <4>2 DEF AcknowledgedInv
      <4>3. CASE call.url = fileURL /\ ~autosavedURL
        <5>1. fileURL # None
          BY <3>1, <4>3 DEF SavingInv
        <5> QED
          BY <3>2, <4>3, <5>1 DEF Kept
      <4> QED
        BY <4>2, <4>3
    <3> QED
      BY <3>1, <3>2, <3>3 DEF SaveOps
  <2> QED
    BY <2>1, <2>2, <2>3
<1> QED
  BY <1>1, SpecRecovery, PTL
=============================================================================
