--------------------------- MODULE DocumentProofs ---------------------------
(***************************************************************************)
(* Proofs about Document, for any set of files and versions and any number *)
(* of changes to undo: its types, and that saving implements DocumentStore.*)
(***************************************************************************)
EXTENDS Document, TLAPS

USE AbsentAssumption, UndoAssumption

-----------------------------------------------------------------------------
(* The inductive invariant.                                                *)

SaveOps == {"save", "saveAs", "saveTo"}
WrittenSteps == {"unrecord", "deleteAutosave", "cleared", "cleanup"}

MemoryInv ==
    /\ content \in Stored
    /\ undo \in Seq(Versions) /\ redo \in Seq(Versions)
    /\ changeCount \in Int /\ autosaveCount \in Int
    /\ permanentlyModified \in BOOLEAN /\ autosavePermanentlyModified \in BOOLEAN
    /\ fileURL \in Names \cup {None} /\ entry \in Record

DiskInv ==
    /\ file \in [Names -> Stored] /\ backup \in [Names -> Stored]
    /\ autosave \in Stored /\ record \in Record

RestInv ==
    /\ running \in BOOLEAN /\ keepBackupFile \in BOOLEAN
    /\ acknowledged \in Stored /\ exported \in BOOLEAN

\* A call that saves has contents and a file to save them to; what was to be
\* moved exists, and so does a file that has been written.
SavingInv ==
    /\ call.op \in SaveOperations => content # Absent
    /\ call.op \in SaveOps => call.url \in Names
    /\ call.step \in {"removeBackup", "moveToBackup"} =>
           call.op = "save" /\ file[call.url] # Absent
    /\ call.step = "write" => call.op \in SaveOperations
    /\ call.step = "autosaved" => call.op = "autosave"
    /\ call.step = "cleanup" => call.op \in SaveOps
    /\ call.op \in SaveOps /\ call.step \in WrittenSteps => file[call.url] # Absent
    /\ call.hasBackup => call.op = "save"

IInv == MemoryInv /\ DiskInv /\ RestInv /\ call \in Call /\ SavingInv

LEMMA IInvTypeOK == IInv => TypeOK
BY DEF IInv, TypeOK, MemoryInv, DiskInv, RestInv, SavingInv

-----------------------------------------------------------------------------
(* Lemmas.                                                                 *)

\* The contents the undo manager holds are versions, and stay so.
LEMMA FrontType ==
    ASSUME NEW s \in Seq(Versions), s # <<>>
    PROVE  Front(s) \in Seq(Versions) /\ Last(s) \in Versions
<1>1. Len(s) \in Nat /\ Len(s) # 0 /\ s \in [1 .. Len(s) -> Versions]
  OBVIOUS
<1>2. Last(s) \in Versions
  BY <1>1 DEF Last
<1>3. SubSeq(s, 1, Len(s) - 1) \in Seq(Versions)
  <2>1. \A i \in 1 .. Len(s) - 1 : s[i] \in Versions
    BY <1>1
  <2> QED
    BY <1>1, <2>1
<1> QED
  BY <1>2, <1>3 DEF Front

\* No call is under way.
LEMMA IdleCall ==
    /\ Idle \in Call /\ Idle.step = "idle" /\ Idle.op = "none"
    /\ Idle.url = None /\ Idle.hasBackup = FALSE
BY DEF Idle, Call, Steps

\* A call that goes on only changes its step.
LEMMA GotoCall ==
    ASSUME call \in Call, NEW step \in Steps, Goto(step)
    PROVE  /\ call' \in Call /\ call'.step = step /\ call'.op = call.op
           /\ call'.url = call.url /\ call'.hasBackup = call.hasBackup
BY DEF Goto, Call

\* The fields of a call.
LEMMA CallFields ==
    ASSUME call \in Call
    PROVE  /\ call.step \in Steps /\ call.url \in Names \cup {None}
           /\ call.hasBackup \in BOOLEAN
           /\ call.op \in SaveOperations \cup {"revert", "close", "none"}
BY DEF Call

\* When no call is under way, nothing is said of one.
LEMMA IdleSaving ==
    ASSUME call' = Idle PROVE call' \in Call /\ SavingInv'
BY IdleCall DEF SavingInv, SaveOps, SaveOperations, WrittenSteps

LEMMA InitInv == Init => IInv
<1> SUFFICES ASSUME Init PROVE IInv
  OBVIOUS
<1>1. MemoryInv
  <2>1. undo \in Seq(Versions) /\ redo \in Seq(Versions)
    BY DEF Init
  <2>2. content \in Stored /\ fileURL \in Names \cup {None}
    BY DEF Init, Stored
  <2>3. changeCount \in Int /\ autosaveCount \in Int
    BY DEF Init
  <2>4. /\ permanentlyModified \in BOOLEAN /\ autosavePermanentlyModified \in BOOLEAN
        /\ entry \in Record
    BY DEF Init, Record
  <2> QED
    BY <2>1, <2>2, <2>3, <2>4 DEF MemoryInv
<1>2. DiskInv
  BY DEF Init, DiskInv, Stored, Record
<1>3. RestInv
  BY DEF Init, RestInv, Stored
<1>4. call \in Call /\ SavingInv
  BY IdleCall DEF Init, SavingInv, SaveOps, SaveOperations, WrittenSteps
<1> QED
  BY <1>1, <1>2, <1>3, <1>4 DEF IInv

-----------------------------------------------------------------------------
(* Every action preserves the invariant.  The groups of variables that most *)
(* actions leave alone come first.                                          *)

LEMMA SameMemory ==
    ASSUME MemoryInv, UNCHANGED memory PROVE MemoryInv'
BY DEF MemoryInv, memory, counts

LEMMA SameDisk ==
    ASSUME DiskInv, UNCHANGED disk PROVE DiskInv'
BY DEF DiskInv, disk

LEMMA SameRest ==
    ASSUME RestInv, UNCHANGED <<running, keepBackupFile, ghosts>> PROVE RestInv'
BY DEF RestInv, ghosts

\* The counts stay integers, the flags Booleans.
LEMMA MarkedType ==
    ASSUME NEW count \in Int, NEW modified \in BOOLEAN
    PROVE  Marked(count, modified) \in BOOLEAN
BY DEF Marked

CountsInv ==
    /\ changeCount \in Int /\ autosaveCount \in Int
    /\ permanentlyModified \in BOOLEAN /\ autosavePermanentlyModified \in BOOLEAN

LEMMA CountsType ==
    ASSUME NEW change \in Int, NEW autosaved \in Int,
           NEW modified \in BOOLEAN, NEW autosavedModified \in BOOLEAN,
           Counts(change, autosaved, modified, autosavedModified)
    PROVE  CountsInv'
BY DEF Counts, CountsInv

LEMMA ClearedType ==
    ASSUME Cleared PROVE CountsInv'
<1>1. 0 \in Int
  OBVIOUS
<1>2. Counts(0, 0, FALSE, FALSE)
  BY DEF Cleared
<1> QED
  BY <1>1, <1>2, CountsType, Zenon

\* Between calls the user edits, undoes and redoes.
LEMMA ChangeInv ==
    ASSUME IInv, \/ \E v \in Versions : Edit(v)
                 \/ Undo
                 \/ Redo
    PROVE  IInv'
<1> USE DEF IInv
<1>1. AtRest /\ UNCHANGED <<running, keepBackupFile, fileURL, entry, call, disk, ghosts>>
  BY DEF Edit, Undo, Redo
<1>2. content \in Versions /\ call = Idle
  BY <1>1 DEF AtRest, Open, MemoryInv, Stored
<1>3. content' \in Versions /\ undo' \in Seq(Versions) /\ redo' \in Seq(Versions)
  <2>1. CASE \E v \in Versions : Edit(v)
    <3>1. PICK v \in Versions : Edit(v)
      BY <2>1
    <3> QED
      BY <3>1, <1>2 DEF Edit, MemoryInv
  <2>2. CASE Undo
    BY <2>2, <1>2, FrontType DEF Undo, MemoryInv
  <2>3. CASE Redo
    BY <2>3, <1>2, FrontType DEF Redo, MemoryInv
  <2> QED
    BY <2>1, <2>2, <2>3
<1>4. CountsInv'
  <2>1. CASE \E v \in Versions : Edit(v)
    <3>1. ChangeDone
      BY <2>1 DEF Edit
    <3>2. /\ Marked(changeCount, permanentlyModified) \in BOOLEAN
          /\ Marked(autosaveCount, autosavePermanentlyModified) \in BOOLEAN
      BY MarkedType DEF MemoryInv
    <3>3. changeCount + 1 \in Int /\ autosaveCount + 1 \in Int
      BY DEF MemoryInv
    <3> QED
      BY <3>1, <3>2, <3>3, CountsType DEF ChangeDone
  <2>2. ASSUME NEW n \in {-1, 1}, ChangeBy(n) PROVE CountsInv'
    <3>1. changeCount + n \in Int /\ autosaveCount + n \in Int
      BY DEF MemoryInv
    <3> QED
      BY <2>2, <3>1, CountsType DEF ChangeBy, MemoryInv
  <2>3. CASE Undo
    BY <2>2, <2>3 DEF Undo
  <2>4. CASE Redo
    BY <2>2, <2>4 DEF Redo
  <2> QED
    BY <2>1, <2>3, <2>4
<1>5. MemoryInv'
  BY <1>1, <1>3, <1>4 DEF MemoryInv, CountsInv, Stored
<1>6. DiskInv' /\ RestInv'
  BY <1>1, SameDisk, SameRest
<1>7. call' \in Call /\ SavingInv'
  BY <1>1, <1>2, IdleSaving
<1> QED
  BY <1>5, <1>6, <1>7

\* A save begins with contents and a name; a file to be backed up exists.
LEMMA BeginSaveInv ==
    ASSUME IInv, NEW op \in SaveOperations, NEW url \in Names \cup {None},
           BeginSave(op, url)
    PROVE  IInv'
<1> USE DEF IInv
<1>1. MemoryInv' /\ DiskInv' /\ RestInv'
  BY SameMemory, SameDisk, SameRest DEF BeginSave
<1>2. content # Absent /\ UNCHANGED <<content, file>>
  BY DEF BeginSave, AtRest, Open, memory, disk
<1>3. op \in SaveOps => url \in Names
  BY DEF BeginSave, SaveOps
<1>4. MakesBackup(op, url) \in BOOLEAN /\ (MakesBackup(op, url) => op = "save" /\ file[url] # Absent)
  BY DEF MakesBackup
<1>5. /\ call' \in Call /\ call'.op = op /\ call'.url = url
      /\ call'.hasBackup = MakesBackup(op, url)
      /\ call'.step = IF MakesBackup(op, url) THEN "removeBackup" ELSE "write"
  <2> DEFINE hasBackup == MakesBackup(op, url)
             step == IF hasBackup THEN "removeBackup" ELSE "write"
  <2>1. step \in Steps
    BY DEF Steps
  <2>2. call' = [op |-> op, url |-> url, hasBackup |-> hasBackup, step |-> step]
    BY DEF BeginSave
  <2>3. hasBackup \in BOOLEAN
    BY <1>4
  <2> HIDE DEF hasBackup, step
  <2>4. call' \in Call /\ call'.op = op /\ call'.url = url
        /\ call'.hasBackup = hasBackup /\ call'.step = step
    BY <2>1, <2>2, <2>3 DEF Call
  <2> QED
    BY <2>4 DEF hasBackup, step
<1>6. SavingInv'
  BY <1>2, <1>3, <1>4, <1>5 DEF SavingInv, SaveOps, SaveOperations, WrittenSteps
<1> QED
  BY <1>1, <1>5, <1>6

\* The old file is moved out of the way, or cannot be.
LEMMA BackupInv ==
    ASSUME IInv, RemoveBackup \/ MoveToBackup \/ MoveFails
    PROVE  IInv'
<1> USE DEF IInv
<1>1. MemoryInv' /\ RestInv'
  BY SameMemory, SameRest DEF RemoveBackup, MoveToBackup, MoveFails
<1>2. call.step \in {"removeBackup", "moveToBackup"}
  BY DEF RemoveBackup, MoveToBackup, MoveFails, At
<1>3. call.op = "save" /\ call.url \in Names /\ file[call.url] # Absent /\ content # Absent
  BY <1>2 DEF SavingInv, SaveOps, SaveOperations
<1>4. content' = content
  BY DEF RemoveBackup, MoveToBackup, MoveFails, memory
<1>5. CASE RemoveBackup
  <2>1. DiskInv'
    BY <1>5, <1>3 DEF RemoveBackup, DiskInv, Stored
  <2>2. Goto("moveToBackup") /\ file' = file
    BY <1>5 DEF RemoveBackup
  <2>3. /\ call' \in Call /\ call'.step = "moveToBackup" /\ call'.op = call.op
        /\ call'.url = call.url /\ call'.hasBackup = call.hasBackup
    BY <2>2, GotoCall DEF Steps
  <2>4. SavingInv'
    BY <1>3, <1>4, <2>2, <2>3 DEF SavingInv, SaveOps, SaveOperations, WrittenSteps
  <2> QED
    BY <1>1, <2>1, <2>3, <2>4
<1>6. ASSUME Goto("write") PROVE call' \in Call /\ SavingInv'
  <2>1. /\ call' \in Call /\ call'.step = "write" /\ call'.op = call.op
        /\ call'.url = call.url /\ call'.hasBackup = call.hasBackup
    BY <1>6, GotoCall DEF Steps
  <2> QED
    BY <1>3, <1>4, <2>1 DEF SavingInv, SaveOps, SaveOperations, WrittenSteps
<1>7. CASE MoveToBackup
  <2>1. file[call.url] \in Stored /\ Absent \in Stored
    BY <1>3 DEF DiskInv, Stored
  <2>2. DiskInv'
    BY <1>7, <1>3, <2>1 DEF MoveToBackup, DiskInv
  <2> QED
    BY <1>1, <1>6, <1>7, <2>2 DEF MoveToBackup
<1>8. CASE MoveFails
  <2>1. DiskInv'
    BY <1>8, SameDisk DEF MoveFails
  <2>2. Goto("write") \/ call' = Idle
    BY <1>8 DEF MoveFails
  <2> QED
    BY <1>1, <1>6, <2>1, <2>2, IdleSaving
<1> QED
  BY <1>5, <1>7, <1>8

\* The new contents are written, under the name or as autosaved contents.
LEMMA WriteInv ==
    ASSUME IInv, WriteSucceeds \/ WriteFails
    PROVE  IInv'
<1> USE DEF IInv
<1>1. MemoryInv'
  BY SameMemory DEF WriteSucceeds, WriteFails
<1>2. call.op \in SaveOperations /\ content \in Versions /\ content' = content
  BY DEF WriteSucceeds, WriteFails, At, SavingInv, MemoryInv, Stored, memory
<1>3. CASE WriteFails
  BY <1>1, <1>3, SameDisk, SameRest, IdleSaving DEF WriteFails, WhenWriteFails, disk
<1>4. CASE WriteSucceeds /\ call.op = "autosave"
  <2>1. autosave' = content /\ file' = file /\ Goto("autosaved")
    BY <1>4 DEF WriteSucceeds
  <2>2. DiskInv'
    BY <1>2, <1>4, <2>1 DEF WriteSucceeds, DiskInv, Stored
  <2>3. /\ call' \in Call /\ call'.step = "autosaved" /\ call'.op = call.op
        /\ call'.hasBackup = call.hasBackup
    BY <2>1, GotoCall DEF Steps
  <2>4. SavingInv'
    BY <1>2, <1>4, <2>3 DEF SavingInv, SaveOps, SaveOperations, WrittenSteps
  <2>5. RestInv'
    BY <1>4 DEF WriteSucceeds, RestInv
  <2> QED
    BY <1>1, <2>2, <2>3, <2>4, <2>5
<1>5. CASE WriteSucceeds /\ call.op # "autosave"
  <2>1. call.op \in SaveOps /\ call.url \in Names
    BY <1>2, <1>5 DEF SaveOperations, SaveOps, SavingInv
  <2>2. file' = [file EXCEPT ![call.url] = content] /\ autosave' = autosave
    BY <1>5 DEF WriteSucceeds
  <2>3. PICK step \in {"cleanup", "unrecord"} : Goto(step)
    BY <1>5 DEF WriteSucceeds, AfterWrite
  <2>4. DiskInv' /\ file'[call.url] # Absent
    BY <1>2, <1>5, <2>1, <2>2 DEF WriteSucceeds, DiskInv, Stored
  <2>5. step \in Steps
    BY DEF Steps
  <2>6. /\ call' \in Call /\ call'.step = step /\ call'.op = call.op
        /\ call'.url = call.url /\ call'.hasBackup = call.hasBackup
    BY <2>3, <2>5, GotoCall
  <2>7. SavingInv'
    BY <1>2, <2>1, <2>4, <2>6 DEF SavingInv, SaveOps, SaveOperations, WrittenSteps
  <2>8. RestInv'
    BY <1>5 DEF WriteSucceeds, RestInv
  <2> QED
    BY <1>1, <2>4, <2>6, <2>7, <2>8
<1> QED
  BY <1>3, <1>4, <1>5

\* What follows a write: the list of autosaved documents, the autosaved contents,
\* the change counts and the backup are brought in line, step by step.
LEMMA AfterWriteInv ==
    ASSUME IInv, RecordAutosaved \/ Unrecord \/ DeleteAutosave \/ SaveCleared
                 \/ Cleanup \/ AutosaveRemoved
    PROVE  IInv'
<1> USE DEF IInv
<1>1. UNCHANGED <<running, keepBackupFile, content, undo, redo, file>>
  BY DEF RecordAutosaved, Unrecord, DeleteAutosave, SaveCleared, Cleanup,
         AutosaveRemoved, memory, disk
<1>2. RestInv'
  BY <1>1 DEF RecordAutosaved, Unrecord, DeleteAutosave, SaveCleared, Cleanup,
     AutosaveRemoved, RestInv, MemoryInv, ghosts
<1>3. ASSUME NEW step \in {"cleared", "deleteAutosave"}, Goto(step),
             call.step \in {"unrecord", "deleteAutosave"}
      PROVE  call' \in Call /\ SavingInv'
  <2>1. step \in Steps
    BY DEF Steps
  <2>2. /\ call' \in Call /\ call'.step = step /\ call'.op = call.op
        /\ call'.url = call.url /\ call'.hasBackup = call.hasBackup
    BY <1>3, <2>1, GotoCall
  <2> QED
    BY <1>1, <1>3, <2>2 DEF SavingInv, SaveOps, SaveOperations, WrittenSteps
<1>4. CASE RecordAutosaved
  <2>0. [location |-> fileURL] \in Record
    BY DEF Record, MemoryInv
  <2>1. MemoryInv'
    <3>1. CountsInv'
      <4>1. Counts(changeCount, 0, permanentlyModified, FALSE)
        BY <1>4 DEF RecordAutosaved, Autosaved
      <4>2. changeCount \in Int /\ 0 \in Int /\ permanentlyModified \in BOOLEAN
        BY DEF MemoryInv
      <4> QED
        BY <4>1, <4>2, CountsType, Zenon
    <3> QED
      BY <1>4, <2>0, <3>1 DEF RecordAutosaved, ListWritten, MemoryInv, CountsInv
  <2>2. DiskInv'
    <3>1. record' \in Record
      BY <1>4, <2>0 DEF RecordAutosaved, ListWritten, DiskInv
    <3> QED
      BY <1>4, <3>1 DEF RecordAutosaved, DiskInv
  <2>3. call' \in Call /\ SavingInv'
    BY <1>4, IdleSaving DEF RecordAutosaved
  <2> QED
    BY <1>2, <2>1, <2>2, <2>3
<1>5. CASE Unrecord
  <2>1. MemoryInv'
    BY <1>5 DEF Unrecord, ListWritten, MemoryInv, counts, Record
  <2>2. DiskInv'
    BY <1>5 DEF Unrecord, ListWritten, DiskInv, Record
  <2>3. \E step \in {"cleared", "deleteAutosave"} : Goto(step)
    BY <1>5 DEF Unrecord
  <2> QED
    BY <1>2, <1>3, <1>5, <2>1, <2>2, <2>3 DEF Unrecord, At
<1>6. CASE DeleteAutosave
  <2>1. MemoryInv' /\ DiskInv'
    BY <1>6, SameMemory DEF DeleteAutosave, DiskInv, Stored
  <2> QED
    BY <1>2, <1>3, <1>6, <2>1 DEF DeleteAutosave, At
<1>7. CASE SaveCleared
  <2>1. call.op \in SaveOps /\ call.url \in Names
    BY <1>7 DEF SaveCleared, SaveOps, SavingInv
  <2>2. MemoryInv'
    <3>1. CountsInv'
      BY <1>7, ClearedType DEF SaveCleared
    <3> QED
      BY <1>7, <2>1, <3>1 DEF SaveCleared, MemoryInv, CountsInv
  <2>3. DiskInv'
    BY <1>7, SameDisk DEF SaveCleared
  <2>4. /\ call' \in Call /\ call'.step = "cleanup" /\ call'.op = call.op
        /\ call'.url = call.url /\ call'.hasBackup = call.hasBackup
    BY <1>7, GotoCall DEF SaveCleared, Steps
  <2>5. call.step = "cleared"
    BY <1>7 DEF SaveCleared, At
  <2>6. SavingInv'
    BY <1>1, <2>1, <2>4, <2>5 DEF SavingInv, SaveOps, SaveOperations, WrittenSteps
  <2> QED
    BY <1>2, <2>2, <2>3, <2>4, <2>6
<1>8. CASE Cleanup
  <2>1. MemoryInv' /\ DiskInv'
    BY <1>8, SameMemory DEF Cleanup, DiskInv, Stored
  <2> QED
    BY <1>2, <1>8, <2>1, IdleSaving DEF Cleanup
<1>9. CASE AutosaveRemoved
  BY <1>2, <1>9, SameMemory, SameDisk, IdleSaving DEF AutosaveRemoved
<1> QED
  BY <1>4, <1>5, <1>6, <1>7, <1>8, <1>9

\* A document is presented, or none.
LEMMA PresentInv ==
    ASSUME NEW v \in Stored, NEW url \in Names \cup {None},
           NEW entered \in Record, NEW modified \in BOOLEAN,
           Present(v, url, entered, modified)
    PROVE  MemoryInv' /\ exported' \in BOOLEAN /\ content' = v
<1>1. Counts(0, 0, modified, FALSE)
  BY DEF Present
<1>2. CountsInv'
  <2>1. 0 \in Int
    OBVIOUS
  <2> QED
    BY <1>1, <2>1, CountsType, Zenon
<1>3. undo' \in Seq(Versions) /\ redo' \in Seq(Versions)
  BY DEF Present
<1>4. content' = v /\ fileURL' = url /\ entry' = entered /\ exported' = FALSE
  BY DEF Present
<1>5. exported' \in BOOLEAN
  BY <1>4, Zenon
<1> QED
  BY <1>2, <1>3, <1>4, <1>5 DEF MemoryInv, CountsInv

\* Reverting, closing and opening.
LEMMA OpenInv ==
    ASSUME IInv, \/ revertDocumentToSaved
                 \/ close
                 \/ \E f \in Names : openDocument(f)
                 \/ \E v \in Versions : newDocument(v)
    PROVE  IInv'
<1> USE DEF IInv
<1>1. DiskInv' /\ UNCHANGED <<running, keepBackupFile>>
  <2>1. CASE revertDocumentToSaved \/ close
    BY <2>1, SameDisk DEF revertDocumentToSaved, close
  <2>2. CASE (\E f \in Names : openDocument(f)) \/ \E v \in Versions : newDocument(v)
    <3>1. UNCHANGED <<running, keepBackupFile, file, backup>> /\ Numbered
      BY <2>2 DEF openDocument, newDocument
    <3> QED
      BY <3>1 DEF Numbered, DiskInv, Stored, Record
  <2> QED
    BY <2>1, <2>2
<1>2. ASSUME NEW op \in {"revert", "close"}, call' = [Idle EXCEPT !.op = op, !.step = "unrecord"]
      PROVE  call' \in Call /\ SavingInv'
  <2>1. call' \in Call /\ call'.op = op /\ call'.step = "unrecord" /\ call'.hasBackup = FALSE
    BY <1>2 DEF Idle, Call, Steps
  <2> QED
    BY <2>1 DEF SavingInv, SaveOps, SaveOperations, WrittenSteps
<1>3. CASE revertDocumentToSaved
  <2>1. fileURL \in Names /\ file[fileURL] \in Stored
    BY <1>3 DEF revertDocumentToSaved, MemoryInv, DiskInv
  <2>2. CountsInv'
    BY <1>3, ClearedType DEF revertDocumentToSaved
  <2>3. undo' \in Seq(Versions) /\ redo' \in Seq(Versions)
    BY <1>3 DEF revertDocumentToSaved
  <2>4. MemoryInv'
    BY <1>3, <2>1, <2>2, <2>3 DEF revertDocumentToSaved, MemoryInv, CountsInv
  <2>5. exported' \in BOOLEAN
    <3>1. exported' = FALSE
      BY <1>3 DEF revertDocumentToSaved
    <3> QED
      BY <3>1, Zenon
  <2>6. RestInv'
    BY <1>1, <1>3, <2>5 DEF revertDocumentToSaved, RestInv
  <2> QED
    BY <1>1, <1>2, <1>3, <2>4, <2>6 DEF revertDocumentToSaved
<1>4. CASE close
  <2>1. Present(Absent, None, entry, FALSE) /\ acknowledged' = Absent
    BY <1>4 DEF close
  <2>2. Absent \in Stored /\ None \in Names \cup {None} /\ entry \in Record
    BY DEF Stored, MemoryInv
  <2>3. MemoryInv' /\ exported' \in BOOLEAN
    BY <2>1, <2>2, PresentInv, Zenon
  <2>4. RestInv'
    BY <1>1, <2>1, <2>2, <2>3 DEF RestInv
  <2> QED
    BY <1>1, <1>2, <1>4, <2>3, <2>4 DEF close
<1>5. CASE \E f \in Names : openDocument(f)
  <2>1. PICK f \in Names : openDocument(f)
    BY <1>5
  <2>2. Present(file[f], f, None, FALSE) /\ acknowledged' = file[f] /\ call' = Idle
    BY <2>1 DEF openDocument
  <2>3. file[f] \in Stored /\ f \in Names \cup {None} /\ None \in Record
    BY DEF DiskInv, Record
  <2>4. MemoryInv' /\ exported' \in BOOLEAN
    BY <2>2, <2>3, PresentInv, Zenon
  <2>5. RestInv'
    BY <1>1, <2>2, <2>3, <2>4 DEF RestInv
  <2> QED
    BY <1>1, <2>2, <2>4, <2>5, IdleSaving
<1>6. CASE \E v \in Versions : newDocument(v)
  <2>1. PICK v \in Versions : newDocument(v)
    BY <1>6
  <2>2. Present(v, None, None, FALSE) /\ acknowledged' = Absent /\ call' = Idle
    BY <2>1 DEF newDocument
  <2>3. v \in Stored /\ Absent \in Stored /\ None \in Names \cup {None} /\ None \in Record
    BY DEF Stored, Record
  <2>4. MemoryInv' /\ exported' \in BOOLEAN
    BY <2>2, <2>3, PresentInv, Zenon
  <2>5. RestInv'
    BY <1>1, <2>2, <2>3, <2>4 DEF RestInv
  <2> QED
    BY <1>1, <2>2, <2>4, <2>5, IdleSaving
<1> QED
  BY <1>3, <1>4, <1>5, <1>6

\* A crash ends the call under way: the invariant says so apart.
CrashedInv == running \/ call = Idle

\* The program dies, and is launched again.
LEMMA CrashInv ==
    ASSUME IInv, CrashedInv, Crash \/ Launch
    PROVE  IInv'
<1> USE DEF IInv
<1>1. DiskInv' /\ call' = Idle /\ UNCHANGED keepBackupFile
  BY SameDisk DEF Crash, Launch, CrashedInv
<1>2. Absent \in Stored /\ None \in Names \cup {None} /\ autosave \in Stored
      /\ None \in Record /\ record \in Record
  BY DEF Stored, DiskInv, Record
<1>3. CASE Crash
  <2>1. Present(Absent, None, None, FALSE) /\ acknowledged' = acknowledged /\ running' = FALSE
    BY <1>3 DEF Crash
  <2>2. MemoryInv' /\ exported' \in BOOLEAN
    BY <1>2, <2>1, PresentInv, Zenon
  <2>3. running' \in BOOLEAN
    BY <2>1, Zenon
  <2>4. RestInv'
    BY <1>1, <2>1, <2>2, <2>3 DEF RestInv
  <2> QED
    BY <1>1, <2>2, <2>4, IdleSaving
<1>4. CASE Launch
  <2>1. acknowledged' = content' /\ running' = TRUE
    BY <1>4 DEF Launch
  <2>2. MemoryInv' /\ exported' \in BOOLEAN
    <3>1. CASE record # None /\ autosave # Absent
      <4>1. record.location \in Names \cup {None}
        BY <3>1 DEF DiskInv, Record
      <4>2. Present(autosave, record.location, record, TRUE)
        BY <1>4, <3>1 DEF Launch
      <4> QED
        BY <1>2, <4>1, <4>2, PresentInv, Zenon
    <3>2. CASE ~(record # None /\ autosave # Absent)
      <4>1. Present(Absent, None, None, FALSE)
        BY <1>4, <3>2 DEF Launch
      <4> QED
        BY <1>2, <4>1, PresentInv, Zenon
    <3> QED
      BY <3>1, <3>2
  <2>3. running' \in BOOLEAN
    BY <2>1, Zenon
  <2>4. RestInv'
    BY <1>1, <2>1, <2>2, <2>3 DEF RestInv, MemoryInv
  <2> QED
    BY <1>1, <2>2, <2>4, IdleSaving
<1> QED
  BY <1>3, <1>4

LEMMA StutterInv ==
    ASSUME IInv, UNCHANGED vars PROVE IInv'
BY DEF IInv, MemoryInv, DiskInv, RestInv, SavingInv, vars, memory, counts, disk, ghosts

LEMMA CrashedStep ==
    ASSUME CrashedInv, [Next]_vars
    PROVE  CrashedInv'
<1>1. CASE Crash
  BY <1>1 DEF Crash, CrashedInv
<1>2. CASE Launch
  BY <1>2 DEF Launch, CrashedInv
<1>3. CASE UNCHANGED vars
  BY <1>3 DEF CrashedInv, vars
<1>4. CASE Next /\ ~Crash /\ ~Launch
  <2>1. running /\ UNCHANGED running
    BY <1>4 DEF Next, SaveStep, Edit, Undo, Redo, BeginSave, RemoveBackup, MoveToBackup,
       MoveFails, WriteSucceeds, WriteFails, RecordAutosaved, Unrecord, DeleteAutosave,
       SaveCleared, Cleanup, AutosaveRemoved, revertDocumentToSaved, close, openDocument,
       newDocument, AtRest, Open, At
  <2> QED
    BY <2>1 DEF CrashedInv
<1> QED
  BY <1>1, <1>2, <1>3, <1>4

LEMMA NextInv ==
    ASSUME IInv, CrashedInv, [Next]_vars
    PROVE  IInv'
<1>1. CASE \E v \in Versions : Edit(v) \/ newDocument(v)
  BY <1>1, ChangeInv, OpenInv
<1>2. CASE SaveStep
  BY <1>2, BeginSaveInv, BackupInv, WriteInv, AfterWriteInv DEF SaveStep
<1>3. CASE Undo \/ Redo
  BY <1>3, ChangeInv
<1>4. CASE AutosaveRemoved
  BY <1>4, AfterWriteInv
<1>5. CASE revertDocumentToSaved \/ close \/ \E f \in Names : openDocument(f)
  BY <1>5, OpenInv
<1>6. CASE Crash \/ Launch
  BY <1>6, CrashInv
<1>7. CASE UNCHANGED vars
  BY <1>7, StutterInv
<1> QED
  BY <1>1, <1>2, <1>3, <1>4, <1>5, <1>6, <1>7 DEF Next

LEMMA SpecInv == Spec => [](IInv /\ CrashedInv)
<1>1. Init => IInv /\ CrashedInv
  BY InitInv DEF Init, CrashedInv
<1>2. IInv /\ CrashedInv /\ [Next]_vars => (IInv /\ CrashedInv)'
  BY NextInv, CrashedStep
<1> QED
  BY <1>1, <1>2, PTL DEF Spec

\* The document's state, its call and the disk keep their types through every
\* save, failure and crash; a file that -_writeBackupForFile:toFile: moves exists.
THEOREM DocumentTypeOK == Spec => []TypeOK
BY SpecInv, IInvTypeOK, PTL

-----------------------------------------------------------------------------
(* Saving implements DocumentStore.                                        *)

\* Only the write changes what can be found under a name: what is moved or
\* removed before and after it can be found elsewhere.
LEMMA FoundSame ==
    ASSUME IInv, [Next]_vars, ~WriteSucceeds
    PROVE  \A f \in Names : OnDisk(f)' = OnDisk(f)
<1> USE DEF IInv
<1>1. CASE RemoveBackup
  <2>1. file' = file /\ backup' = [backup EXCEPT ![call.url] = Absent] /\ file[call.url] # Absent
    BY <1>1 DEF RemoveBackup, At, SavingInv
  <2> QED
    BY <2>1 DEF OnDisk, DiskInv
<1>2. CASE MoveToBackup
  <2>1. /\ file' = [file EXCEPT ![call.url] = Absent]
        /\ backup' = [backup EXCEPT ![call.url] = file[call.url]]
        /\ file[call.url] # Absent
    BY <1>2 DEF MoveToBackup, At, SavingInv
  <2> QED
    BY <2>1 DEF OnDisk, DiskInv
<1>3. CASE Cleanup
  <2>1. file' = file /\ file[call.url] # Absent
    BY <1>3 DEF Cleanup, At, SavingInv, WrittenSteps
  <2>2. \A f \in Names : f # call.url => backup'[f] = backup[f]
    BY <1>3 DEF Cleanup, DiskInv
  <2> QED
    BY <2>1, <2>2 DEF OnDisk
<1>4. CASE Next /\ ~(RemoveBackup \/ MoveToBackup \/ Cleanup)
  <2>1. UNCHANGED <<file, backup>>
    BY <1>4 DEF Next, SaveStep, Edit, Undo, Redo, BeginSave, MoveFails, WriteFails,
       WhenWriteFails, RecordAutosaved, Unrecord, DeleteAutosave, SaveCleared,
       AutosaveRemoved, revertDocumentToSaved, close, openDocument, newDocument,
       Crash, Launch, disk
  <2> QED
    BY <2>1 DEF OnDisk
<1>5. CASE UNCHANGED vars
  BY <1>5 DEF OnDisk, vars, disk
<1> QED
  BY <1>1, <1>2, <1>3, <1>4, <1>5

\* The write puts the new version under its name at once.
LEMMA FoundWritten ==
    ASSUME IInv, WriteSucceeds
    PROVE  \A f \in Names :
             OnDisk(f)' = IF call.op # "autosave" /\ f = call.url THEN content ELSE OnDisk(f)
<1> USE DEF IInv
<1>1. backup' = backup
  BY DEF WriteSucceeds
<1>2. CASE call.op = "autosave"
  BY <1>1, <1>2 DEF WriteSucceeds, OnDisk
<1>3. CASE call.op # "autosave"
  <2>1. content # Absent
    BY DEF WriteSucceeds, At, SavingInv
  <2>2. file' = [file EXCEPT ![call.url] = content]
    BY <1>3 DEF WriteSucceeds
  <2> QED
    BY <1>1, <1>3, <2>1, <2>2 DEF OnDisk, DiskInv
<1> QED
  BY <1>2, <1>3

\* A step that leaves what can be found under every name is the user's work.
LEMMA WorkStep ==
    ASSUME MemoryInv', \A f \in Names : OnDisk(f)' = OnDisk(f)
    PROVE  Store!Work
<1>1. [f \in Names |-> OnDisk(f)]' = [f \in Names |-> OnDisk(f)]
  BY SMT
<1> QED
  BY <1>1 DEF Store!Work, MemoryInv, Stored

\* The write under a name is the abstract save.
LEMMA WriteStep ==
    ASSUME IInv, IInv', WriteSucceeds, call.op # "autosave"
    PROVE  Store!Save
<1> USE DEF IInv
<1>1. call.op \in SaveOps /\ content # Absent /\ content' = content
  BY DEF WriteSucceeds, At, SavingInv, SaveOps, SaveOperations, memory
<1>2. call.url \in Names
  BY <1>1 DEF SavingInv
<1>3. \A f \in Names : OnDisk(f)' = IF f = call.url THEN content ELSE OnDisk(f)
  BY FoundWritten
<1>4. [f \in Names |-> OnDisk(f)]' = [[f \in Names |-> OnDisk(f)] EXCEPT ![call.url] = content]
  <2> DEFINE written == [f \in Names |-> IF f = call.url THEN content ELSE OnDisk(f)]
  <2>1. [f \in Names |-> OnDisk(f)]' = written
    BY <1>3, Zenon
  <2>2. [[f \in Names |-> OnDisk(f)] EXCEPT ![call.url] = content] = written
    BY <1>2
  <2> QED
    BY <2>1, <2>2
<1> QED
  BY <1>1, <1>2, <1>4 DEF Store!Save

LEMMA StoreStep ==
    ASSUME IInv, IInv', [Next]_vars
    PROVE  [Store!StoreNext]_(Store!storeVars)
<1>1. MemoryInv'
  BY DEF IInv
<1>2. CASE ~WriteSucceeds
  BY <1>1, <1>2, FoundSame, WorkStep DEF Store!StoreNext
<1>3. CASE WriteSucceeds /\ call.op = "autosave"
  BY <1>1, <1>3, FoundWritten, WorkStep DEF Store!StoreNext
<1>4. CASE WriteSucceeds /\ call.op # "autosave"
  BY <1>4, WriteStep DEF Store!StoreNext
<1> QED
  BY <1>2, <1>3, <1>4

LEMMA StoreInit == Init => Store!StoreInit
<1> SUFFICES ASSUME Init PROVE Store!StoreInit
  OBVIOUS
<1>1. \A f \in Names : OnDisk(f) \in Versions \cup {Absent}
  BY DEF Init, OnDisk, Stored
<1>2. [f \in Names |-> OnDisk(f)] \in [Names -> Versions \cup {Absent}]
  BY <1>1
<1> QED
  BY <1>2 DEF Init, Store!StoreInit

\* Saving is all or nothing, for every set of names and versions: under each
\* name there is the old version until there is the new one, whatever step of
\* -writeSafelyToURL:... fails and wherever the program is killed.
THEOREM SavingImplementsStore == Spec => StoreSpec
<1>1. Init => Store!StoreInit
  BY StoreInit
<1>2. IInv /\ IInv' /\ [Next]_vars => [Store!StoreNext]_(Store!storeVars)
  BY StoreStep
<1>3. Spec => []IInv
  BY SpecInv, PTL
<1> QED
  BY <1>1, <1>2, <1>3, PTL DEF Spec, StoreSpec, Store!StoreSpec
=============================================================================
