------------------------------ MODULE Document ------------------------------
(***************************************************************************)
(* One document of an application (Source/NSDocument.m): its change counts *)
(* under editing, undoing and redoing, the steps in which it is saved and  *)
(* autosaved, and its recovery after a crash between any two of them.  A   *)
(* save happens inside one call on the main thread: nothing is edited      *)
(* meanwhile, but every step on disk may be the last one.                  *)
(***************************************************************************)
EXTENDS Integers, Sequences

CONSTANTS
    Names,          \* files the user saves to
    Versions,       \* contents of the document
    Absent,         \* no file, no version
    None,           \* nil
    MaxUndo         \* bound on the changes that can be undone and redone

ASSUME AbsentAssumption ==
    Absent \notin Versions /\ None \notin Names /\ None \notin [location: Names \cup {None}]
ASSUME UndoAssumption == MaxUndo \in Nat

VARIABLES
    running,        \* the program runs
    content,        \* the document's contents, Absent when none is open
    undo, redo,     \* the contents the undo manager goes back and forth to
    changeCount, autosaveCount,
    permanentlyModified, autosavePermanentlyModified,
    fileURL,
    entry,          \* its entry in the controller's autosavedDocuments
    call,           \* the save, autosave, revert or close that is under way
    keepBackupFile, \* what a subclass answers
    file, backup,   \* the file under each name and its backup, on disk
    autosave,       \* the autosaved contents file
    record,         \* its entry in the list of autosaved documents, on disk
    acknowledged,   \* what the user has last saved, autosaved or opened
    exported        \* Save To wrote over the document's own file

counts == <<changeCount, autosaveCount, permanentlyModified, autosavePermanentlyModified>>
memory == <<content, undo, redo, counts, fileURL, entry>>
disk == <<file, backup, autosave, record>>
ghosts == <<acknowledged, exported>>
vars == <<running, keepBackupFile, memory, call, disk, ghosts>>

Stored == Versions \cup {Absent}
SaveOperations == {"save", "saveAs", "saveTo", "autosave"}
Steps == {"idle", "removeBackup", "moveToBackup", "write", "autosaved", "unrecord",
          "deleteAutosave", "cleared", "cleanup"}
Call == [step: Steps, op: SaveOperations \cup {"revert", "close", "none"},
         url: Names \cup {None},
         hasBackup: BOOLEAN]        \* backupFilename is set
Idle == [step |-> "idle", op |-> "none", url |-> None, hasBackup |-> FALSE]
Record == [location: Names \cup {None}] \cup {None}

Init ==
    /\ running = TRUE /\ keepBackupFile \in BOOLEAN
    /\ content = Absent /\ undo = <<>> /\ redo = <<>>
    /\ changeCount = 0 /\ autosaveCount = 0
    /\ permanentlyModified = FALSE /\ autosavePermanentlyModified = FALSE
    /\ fileURL = None /\ entry = None
    /\ call = Idle
    /\ file \in [Names -> Stored]
    /\ backup = [f \in Names |-> Absent]
    /\ autosave = Absent /\ record = None
    /\ acknowledged = Absent /\ exported = FALSE

Open == running /\ content # Absent
AtRest == Open /\ call = Idle

\* The document has an autosaved contents file URL: it is set, and reset, in
\* one call with the entry.
autosavedURL == entry # None

isDocumentEdited == changeCount # 0 \/ permanentlyModified
hasUnautosavedChanges == autosaveCount # 0 \/ autosavePermanentlyModified

-----------------------------------------------------------------------------
(* updateChangeCount:                                                      *)

Counts(change, autosaved, modified, autosavedModified) ==
    /\ changeCount' = change /\ autosaveCount' = autosaved
    /\ permanentlyModified' = modified
    /\ autosavePermanentlyModified' = autosavedModified

MutantCleared == Counts(0, autosaveCount, FALSE, autosavePermanentlyModified)
Cleared == Counts(0, 0, FALSE, FALSE)

Autosaved == Counts(changeCount, 0, permanentlyModified, FALSE)

\* _changeWasDone: and _changeWasRedone:, _changeWasUndone:.  A change after
\* some have been undone makes the saved contents unreachable.
MutantMarked(count, modified) == modified
Marked(count, modified) == modified \/ count < 0

ChangeDone ==
    Counts(changeCount + 1, autosaveCount + 1,
           Marked(changeCount, permanentlyModified),
           Marked(autosaveCount, autosavePermanentlyModified))

ChangeBy(n) ==
    Counts(changeCount + n, autosaveCount + n,
           permanentlyModified, autosavePermanentlyModified)

Front(s) == SubSeq(s, 1, Len(s) - 1)
Last(s) == s[Len(s)]

Edit(v) ==
    /\ AtRest /\ Len(undo) < MaxUndo
    /\ content' = v /\ undo' = Append(undo, content) /\ redo' = <<>>
    /\ ChangeDone
    /\ UNCHANGED <<running, keepBackupFile, fileURL, entry, call, disk, ghosts>>

Undo ==
    /\ AtRest /\ undo # <<>>
    /\ content' = Last(undo) /\ undo' = Front(undo) /\ redo' = Append(redo, content)
    /\ ChangeBy(-1)
    /\ UNCHANGED <<running, keepBackupFile, fileURL, entry, call, disk, ghosts>>

Redo ==
    /\ AtRest /\ redo # <<>>
    /\ content' = Last(redo) /\ redo' = Front(redo) /\ undo' = Append(undo, content)
    /\ ChangeBy(1)
    /\ UNCHANGED <<running, keepBackupFile, fileURL, entry, call, disk, ghosts>>

-----------------------------------------------------------------------------
(* writeSafelyToURL:ofType:forSaveOperation:error:                         *)

At(step) == running /\ call.step = step
Goto(step) == call' = [call EXCEPT !.step = step]

\* A backup is made of a file that exists, when the document is saved to it.
MutantMakesBackup(op, url) == op = "save"
MakesBackup(op, url) == op = "save" /\ file[url] # Absent

\* saveDocument:, saveDocumentAs:, saveDocumentTo: and
\* autosaveDocumentWithDelegate:...; the save panel gives any name.
BeginSave(op, url) ==
    /\ AtRest
    /\ (op = "save" /\ fileURL # None) => url = fileURL
    /\ (op = "autosave") <=> (url = None)
    /\ call' = [op |-> op, url |-> url, hasBackup |-> MakesBackup(op, url),
                step |-> IF MakesBackup(op, url) THEN "removeBackup" ELSE "write"]
    /\ UNCHANGED <<running, keepBackupFile, memory, disk, ghosts>>

\* _writeBackupForFile:toFile: removes the old backup and moves the file.
RemoveBackup ==
    /\ At("removeBackup")
    /\ backup' = [backup EXCEPT ![call.url] = Absent]
    /\ Goto("moveToBackup")
    /\ UNCHANGED <<running, keepBackupFile, memory, file, autosave, record, ghosts>>

MoveToBackup ==
    /\ At("moveToBackup")
    /\ backup' = [backup EXCEPT ![call.url] = file[call.url]]
    /\ file' = [file EXCEPT ![call.url] = Absent]
    /\ Goto("write")
    /\ UNCHANGED <<running, keepBackupFile, memory, autosave, record, ghosts>>

\* When it cannot, the user is asked, if the backup was to be kept.
MoveFails ==
    /\ At("moveToBackup")
    /\ Goto("write") \/ (keepBackupFile /\ call' = Idle)
    /\ UNCHANGED <<running, keepBackupFile, memory, disk, ghosts>>

\* Not Save To: the autosaved contents are removed.
AfterWrite(op) == IF op = "saveTo" THEN "cleanup" ELSE "unrecord"

\* The file is written under another name and put in place (atomically: YES).
WriteSucceeds ==
    /\ At("write")
    /\ IF call.op = "autosave"
       THEN autosave' = content /\ UNCHANGED file /\ Goto("autosaved")
       ELSE /\ file' = [file EXCEPT ![call.url] = content]
            /\ UNCHANGED autosave
            /\ Goto(AfterWrite(call.op))
    /\ exported' = (exported \/ (call.op = "saveTo" /\ call.url = fileURL))
    /\ UNCHANGED <<running, keepBackupFile, memory, backup, record, acknowledged>>

MutantWhenWriteFails == backup' = [backup EXCEPT ![call.url] = Absent]
WhenWriteFails == UNCHANGED backup

WriteFails ==
    /\ At("write")
    /\ WhenWriteFails
    /\ call' = Idle
    /\ UNCHANGED <<running, keepBackupFile, memory, file, autosave, record, ghosts>>

\* _recordAutosavedDocument: changes the entry and writes the list of entries.
\* Whether it could be written, nobody asks.
ListWritten(new) == entry' = new /\ record' \in {new, record}

\* setAutosavedContentsFileURL: and updateChangeCount: NSChangeAutosaved.
RecordAutosaved ==
    /\ At("autosaved")
    /\ ListWritten([location |-> fileURL])
    /\ Autosaved
    /\ acknowledged' = content
    /\ call' = Idle
    /\ UNCHANGED <<running, keepBackupFile, content, undo, redo, fileURL, file, backup,
                   autosave, exported>>

\* _removeAutosavedContentsFile: out of the list, then off the disk.
Unrecord ==
    /\ At("unrecord")
    /\ IF autosavedURL THEN ListWritten(None) /\ Goto("deleteAutosave")
       ELSE UNCHANGED <<entry, record>> /\ Goto("cleared")
    /\ UNCHANGED <<running, keepBackupFile, content, undo, redo, counts, fileURL,
                   file, backup, autosave, ghosts>>

DeleteAutosave ==
    /\ At("deleteAutosave")
    /\ autosave' = Absent
    /\ Goto("cleared")
    /\ UNCHANGED <<running, keepBackupFile, memory, file, backup, record, ghosts>>

\* setFileURL: and updateChangeCount: NSChangeCleared.
SaveCleared ==
    /\ At("cleared") /\ call.op \in {"save", "saveAs"}
    /\ fileURL' = call.url
    /\ Cleared
    /\ exported' = FALSE
    /\ Goto("cleanup")
    /\ UNCHANGED <<running, keepBackupFile, content, undo, redo, entry, disk,
                   acknowledged>>

Cleanup ==
    /\ At("cleanup")
    /\ backup' = IF call.hasBackup /\ ~keepBackupFile
                 THEN [backup EXCEPT ![call.url] = Absent] ELSE backup
    /\ acknowledged' = IF call.op = "saveTo" /\ (call.url # fileURL \/ autosavedURL)
                       THEN acknowledged ELSE content
    /\ call' = Idle
    /\ UNCHANGED <<running, keepBackupFile, memory, file, autosave, record, exported>>

-----------------------------------------------------------------------------
(* Reverting, closing, opening; crash and recovery.                        *)

\* The call is over: it was a revert or a close.
AutosaveRemoved ==
    /\ At("cleared") /\ call.op \in {"revert", "close"}
    /\ call' = Idle
    /\ acknowledged' = content
    /\ UNCHANGED <<running, keepBackupFile, memory, disk, exported>>

revertDocumentToSaved ==
    /\ AtRest /\ isDocumentEdited
    /\ fileURL # None /\ file[fileURL] # Absent
    /\ content' = file[fileURL] /\ undo' = <<>> /\ redo' = <<>>
    /\ Cleared
    /\ call' = [Idle EXCEPT !.op = "revert", !.step = "unrecord"]
    /\ exported' = FALSE
    /\ UNCHANGED <<running, keepBackupFile, fileURL, entry, disk, acknowledged>>

Present(v, url, entered, modified) ==
    /\ content' = v /\ undo' = <<>> /\ redo' = <<>>
    /\ Counts(0, 0, modified, FALSE)
    /\ fileURL' = url /\ entry' = entered
    /\ exported' = FALSE

\* -close, which the user has agreed to: what is not saved is given up.
close ==
    /\ AtRest
    /\ Present(Absent, None, entry, FALSE)
    /\ acknowledged' = Absent
    /\ call' = [Idle EXCEPT !.op = "close", !.step = "unrecord"]
    /\ UNCHANGED <<running, keepBackupFile, disk>>

\* The next document has another number, and by it another autosaved contents
\* file and another entry than the last.  (When it has not: module Documents.)
Numbered == autosave' = Absent /\ record' = None

openDocument(f) ==
    /\ running /\ content = Absent /\ call = Idle
    /\ file[f] # Absent
    /\ Present(file[f], f, None, FALSE)
    /\ acknowledged' = file[f]
    /\ Numbered
    /\ UNCHANGED <<running, keepBackupFile, call, file, backup>>

newDocument(v) ==
    /\ running /\ content = Absent /\ call = Idle
    /\ Present(v, None, None, FALSE)
    /\ acknowledged' = Absent
    /\ Numbered
    /\ UNCHANGED <<running, keepBackupFile, call, file, backup>>

Crash ==
    /\ running
    /\ running' = FALSE
    /\ Present(Absent, None, None, FALSE)
    /\ call' = Idle
    /\ UNCHANGED <<keepBackupFile, disk, acknowledged>>

\* _reopenAutosavedDocuments: the autosaved contents are read, with the file
\* URL of the record (initForURL:withContentsOfURL:), and are "other" contents.
Launch ==
    /\ ~running
    /\ running' = TRUE
    /\ IF record # None /\ autosave # Absent
       THEN Present(autosave, record.location, record, TRUE)
       ELSE Present(Absent, None, None, FALSE)
    /\ acknowledged' = content'
    /\ UNCHANGED <<keepBackupFile, call, disk>>

SaveStep ==
    \/ \E op \in SaveOperations, url \in Names \cup {None} : BeginSave(op, url)
    \/ RemoveBackup \/ MoveToBackup \/ MoveFails
    \/ WriteSucceeds \/ WriteFails
    \/ RecordAutosaved \/ Unrecord \/ DeleteAutosave \/ SaveCleared \/ Cleanup

Next ==
    \/ \E v \in Versions : Edit(v) \/ newDocument(v)
    \/ Undo \/ Redo
    \/ SaveStep \/ AutosaveRemoved
    \/ revertDocumentToSaved \/ close
    \/ \E f \in Names : openDocument(f)
    \/ Crash \/ Launch

Spec == Init /\ [][Next]_vars

-----------------------------------------------------------------------------
(* Properties.                                                             *)

\* The types of the document's state, of the call under way and of the disk; a
\* file that is moved exists.
TypeOK ==
    /\ running \in BOOLEAN /\ keepBackupFile \in BOOLEAN
    /\ content \in Stored
    /\ undo \in Seq(Versions) /\ redo \in Seq(Versions)
    /\ changeCount \in Int /\ autosaveCount \in Int
    /\ permanentlyModified \in BOOLEAN /\ autosavePermanentlyModified \in BOOLEAN
    /\ fileURL \in Names \cup {None} /\ entry \in Record
    /\ call \in Call
    /\ call.step \in {"removeBackup", "moveToBackup"} => file[call.url] # Absent
    /\ file \in [Names -> Stored] /\ backup \in [Names -> Stored]
    /\ autosave \in Stored /\ record \in Record
    /\ acknowledged \in Stored /\ exported \in BOOLEAN

\* What can be found on disk under a name: after a save that failed to write,
\* the backup is all there is.
OnDisk(f) == IF file[f] # Absent THEN file[f] ELSE backup[f]

\* A document that says it is not edited can be closed without loss: after any
\* undoing, redoing and new changes around saves, reverts and recovery, its
\* contents are those of its file.  (Not when Save To wrote over that file.)
EditedIsHonest ==
    AtRest /\ ~isDocumentEdited /\ fileURL # None /\ ~exported =>
        OnDisk(fileURL) = content

\* The list on disk has, or has not, the document as the controller has it: it
\* could be written when it was last to be.
Listed == record = entry

\* A document that says it has no unautosaved changes has its contents in its
\* file or in its autosaved contents file; and that, unless the list could not
\* be written, is named by an entry with which the next launch will find it and
\* join it to the right file.
AutosaveIsHonest ==
    AtRest /\ isDocumentEdited /\ ~hasUnautosavedChanges =>
        autosave = content /\ (Listed => record = [location |-> fileURL])

\* Where the contents of a document are to be found: in its autosaved contents
\* file if it has one, or else in its file.
Kept(url) ==
    IF autosavedURL THEN autosave
    ELSE IF url # None THEN OnDisk(url) ELSE Absent

\* What the next launch would present if the program died now.
Recovered(url) ==
    IF record # None /\ autosave # Absent THEN autosave
    ELSE IF url # None THEN OnDisk(url) ELSE Absent

\* At no moment, also between any two steps on disk, is what the user was last
\* told to be safe gone, unless it is replaced by what is being saved; and it is
\* what the next launch presents, as long as the list could be written.
NothingAcknowledgedIsLost ==
    Open /\ acknowledged # Absent =>
        \/ /\ Kept(fileURL) \in {acknowledged, content}
           /\ Listed => Recovered(fileURL) \in {acknowledged, content}
        \/ call.op \in {"save", "saveAs"} /\ OnDisk(call.url) = content

\* Saving is all or nothing: with the backup for a file that is missing, each
\* name has the old version until it has the new one, whatever step fails and
\* wherever the program is killed.
Store == INSTANCE DocumentStore WITH store <- [f \in Names |-> OnDisk(f)]

StoreSpec == Store!StoreSpec
=============================================================================
