----------------------------- MODULE Documents -----------------------------
(***************************************************************************)
(* The documents of an application (Source/NSDocumentController.m): they   *)
(* are created, autosaved by a timer, closed one by one, all at once or    *)
(* when the application quits, and after a crash reopened from the list of *)
(* autosaved documents.  A document stands for a piece of the user's work, *)
(* which survives the program in its autosaved contents file.  One save is *)
(* one step here; module Document takes it apart.                          *)
(***************************************************************************)
EXTENDS Naturals, Sequences, SequencesExt

CONSTANTS
    Docs,           \* the pieces of work
    None,           \* no file
    MaxIndex        \* bound on the untitled documents of one launch

ASSUME DocumentsAssumption ==
    MaxIndex \in Nat /\ None \notin Docs /\ None \notin 1 .. MaxIndex

VARIABLES
    phase,
    documents,      \* the controller's list
    doc,            \* what the documents know of themselves
    untitledCount,  \* the next number for a document; 1 at every launch
    file,           \* the work in each autosaved contents file, by number
    plist,          \* the list of autosaved documents on disk, by number
    untouched,      \* the list has not been written since the launch
    toReopen,       \* entries of that list still to be reopened
    call,           \* the loop over the documents that is under way
    deferred,       \* the delegate owes a late answer to terminate:
    settled         \* work saved, or given up by an answer of the user

memory == <<documents, doc, untitledCount>>
disk == <<file, plist, untouched>>
vars == <<phase, memory, disk, toReopen, call, deferred, settled>>

Locations == 1 .. MaxIndex
Document == [changed: BOOLEAN, permanent: BOOLEAN, unautosaved: BOOLEAN,
             location: Locations \cup {None}, index: Nat]
Call == [kind: {"none", "autosave", "closeAll", "closeAllWithDelegate", "quit"},
         rest: Seq(Docs), quit: BOOLEAN]
Idle == [kind |-> "none", rest |-> <<>>, quit |-> FALSE]
Blank(number) == [changed |-> FALSE, permanent |-> FALSE, unautosaved |-> FALSE,
                  location |-> None, index |-> number]

Init ==
    /\ phase = "running"
    /\ documents = <<>> /\ doc = [d \in Docs |-> Blank(0)] /\ untitledCount = 1
    /\ file = [l \in Locations |-> None] /\ plist = {} /\ untouched = TRUE
    /\ toReopen = {} /\ call = Idle /\ deferred = FALSE
    /\ settled = {}

Open == ToSet(documents)
isDocumentEdited(d) == doc[d].changed \/ doc[d].permanent
hasEditedDocuments == \E d \in Open : isDocumentEdited(d)

-----------------------------------------------------------------------------
(* Documents and the list of the autosaved ones.                           *)

\* _recordAutosavedDocument: the list in memory has the documents that have an
\* autosaved contents file, and is written when one came or went; that it can
\* be written is taken for granted here, and not in module Document.
Recorded(docs, state, changed) ==
    IF changed
    THEN /\ plist' = {state[d].location : d \in docs} \ {None}
         /\ untouched' = FALSE
    ELSE UNCHANGED <<plist, untouched>>

\* _removeAutosavedContentsFile: out of the list, then off the disk.
MutantForgets(d) == d \in Open /\ doc[d].changed
Forgets(d) == d \in Open

AutosavedRemoved(d, docs) ==
    LET location == doc[d].location IN
    /\ Recorded(docs, [doc EXCEPT ![d].location = None], location # None /\ Forgets(d))
    /\ file' = IF location = None THEN file ELSE [file EXCEPT ![location] = None]

Saved(d) ==
    /\ AutosavedRemoved(d, Open)
    /\ doc' = [doc EXCEPT ![d] = Blank(doc[d].index)]
    /\ settled' = settled \cup {d}
    /\ UNCHANGED <<documents, untitledCount>>

\* canCloseDocument: an edited document is saved or given up.
Agreed(d) == IF isDocumentEdited(d) THEN settled \cup {d} ELSE settled

\* removeDocument:
Without(s, d) == RemoveAt(s, CHOOSE i \in DOMAIN s : s[i] = d)

\* -close, which asks nothing.
Closed(d) ==
    /\ AutosavedRemoved(d, Open \ {d})
    /\ documents' = Without(documents, d)
    /\ doc' = [doc EXCEPT ![d] = Blank(0)]
    /\ UNCHANGED untitledCount

Running == phase = "running"
AtRest == Running /\ call = Idle

Add(d, state) ==
    /\ documents' = Append(documents, d)
    /\ doc' = [doc EXCEPT ![d] = state]
    /\ untitledCount' = untitledCount + 1

newDocument(d) ==
    /\ AtRest /\ untitledCount <= MaxIndex
    /\ d \notin Open /\ \A l \in Locations : file[l] # d
    /\ Add(d, Blank(untitledCount))
    /\ UNCHANGED <<phase, deferred, disk, toReopen, call, settled>>

Edit(d) ==
    /\ AtRest /\ d \in Open
    /\ doc' = [doc EXCEPT ![d].changed = TRUE, ![d].unautosaved = TRUE]
    /\ settled' = settled \ {d}
    /\ UNCHANGED <<phase, deferred, documents, untitledCount, disk, toReopen, call>>

\* Back to the contents last saved, which are not those autosaved.
UndoAll(d) ==
    /\ AtRest /\ d \in Open /\ doc[d].changed
    /\ doc' = [doc EXCEPT ![d].changed = FALSE, ![d].unautosaved = TRUE]
    /\ UNCHANGED <<phase, deferred, documents, untitledCount, disk, toReopen, call, settled>>

saveDocument(d) ==
    /\ AtRest /\ d \in Open
    /\ Saved(d)
    /\ UNCHANGED <<phase, deferred, toReopen, call>>

\* The user closes one document and is asked, if it is edited.
closeDocument(d) ==
    /\ AtRest /\ d \in Open
    /\ Closed(d)
    /\ settled' = Agreed(d)
    /\ UNCHANGED <<phase, deferred, toReopen, call>>

-----------------------------------------------------------------------------
(* The autosaving timer.                                                   *)

BeginAutosaving ==
    /\ AtRest /\ \E d \in Open : doc[d].unautosaved
    /\ call' = [Idle EXCEPT !.kind = "autosave", !.rest = documents]
    /\ UNCHANGED <<phase, deferred, memory, disk, toReopen, settled>>

In(kind) == Running /\ call.kind = kind
Next1 == Head(call.rest)
MutantRest == call
Rest == [call EXCEPT !.rest = Tail(@)]

\* autosaveDocumentWithDelegate:... gives the document a file of its number.
LocationOf(d) == IF doc[d].location # None THEN doc[d].location ELSE doc[d].index

Autosave ==
    LET d == Next1
        location == LocationOf(d)
        state == [doc EXCEPT ![d].unautosaved = FALSE, ![d].location = location] IN
    /\ In("autosave") /\ call.rest # <<>> /\ doc[d].unautosaved
    /\ file' = [file EXCEPT ![location] = d]
    /\ doc' = state
    /\ Recorded(Open, state, TRUE)
    /\ call' = Rest
    /\ UNCHANGED <<phase, deferred, documents, untitledCount, toReopen, settled>>

\* The save fails, or the document has nothing to autosave.
PassOver ==
    /\ In("autosave") /\ call.rest # <<>>
    /\ call' = Rest
    /\ UNCHANGED <<phase, deferred, memory, disk, toReopen, settled>>

AutosavingEnds ==
    /\ In("autosave") /\ call.rest = <<>>
    /\ call' = Idle
    /\ UNCHANGED <<phase, deferred, memory, disk, toReopen, settled>>

-----------------------------------------------------------------------------
(* Closing all documents, reviewing the edited ones and quitting.          *)

CloseAll == {"closeAll", "closeAllWithDelegate"}

BeginCloseAll(kind) ==
    /\ AtRest
    /\ call' = [kind |-> kind, rest |-> Reverse(documents), quit |-> FALSE]
    /\ UNCHANGED <<phase, deferred, memory, disk, toReopen, settled>>

Closing == Running /\ call.kind \in CloseAll /\ call.rest # <<>>

\* The document is not edited, is saved first, or is not worth saving.
CloseNext ==
    /\ Closing
    /\ Closed(Next1)
    /\ settled' = Agreed(Next1)
    /\ call' = Rest
    /\ UNCHANGED <<phase, deferred, toReopen>>

\* The user cancels, or the save fails: closeAllDocuments returns NO, and
\* closeAllDocumentsWithDelegate:... goes on to the next.
MutantAfterRefusal == [call EXCEPT !.rest = <<>>]
AfterRefusal == IF call.kind = "closeAll" THEN Idle ELSE Rest

RefuseNext ==
    /\ Closing /\ isDocumentEdited(Next1)
    /\ call' = AfterRefusal
    /\ UNCHANGED <<phase, deferred, memory, disk, toReopen, settled>>

ClosedAll ==
    /\ Running /\ call.kind \in CloseAll /\ call.rest = <<>>
    /\ call' = IF call.quit THEN [Idle EXCEPT !.kind = "quit"] ELSE Idle
    /\ UNCHANGED <<phase, deferred, memory, disk, toReopen, settled>>

\* terminate: and reviewUnsavedDocumentsWithAlertTitle:cancellable:.
Review ==
    /\ AtRest /\ hasEditedDocuments
    /\ call' = [kind |-> "closeAll", rest |-> Reverse(documents), quit |-> TRUE]
    /\ UNCHANGED <<phase, deferred, memory, disk, toReopen, settled>>

QuitAnyway ==
    /\ AtRest /\ hasEditedDocuments
    /\ call' = [Idle EXCEPT !.kind = "quit"]
    /\ settled' = settled \cup Open
    /\ UNCHANGED <<phase, deferred, memory, disk, toReopen>>

NothingToReview ==
    /\ AtRest /\ ~hasEditedDocuments
    /\ call' = [Idle EXCEPT !.kind = "quit"]
    /\ UNCHANGED <<phase, deferred, memory, disk, toReopen, settled>>

\* The delegate refuses, or answers NSTerminateLater, and the run loop goes on:
\* the documents are as unsaved as before.
DelegateRefuses ==
    /\ In("quit")
    /\ call' = Idle
    /\ deferred' \in {deferred, TRUE}
    /\ settled' = settled \ {d \in Open : isDocumentEdited(d)}
    /\ UNCHANGED <<phase, memory, disk, toReopen>>

\* replyToApplicationShouldTerminate: YES, at once or late.
DelegateAgrees ==
    /\ In("quit")
    /\ phase' = "terminating" /\ call' = Idle /\ deferred' = FALSE
    /\ UNCHANGED <<memory, disk, toReopen, settled>>

LateReply ==
    /\ AtRest /\ deferred
    /\ phase' = "terminating"
    /\ UNCHANGED <<deferred, memory, disk, toReopen, call, settled>>

\* All windows are closed, and with its last window the document.
CloseWindows(d) ==
    /\ phase = "terminating" /\ d \in Open
    /\ Closed(d)
    /\ UNCHANGED <<phase, deferred, toReopen, call, settled>>

\* The memory of the program is gone; the next launch counts from 1.
Gone ==
    /\ documents' = <<>> /\ doc' = [d \in Docs |-> Blank(0)] /\ untitledCount' = 1
    /\ deferred' = FALSE

Quit ==
    /\ phase = "terminating" /\ documents = <<>>
    /\ phase' = "quit"
    /\ Gone
    /\ UNCHANGED <<disk, toReopen, call, settled>>

-----------------------------------------------------------------------------
(* Crash and recovery.                                                     *)

\* What was not reopened yet stays on the list only if that was not rewritten.
Crash ==
    /\ phase \in {"running", "launching", "terminating"}
    /\ phase' = "crashed" /\ call' = Idle /\ toReopen' = {}
    /\ Gone
    /\ UNCHANGED <<disk, settled>>

Launch ==
    /\ phase \in {"quit", "crashed"}
    /\ phase' = "launching"
    /\ toReopen' = plist /\ untouched' = TRUE
    /\ UNCHANGED <<deferred, memory, file, plist, call, settled>>

\* _reopenAutosavedDocuments and initForURL:withContentsOfURL:..., in the order
\* of the list, which is that of a hash table.
MutantReopenedAs(l) == [Blank(untitledCount) EXCEPT !.permanent = TRUE]
ReopenedAs(l) == [Blank(untitledCount) EXCEPT !.permanent = TRUE, !.location = l]

Reopen(l) ==
    LET d == file[l]
        state == [doc EXCEPT ![d] = ReopenedAs(l)] IN
    /\ phase = "launching" /\ l \in toReopen /\ d # None
    /\ Add(d, ReopenedAs(l))
    /\ Recorded(Open \cup {d}, state, TRUE)
    /\ toReopen' = toReopen \ {l}
    /\ settled' = settled \ {d}
    /\ UNCHANGED <<phase, deferred, file, call>>

\* The contents cannot be read; -init had counted the document.
ReopenFails(l) ==
    /\ phase = "launching" /\ l \in toReopen /\ file[l] # None
    /\ toReopen' = toReopen \ {l}
    /\ untitledCount' = untitledCount + 1
    /\ UNCHANGED <<phase, deferred, documents, doc, disk, call, settled>>

FileMissing(l) ==
    /\ phase = "launching" /\ l \in toReopen /\ file[l] = None
    /\ toReopen' = toReopen \ {l}
    /\ UNCHANGED <<phase, deferred, memory, disk, call, settled>>

Launched ==
    /\ phase = "launching" /\ toReopen = {}
    /\ phase' = "running"
    /\ UNCHANGED <<deferred, memory, disk, toReopen, call, settled>>

DocumentCall(d) ==
    newDocument(d) \/ Edit(d) \/ UndoAll(d) \/ saveDocument(d) \/ closeDocument(d)

Next ==
    \/ \E d \in Docs : DocumentCall(d)
    \/ BeginAutosaving \/ Autosave \/ PassOver \/ AutosavingEnds
    \/ \E kind \in CloseAll : BeginCloseAll(kind)
    \/ CloseNext \/ RefuseNext \/ ClosedAll
    \/ Review \/ QuitAnyway \/ NothingToReview
    \/ DelegateRefuses \/ DelegateAgrees \/ LateReply
    \/ \E d \in Docs : CloseWindows(d)
    \/ Quit
    \/ Crash \/ Launch \/ Launched
    \/ \E l \in Locations : Reopen(l) \/ ReopenFails(l) \/ FileMissing(l)

Spec == Init /\ [][Next]_vars

-----------------------------------------------------------------------------
(* Properties.                                                             *)

\* The types of the controller's state; a document is in the list once, and the
\* loops over the documents only hold documents that are still open.
TypeOK ==
    /\ phase \in {"launching", "running", "terminating", "quit", "crashed"}
    /\ documents \in Seq(Docs) /\ IsInjective(documents)
    /\ doc \in [Docs -> Document] /\ untitledCount \in Nat
    /\ file \in [Locations -> Docs \cup {None}]
    /\ plist \subseteq Locations /\ toReopen \subseteq Locations
    /\ untouched \in BOOLEAN /\ deferred \in BOOLEAN
    /\ call \in Call /\ ToSet(call.rest) \subseteq Open
    /\ settled \subseteq Docs

\* An edited document is closed, alone, by closing all or by quitting, only
\* after the user has saved it, answered not to save it, or chosen to quit
\* anyway: a refusal or a failed save stops the quitting.  (Not when the delegate
\* answers late: what was edited meanwhile is not reviewed again.)
UnsavedWorkKept ==
    [][\A d \in Open :
          isDocumentEdited(d) /\ d \notin Open' =>
              \/ phase' = "crashed" \/ d \in settled'
              \/ phase = "terminating" /\ deferred]_vars

\* While the program runs, the list on disk has the autosaved files of the open
\* documents and no other: work that was closed or saved does not come back.
RecordsMatch ==
    phase \in {"launching", "running", "terminating"} /\ ~untouched =>
        /\ plist = {doc[d].location : d \in Open} \ {None}
        /\ \A l \in plist : file[l] \in Open \cup {None}

\* The next launch finds it, or the one under way will if nothing stops it.
Findable(d) == \E l \in plist \cup toReopen : file[l] = d

\* The document's contents file was written in an earlier launch, under a number
\* that another document may get in this one.
Borrowed(d) == doc[d].location \notin {None, doc[d].index}

\* The ways in which a step makes autosaved work no longer found.  It saves or
\* closes the document: UnsavedWorkKept says when it may.  It autosaves, saves or
\* closes another document that uses the file, one of the two under a number of
\* an earlier launch.  The document could not be read and reopened, or the program
\* dies before it is, when the list has been rewritten for other documents.
SavedOrClosed(d) ==
    /\ phase' # "crashed" /\ d \in Open
    /\ d \notin Open' \/ doc'[d] = Blank(doc[d].index)
Overwritten(d) ==
    \E x \in Open \ {d} :
        /\ file[LocationOf(x)] = d /\ file'[LocationOf(x)] # d
        /\ d \notin Open \/ Borrowed(d) \/ Borrowed(x)
NotReopened(d) ==
    /\ d \notin Open /\ ~untouched'
    /\ (\E l \in toReopen : file[l] = d) => phase' = "crashed" \/ documents' = documents

\* Autosaving a document makes the next launch find it (the list can be written
\* here, see Recorded), and that remains so through all that is done with it and
\* with the others, through crashes and the launches after them, but for the ways
\* above: closing, saving or autosaving one document rewrites the whole list and
\* never forgets another, and two documents whose files both got their numbers in
\* this launch never share one.
AutosavedWorkStays ==
    [][\A d \in Docs :
          /\ d \in Open /\ doc[d].unautosaved /\ ~doc'[d].unautosaved =>
                 Findable(d)' \/ SavedOrClosed(d) \/ phase' = "crashed"
          /\ Findable(d) /\ ~Findable(d)' =>
                 SavedOrClosed(d) \/ Overwritten(d) \/ NotReopened(d)]_vars
=============================================================================
