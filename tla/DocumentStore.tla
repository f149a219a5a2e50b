--------------------------- MODULE DocumentStore ---------------------------
(***************************************************************************)
(* What saving a document promises (Source/NSDocument.m): under every name *)
(* there is one version, the old one until the new one is written; a save  *)
(* that fails, or a crash, changes nothing.                                *)
(***************************************************************************)
CONSTANTS Names, Versions, Absent

VARIABLES
    store,      \* the version that can be found under each name
    content     \* the version of the document that is open, or Absent

storeVars == <<store, content>>

StoreInit ==
    /\ store \in [Names -> Versions \cup {Absent}]
    /\ content = Absent

\* The document is opened, edited, reverted or closed, or the program crashes.
Work ==
    /\ content' \in Versions \cup {Absent}
    /\ UNCHANGED store

Save ==
    /\ content # Absent
    /\ \E f \in Names : store' = [store EXCEPT ![f] = content]
    /\ UNCHANGED content

StoreNext == Work \/ Save

StoreSpec == StoreInit /\ [][StoreNext]_storeVars
=============================================================================
