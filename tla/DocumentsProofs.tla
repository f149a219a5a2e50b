--------------------------- MODULE DocumentsProofs ---------------------------
(***************************************************************************)
(* Proofs about Documents, for any set of documents: its types, that an    *)
(* edited document is closed only when the user has agreed, that the list  *)
(* on disk names the autosaved files of the open documents, and that       *)
(* autosaved work stays findable, with the exceptions the property names.  *)
(***************************************************************************)
EXTENDS Documents, FiniteSetTheorems, SequenceTheorems, TLAPS

USE DocumentsAssumption

-----------------------------------------------------------------------------
(* Lemmas on lists of documents.                                           *)

\* What a list has after -removeDocument:.
LEMMA WithoutElements ==
    ASSUME NEW s \in Seq(Docs), NEW d \in ToSet(s)
    PROVE  /\ Without(s, d) \in Seq(Docs)
           /\ ToSet(s) \ {d} \subseteq ToSet(Without(s, d))
           /\ ToSet(Without(s, d)) \subseteq ToSet(s)
           /\ IsInjective(s) => /\ IsInjective(Without(s, d))
                                /\ ToSet(Without(s, d)) = ToSet(s) \ {d}
<1> DEFINE k == CHOOSE i \in DOMAIN s : s[i] = d
           w == Without(s, d)
<1>1. k \in 1 .. Len(s) /\ s[k] = d
  BY DEF ToSet
<1>2. Len(s) \in Nat /\ \A i \in 1 .. Len(s) : s[i] \in Docs
  OBVIOUS
<1> HIDE DEF k
<1> DEFINE u == SubSeq(s, 1, k - 1)
           v == SubSeq(s, k + 1, Len(s))
<1>3. w = u \o v
  BY DEF Without, RemoveAt, k
<1>4. /\ u \in Seq(Docs) /\ Len(u) = k - 1 /\ \A i \in 1 .. k - 1 : u[i] = s[i]
      /\ v \in Seq(Docs) /\ Len(v) = Len(s) - k /\ \A i \in 1 .. Len(s) - k : v[i] = s[k + i]
  BY <1>1, <1>2
<1> HIDE DEF w, u, v
<1>5. /\ w \in Seq(Docs) /\ Len(w) = Len(s) - 1 /\ DOMAIN w = 1 .. Len(s) - 1
      /\ \A i \in 1 .. Len(s) - 1 : w[i] = IF i < k THEN s[i] ELSE s[i + 1]
  <2>1. w \in Seq(Docs) /\ Len(w) = Len(s) - 1 /\ DOMAIN w = 1 .. Len(s) - 1
    <3>1. w \in Seq(Docs) /\ Len(w) = Len(u) + Len(v)
      <4>1. u \in Seq(Docs) /\ v \in Seq(Docs)
        BY <1>4
      <4> QED
        BY <1>3, <4>1, ConcatProperties
    <3>2. DOMAIN w = 1 .. Len(w)
      BY <3>1
    <3>3. Len(w) = Len(s) - 1
      BY <1>1, <1>2, <1>4, <3>1
    <3> QED
      BY <3>1, <3>2, <3>3
  <2> SUFFICES ASSUME NEW i \in 1 .. Len(s) - 1
               PROVE  w[i] = IF i < k THEN s[i] ELSE s[i + 1]
    BY <2>1
  <2>2. CASE i < k
    BY <1>1, <1>2, <1>3, <1>4, <2>2
  <2>3. CASE i >= k
    <3>1. w[i] = v[i - Len(u)]
      BY <1>1, <1>2, <1>3, <1>4, <2>3
    <3>2. i - Len(u) \in 1 .. Len(s) - k /\ k + (i - Len(u)) = i + 1
      BY <1>1, <1>2, <1>4, <2>3
    <3> QED
      BY <1>1, <1>2, <1>4, <2>3, <3>1, <3>2
  <2> QED
    BY <1>1, <1>2, <2>2, <2>3
<1>6. ToSet(s) \ {d} \subseteq ToSet(w)
  <2> SUFFICES ASSUME NEW i \in DOMAIN s, s[i] # d PROVE s[i] \in ToSet(w)
    BY DEF ToSet
  <2>1. i \in 1 .. Len(s) /\ i # k
    BY <1>1
  <2>2. CASE i < k
    <3>1. i \in 1 .. Len(s) - 1 /\ w[i] = s[i]
      BY <1>1, <1>2, <1>5, <2>1, <2>2
    <3> QED
      BY <1>5, <3>1 DEF ToSet
  <2>3. CASE i > k
    <3>1. i - 1 \in 1 .. Len(s) - 1 /\ w[i - 1] = s[i]
      BY <1>1, <1>2, <1>5, <2>1, <2>3
    <3> QED
      BY <1>5, <3>1 DEF ToSet
  <2> QED
    BY <1>1, <1>2, <2>1, <2>2, <2>3
<1>7. ToSet(w) \subseteq ToSet(s)
  BY <1>1, <1>2, <1>5 DEF ToSet
<1>8. ASSUME IsInjective(s) PROVE IsInjective(w) /\ ToSet(w) = ToSet(s) \ {d}
  <2>1. \A i, j \in 1 .. Len(s) : s[i] = s[j] => i = j
    BY <1>8 DEF IsInjective
  <2>2. IsInjective(w)
    BY <1>1, <1>2, <1>5, <2>1 DEF IsInjective
  <2>3. \A i \in 1 .. Len(s) - 1 : w[i] # d
    BY <1>1, <1>2, <1>5, <2>1
  <2> QED
    BY <1>5, <1>6, <1>7, <2>2, <2>3 DEF ToSet
<1> QED
  BY <1>5, <1>6, <1>7, <1>8 DEF w

\* What the loops over the documents take from the front of their list.
LEMMA TailElements ==
    ASSUME NEW s \in Seq(Docs), s # <<>>
    PROVE  /\ Head(s) \in ToSet(s) /\ Tail(s) \in Seq(Docs)
           /\ ToSet(Tail(s)) \subseteq ToSet(s)
           /\ ToSet(s) \subseteq ToSet(Tail(s)) \cup {Head(s)}
           /\ IsInjective(s) => IsInjective(Tail(s)) /\ Head(s) \notin ToSet(Tail(s))
<1>1. /\ Len(s) \in Nat \ {0} /\ DOMAIN s = 1 .. Len(s) /\ Head(s) = s[1]
      /\ Tail(s) \in Seq(Docs) /\ DOMAIN Tail(s) = 1 .. Len(s) - 1
      /\ \A i \in 1 .. Len(s) - 1 : Tail(s)[i] = s[i + 1]
  OBVIOUS
<1> DEFINE t == Tail(s)
<1> HIDE DEF t
<1>2. /\ t \in Seq(Docs) /\ DOMAIN t = 1 .. Len(s) - 1
      /\ \A i \in 1 .. Len(s) - 1 : t[i] = s[i + 1]
  BY <1>1 DEF t
<1>3. Head(s) \in ToSet(s) /\ ToSet(t) \subseteq ToSet(s)
  BY <1>1, <1>2 DEF ToSet
<1>4. ToSet(s) \subseteq ToSet(t) \cup {Head(s)}
  <2> SUFFICES ASSUME NEW i \in 1 .. Len(s), i # 1 PROVE s[i] \in ToSet(t)
    BY <1>1 DEF ToSet
  <2>1. i - 1 \in 1 .. Len(s) - 1 /\ t[i - 1] = s[i]
    BY <1>1, <1>2
  <2> QED
    BY <1>2, <2>1 DEF ToSet
<1>5. ASSUME IsInjective(s) PROVE IsInjective(t) /\ Head(s) \notin ToSet(t)
  <2>1. \A i, j \in 1 .. Len(s) : s[i] = s[j] => i = j
    BY <1>1, <1>5 DEF IsInjective
  <2>2. IsInjective(t)
    BY <1>1, <1>2, <2>1 DEF IsInjective
  <2>3. \A i \in 1 .. Len(s) - 1 : t[i] # s[1]
    BY <1>1, <1>2, <2>1
  <2> QED
    BY <1>1, <1>2, <2>2, <2>3 DEF ToSet
<1> QED
  BY <1>1, <1>3, <1>4, <1>5 DEF t

\* -closeAllDocuments goes through the documents from the end.
LEMMA ReverseElements ==
    ASSUME NEW s \in Seq(Docs)
    PROVE  /\ Reverse(s) \in Seq(Docs) /\ ToSet(Reverse(s)) = ToSet(s)
           /\ IsInjective(s) => IsInjective(Reverse(s))
<1> DEFINE r == Reverse(s)
<1>1. Len(s) \in Nat /\ DOMAIN s = 1 .. Len(s) /\ \A i \in 1 .. Len(s) : s[i] \in Docs
  OBVIOUS
<1>2. /\ r \in Seq(Docs) /\ DOMAIN r = 1 .. Len(s)
      /\ \A i \in 1 .. Len(s) : r[i] = s[(Len(s) - i) + 1]
  BY <1>1 DEF Reverse
<1> HIDE DEF r
<1>3. ToSet(s) \subseteq ToSet(r)
  <2> SUFFICES ASSUME NEW i \in 1 .. Len(s) PROVE s[i] \in ToSet(r)
    BY <1>1 DEF ToSet
  <2>1. (Len(s) - i) + 1 \in 1 .. Len(s) /\ r[(Len(s) - i) + 1] = s[i]
    BY <1>1, <1>2
  <2> QED
    BY <1>2, <2>1 DEF ToSet
<1>4. ToSet(r) \subseteq ToSet(s)
  BY <1>1, <1>2 DEF ToSet
<1>5. ASSUME IsInjective(s) PROVE IsInjective(r)
  <2>1. \A i, j \in 1 .. Len(s) : s[i] = s[j] => i = j
    BY <1>1, <1>5 DEF IsInjective
  <2> QED
    BY <1>1, <1>2, <2>1 DEF IsInjective
<1> QED
  BY <1>2, <1>3, <1>4, <1>5 DEF r

\* addDocument:
LEMMA AppendElements ==
    ASSUME NEW s \in Seq(Docs), NEW d \in Docs
    PROVE  /\ Append(s, d) \in Seq(Docs) /\ ToSet(Append(s, d)) = ToSet(s) \cup {d}
           /\ IsInjective(s) /\ d \notin ToSet(s) => IsInjective(Append(s, d))
<1> DEFINE a == Append(s, d)
<1>1. /\ Len(s) \in Nat /\ DOMAIN s = 1 .. Len(s)
      /\ a \in Seq(Docs) /\ DOMAIN a = 1 .. Len(s) + 1
      /\ a[Len(s) + 1] = d /\ \A i \in 1 .. Len(s) : a[i] = s[i]
  OBVIOUS
<1> HIDE DEF a
<1>2. ToSet(a) \subseteq ToSet(s) \cup {d}
  BY <1>1 DEF ToSet
<1>3. ToSet(s) \cup {d} \subseteq ToSet(a)
  <2>1. Len(s) + 1 \in DOMAIN a /\ DOMAIN s \subseteq DOMAIN a
    BY <1>1
  <2> QED
    BY <1>1, <2>1 DEF ToSet
<1>4. ASSUME IsInjective(s), d \notin ToSet(s) PROVE IsInjective(a)
  <2>1. \A i, j \in 1 .. Len(s) : s[i] = s[j] => i = j
    BY <1>1, <1>4 DEF IsInjective
  <2>2. \A i \in 1 .. Len(s) : s[i] # d
    BY <1>1, <1>4 DEF ToSet
  <2> QED
    BY <1>1, <2>1, <2>2 DEF IsInjective
<1> QED
  BY <1>1, <1>2, <1>3, <1>4 DEF a

-----------------------------------------------------------------------------
(* The inductive invariant.                                                *)

ListInv == documents \in Seq(Docs) /\ IsInjective(documents)

\* An open document has a number of this launch.
DocInv ==
    /\ doc \in [Docs -> Document]
    /\ \A d \in Open : doc[d].index \in Locations

\* There are numbers left for the documents still to be reopened.
CountInv ==
    /\ untitledCount \in Nat \ {0}
    /\ phase \in {"quit", "crashed"} => untitledCount = 1 /\ documents = <<>>
    /\ phase = "launching" => untitledCount + Cardinality(toReopen) <= MaxIndex + 1

DiskInv ==
    /\ file \in [Locations -> Docs \cup {None}]
    /\ plist \subseteq Locations /\ toReopen \subseteq Locations

\* Work is in one file, which its document knows: a document is reopened once.
FilesInv ==
    /\ \A l, m \in Locations : file[l] = file[m] /\ file[l] # None => l = m
    /\ \A d \in Open : \A l \in Locations : file[l] = d => doc[d].location = l
    /\ phase = "launching" => \A d \in Open : doc[d].location \notin toReopen

\* A loop only holds open documents, each once, and that of a review all of them.
CallInv ==
    /\ call \in Call
    /\ ToSet(call.rest) \subseteq Open /\ IsInjective(call.rest)
    /\ call.quit => call.kind = "closeAll" /\ Open \subseteq ToSet(call.rest)
    /\ phase # "running" => call = Idle

\* Once the review is over, what is still edited may be lost.
AgreedInv ==
    call.kind = "quit" \/ (phase = "terminating" /\ ~deferred) =>
        \A d \in Open : isDocumentEdited(d) => d \in settled

RestInv ==
    /\ phase \in {"launching", "running", "terminating", "quit", "crashed"}
    /\ untouched \in BOOLEAN /\ deferred \in BOOLEAN
    /\ settled \subseteq Docs

StateInv == ListInv /\ DocInv /\ CountInv /\ DiskInv /\ FilesInv
IInv == StateInv /\ CallInv /\ AgreedInv /\ RestInv

LEMMA IInvTypeOK == IInv => TypeOK
BY DEF IInv, StateInv, ListInv, DocInv, CountInv, DiskInv, CallInv, RestInv, TypeOK

LEMMA NoneAssumption == None \notin Docs /\ None \notin Locations
BY DEF Locations

LEMMA OpenType == documents \in Seq(Docs) => Open \subseteq Docs
BY DEF Open, ToSet

LEMMA EmptyList == ToSet(<<>>) = {} /\ <<>> \in Seq(Docs) /\ IsInjective(<<>>)
<1>1. DOMAIN <<>> = {}
  OBVIOUS
<1> QED
  BY <1>1 DEF ToSet, IsInjective

LEMMA BlankType ==
    ASSUME NEW number \in Nat
    PROVE  /\ Blank(number) \in Document /\ Blank(number).index = number
           /\ Blank(number).location = None
           /\ ~Blank(number).changed /\ ~Blank(number).permanent
BY DEF Blank, Document

\* No loop is under way.
LEMMA IdleCall ==
    Idle \in Call /\ Idle.rest = <<>> /\ ~Idle.quit /\ Idle.kind = "none"
BY DEF Idle, Call

\* All that is left to ask is the delegate.
LEMMA QuitCall ==
    ASSUME call' = [Idle EXCEPT !.kind = "quit"]
    PROVE  call' \in Call /\ call'.rest = <<>> /\ ~call'.quit
BY IdleCall DEF Call

LEMMA IdleInv == ASSUME call' = Idle PROVE CallInv'
BY IdleCall, EmptyList DEF CallInv

LEMMA IdleAgreed == ASSUME call' = Idle, phase' # "terminating" PROVE AgreedInv'
BY IdleCall DEF AgreedInv

LEMMA InitInv == Init => IInv
<1> SUFFICES ASSUME Init PROVE IInv
  OBVIOUS
<1>1. Open = {} /\ ListInv
  BY EmptyList DEF Init, Open, ListInv
<1>2. doc \in [Docs -> Document]
  <2>1. Blank(0) \in Document
    BY BlankType
  <2> QED
    BY <2>1 DEF Init
<1>3. DocInv /\ CountInv /\ DiskInv /\ FilesInv
  BY <1>1, <1>2, NoneAssumption DEF Init, DocInv, CountInv, DiskInv, FilesInv
<1>4. CallInv
  BY IdleCall, EmptyList DEF Init, CallInv
<1>5. AgreedInv /\ RestInv
  BY IdleCall DEF Init, AgreedInv, RestInv
<1> QED
  BY <1>1, <1>3, <1>4, <1>5 DEF IInv, StateInv

-----------------------------------------------------------------------------
(* Every action preserves the invariant.                                   *)

LEMMA SameState ==
    ASSUME StateInv, UNCHANGED <<phase, memory, disk, toReopen>>
    PROVE  StateInv'
BY DEF StateInv, ListInv, DocInv, CountInv, DiskInv, FilesInv, memory, disk, Open

\* The loops begin, pass over a document and end; the user and the delegate
\* answer to quitting.
LEMMA AutosavingInv ==
    ASSUME IInv, BeginAutosaving \/ PassOver \/ AutosavingEnds
    PROVE  IInv'
<1> USE DEF IInv
<1>1. StateInv' /\ RestInv' /\ UNCHANGED <<phase, documents>> /\ phase = "running"
  BY SameState DEF BeginAutosaving, PassOver, AutosavingEnds, RestInv, AtRest, Running,
     In, memory, disk
<1>2. CASE BeginAutosaving
  <2>1. call' = [kind |-> "autosave", rest |-> documents, quit |-> FALSE]
    BY <1>2 DEF BeginAutosaving, Idle
  <2>2. call' \in Call /\ call'.rest = documents /\ ~call'.quit /\ call'.kind = "autosave"
    BY <2>1 DEF Call, StateInv, ListInv
  <2>3. CallInv' /\ AgreedInv'
    BY <1>1, <2>2 DEF CallInv, AgreedInv, StateInv, ListInv, Open
  <2> QED
    BY <1>1, <2>3
<1>3. CASE PassOver
  <2>1. call' = Rest /\ call.rest # <<>> /\ call.kind = "autosave" /\ call \in Call
    BY <1>3 DEF PassOver, In, CallInv
  <2>2. call.rest \in Seq(Docs)
    BY <2>1 DEF Call
  <2>3. Tail(call.rest) \in Seq(Docs)
    BY <2>1, <2>2, TailElements
  <2>4. call' \in Call /\ call'.rest = Tail(call.rest) /\ call'.quit = call.quit
        /\ call'.kind = call.kind
    BY <2>1, <2>3 DEF Call, Rest
  <2>5. CallInv' /\ AgreedInv'
    BY <1>1, <2>1, <2>2, <2>4, TailElements DEF CallInv, AgreedInv, Open
  <2> QED
    BY <1>1, <2>5
<1>4. CASE AutosavingEnds
  BY <1>1, <1>4, IdleInv, IdleAgreed DEF AutosavingEnds
<1> QED
  BY <1>2, <1>3, <1>4

LEMMA ClosingInv ==
    ASSUME IInv, \/ \E kind \in CloseAll : BeginCloseAll(kind)
                 \/ Review
                 \/ RefuseNext
                 \/ ClosedAll
    PROVE  IInv'
<1> USE DEF IInv
<1>1. StateInv' /\ RestInv' /\ UNCHANGED <<phase, documents>> /\ phase = "running"
  BY SameState DEF BeginCloseAll, Review, RefuseNext, ClosedAll, Closing, RestInv,
     AtRest, Running, memory, disk
<1>2. ASSUME NEW kind \in CloseAll, NEW quit \in BOOLEAN, quit => kind = "closeAll",
             call' = [kind |-> kind, rest |-> Reverse(documents), quit |-> quit]
      PROVE  CallInv' /\ AgreedInv'
  <2>1. /\ Reverse(documents) \in Seq(Docs) /\ IsInjective(Reverse(documents))
        /\ ToSet(Reverse(documents)) = Open
    BY ReverseElements DEF StateInv, ListInv, Open
  <2>2. /\ call' \in Call /\ call'.rest = Reverse(documents) /\ call'.quit = quit
        /\ call'.kind = kind
    BY <1>2, <2>1 DEF Call, CloseAll
  <2>3. CallInv'
    BY <1>1, <1>2, <2>1, <2>2 DEF CallInv, Open
  <2>4. AgreedInv'
    BY <1>1, <2>2 DEF AgreedInv, CloseAll
  <2> QED
    BY <2>3, <2>4
<1>3. CASE \E kind \in CloseAll : BeginCloseAll(kind)
  BY <1>1, <1>2, <1>3 DEF BeginCloseAll
<1>4. CASE Review
  BY <1>1, <1>2, <1>4 DEF Review, CloseAll
<1>5. CASE RefuseNext
  <2>1. call.rest # <<>> /\ call.kind \in CloseAll /\ call \in Call /\ call.rest \in Seq(Docs)
    BY <1>5 DEF RefuseNext, Closing, CallInv, Call
  <2>2. CASE call.kind = "closeAll"
    BY <1>1, <1>5, <2>2, IdleInv, IdleAgreed DEF RefuseNext, AfterRefusal
  <2>3. CASE call.kind # "closeAll"
    <3>1. call' = [call EXCEPT !.rest = Tail(@)]
      BY <1>5, <2>3 DEF RefuseNext, AfterRefusal, Rest
    <3>2. Tail(call.rest) \in Seq(Docs)
      BY <2>1, TailElements
    <3>3. /\ call' \in Call /\ call'.rest = Tail(call.rest) /\ call'.quit = call.quit
          /\ call'.kind = call.kind
      BY <2>1, <3>1, <3>2 DEF Call
    <3>4. CallInv' /\ AgreedInv'
      BY <1>1, <2>1, <2>3, <3>3, TailElements DEF CallInv, AgreedInv, CloseAll, Open
    <3> QED
      BY <1>1, <3>4
  <2> QED
    BY <2>2, <2>3
<1>6. CASE ClosedAll
  <2>1. call.rest = <<>> /\ (call.quit => Open = {})
    BY <1>6, EmptyList DEF ClosedAll, CallInv
  <2>2. CASE call.quit
    <3>1. call' = [Idle EXCEPT !.kind = "quit"]
      BY <1>6, <2>2 DEF ClosedAll
    <3>2. call' \in Call /\ call'.rest = <<>> /\ ~call'.quit
      BY <3>1, QuitCall
    <3>3. CallInv' /\ AgreedInv'
      BY <1>1, <2>1, <2>2, <3>2, EmptyList DEF CallInv, AgreedInv, Open
    <3> QED
      BY <1>1, <3>3
  <2>3. CASE ~call.quit
    BY <1>1, <1>6, <2>3, IdleInv, IdleAgreed DEF ClosedAll
  <2> QED
    BY <2>2, <2>3
<1> QED
  BY <1>3, <1>4, <1>5, <1>6

LEMMA QuittingInv ==
    ASSUME IInv, QuitAnyway \/ NothingToReview \/ DelegateRefuses \/ DelegateAgrees \/ LateReply
    PROVE  IInv'
<1> USE DEF IInv
<1>1. UNCHANGED <<memory, disk, toReopen>> /\ phase = "running"
      /\ phase' \in {"running", "terminating"}
  BY DEF QuitAnyway, NothingToReview, DelegateRefuses, DelegateAgrees, LateReply,
     AtRest, Running, In
<1>2. StateInv'
  BY <1>1 DEF StateInv, ListInv, DocInv, CountInv, DiskInv, FilesInv, memory, disk, Open
<1>3. RestInv'
  <2>1. settled' \subseteq Docs
    BY OpenType DEF QuitAnyway, NothingToReview, DelegateRefuses, DelegateAgrees, LateReply,
       RestInv, StateInv, ListInv
  <2>2. deferred' \in BOOLEAN
    <3>1. deferred' = deferred \/ deferred' \in {deferred, TRUE} \/ deferred' = FALSE
      BY DEF QuitAnyway, NothingToReview, DelegateRefuses, DelegateAgrees, LateReply
    <3>2. deferred \in BOOLEAN
      BY DEF RestInv
    <3> QED
      BY <3>1, <3>2, Zenon
  <2> QED
    BY <1>1, <2>1, <2>2 DEF RestInv, disk
<1>4. UNCHANGED <<doc, documents>>
  BY <1>1 DEF memory
<1>5. ASSUME call' = [Idle EXCEPT !.kind = "quit"], UNCHANGED phase PROVE CallInv'
  <2>1. call' \in Call /\ call'.rest = <<>> /\ ~call'.quit
    BY <1>5, QuitCall
  <2> QED
    BY <1>1, <1>5, <2>1, EmptyList DEF CallInv
<1>6. CASE QuitAnyway
  BY <1>1, <1>2, <1>3, <1>4, <1>5, <1>6 DEF QuitAnyway, AgreedInv, Open, isDocumentEdited
<1>7. CASE NothingToReview
  BY <1>1, <1>2, <1>3, <1>4, <1>5, <1>7
  DEF NothingToReview, AgreedInv, Open, isDocumentEdited, hasEditedDocuments
<1>8. CASE DelegateRefuses
  BY <1>1, <1>2, <1>3, <1>8, IdleInv, IdleAgreed DEF DelegateRefuses
<1>9. CASE DelegateAgrees
  <2>1. call' = Idle /\ settled' = settled /\ call.kind = "quit"
    BY <1>9 DEF DelegateAgrees, In
  <2>2. CallInv' /\ AgreedInv'
    BY <1>4, <2>1, IdleInv DEF AgreedInv, Open, isDocumentEdited
  <2> QED
    BY <1>2, <1>3, <2>2
<1>10. CASE LateReply
  <2>1. call' = Idle /\ deferred'
    BY <1>10 DEF LateReply, AtRest
  <2>2. CallInv' /\ AgreedInv'
    BY <2>1, IdleInv, IdleCall DEF AgreedInv
  <2> QED
    BY <1>2, <1>3, <2>2
<1> QED
  BY <1>6, <1>7, <1>8, <1>9, <1>10

\* The list on disk is written from the documents' locations.
LEMMA RecordedType ==
    ASSUME NEW docs \in SUBSET Docs, NEW state \in [Docs -> Document], NEW changed \in BOOLEAN,
           Recorded(docs, state, changed), DiskInv, RestInv
    PROVE  plist' \subseteq Locations /\ untouched' \in BOOLEAN
<1>1. \A d \in docs : state[d].location \in Locations \cup {None}
  BY DEF Document
<1>2. CASE changed
  <2>1. plist' = {state[d].location : d \in docs} \ {None} /\ untouched' = FALSE
    BY <1>2 DEF Recorded
  <2>2. untouched' \in BOOLEAN
    BY <2>1, Zenon
  <2> QED
    BY <1>1, <2>1, <2>2
<1>3. CASE ~changed
  BY <1>3 DEF Recorded, DiskInv, RestInv
<1> QED
  BY <1>2, <1>3

\* -_removeAutosavedContentsFile leaves no file with the document's work.
LEMMA RemovedType ==
    ASSUME StateInv, RestInv, NEW d \in Open, NEW docs \in SUBSET Docs,
           AutosavedRemoved(d, docs)
    PROVE  /\ file' \in [Locations -> Docs \cup {None}]
           /\ plist' \subseteq Locations /\ untouched' \in BOOLEAN
           /\ \A l \in Locations : file'[l] # d /\ file'[l] \in {file[l], None}
<1> USE DEF StateInv
<1>1. d \in Docs /\ doc[d] \in Document /\ doc[d].location \in Locations \cup {None}
  BY OpenType DEF ListInv, DocInv, Document
<1> DEFINE location == doc[d].location
           state == [doc EXCEPT ![d].location = None]
           changed == location # None /\ Forgets(d)
<1>2. state \in [Docs -> Document]
  BY <1>1 DEF DocInv, Document
<1>3. Recorded(docs, state, changed)
  BY DEF AutosavedRemoved
<1>4. plist' \subseteq Locations /\ untouched' \in BOOLEAN
  <2>1. changed \in BOOLEAN
    OBVIOUS
  <2> HIDE DEF changed, state
  <2> QED
    BY <1>2, <1>3, <2>1, RecordedType
<1>6. file' = IF location = None THEN file ELSE [file EXCEPT ![location] = None]
  BY DEF AutosavedRemoved
<1>7. \A l \in Locations : file[l] = d => l = location
  BY DEF FilesInv
<1>8. /\ file' \in [Locations -> Docs \cup {None}]
      /\ \A l \in Locations : file'[l] # d /\ file'[l] \in {file[l], None}
  BY <1>1, <1>6, <1>7, NoneAssumption DEF DiskInv
<1> QED
  BY <1>4, <1>8

LEMMA SavedState ==
    ASSUME StateInv, RestInv, NEW d \in Open, Saved(d), UNCHANGED <<phase, toReopen>>
    PROVE  /\ StateInv' /\ untouched' \in BOOLEAN
           /\ Open' = Open
<1> USE DEF StateInv
<1>1. d \in Docs /\ Open \subseteq Docs /\ doc[d] \in Document /\ doc[d].index \in Locations
  BY OpenType DEF ListInv, DocInv
<1>2. AutosavedRemoved(d, Open)
  BY DEF Saved
<1>3. /\ file' \in [Locations -> Docs \cup {None}]
      /\ plist' \subseteq Locations /\ untouched' \in BOOLEAN
      /\ \A l \in Locations : file'[l] # d /\ file'[l] \in {file[l], None}
  BY <1>1, <1>2, RemovedType
<1>4. /\ doc' = [doc EXCEPT ![d] = Blank(doc[d].index)]
      /\ UNCHANGED <<documents, untitledCount>> /\ Open' = Open
  BY DEF Saved, Open
<1>5. /\ Blank(doc[d].index) \in Document /\ Blank(doc[d].index).index = doc[d].index
      /\ Blank(doc[d].index).location = None
  BY <1>1, BlankType DEF Locations
<1>6. ListInv' /\ CountInv' /\ DiskInv'
  BY <1>3, <1>4 DEF ListInv, CountInv, DiskInv
<1>7. DocInv'
  BY <1>1, <1>4, <1>5 DEF DocInv
<1>8. FilesInv'
  <2>1. \A x \in Open : x # d => doc'[x] = doc[x]
    BY <1>4 DEF DocInv
  <2>2. doc'[d].location = None
    BY <1>1, <1>4, <1>5 DEF DocInv
  <2>3. phase = "launching" => None \notin toReopen
    BY NoneAssumption DEF DiskInv
  <2> QED
    BY <1>1, <1>3, <1>4, <2>1, <2>2, <2>3, NoneAssumption DEF FilesInv
<1> QED
  BY <1>3, <1>4, <1>6, <1>7, <1>8

LEMMA ClosedState ==
    ASSUME StateInv, RestInv, NEW d \in Open, Closed(d), UNCHANGED <<phase, toReopen>>,
           phase \in {"running", "terminating"}
    PROVE  /\ StateInv' /\ untouched' \in BOOLEAN
           /\ Open' = Open \ {d} /\ \A x \in Open' : doc'[x] = doc[x]
<1> USE DEF StateInv
<1>1. d \in Docs /\ Open \subseteq Docs /\ Open \ {d} \in SUBSET Docs
  BY OpenType DEF ListInv
<1>2. AutosavedRemoved(d, Open \ {d})
  BY DEF Closed
<1>3. /\ file' \in [Locations -> Docs \cup {None}]
      /\ plist' \subseteq Locations /\ untouched' \in BOOLEAN
      /\ \A l \in Locations : file'[l] # d /\ file'[l] \in {file[l], None}
  BY <1>1, <1>2, RemovedType
<1>4. /\ documents' \in Seq(Docs) /\ IsInjective(documents') /\ Open' = Open \ {d}
  BY WithoutElements DEF Closed, ListInv, Open
<1>5. doc' = [doc EXCEPT ![d] = Blank(0)] /\ untitledCount' = untitledCount
  BY DEF Closed
<1>6. Blank(0) \in Document
  BY BlankType
<1>7. doc' \in [Docs -> Document] /\ \A x \in Open' : doc'[x] = doc[x]
  BY <1>1, <1>4, <1>5, <1>6 DEF DocInv
<1>8. ListInv' /\ CountInv' /\ DiskInv'
  BY <1>3, <1>4, <1>5 DEF ListInv, CountInv, DiskInv
<1>9. DocInv'
  BY <1>4, <1>7 DEF DocInv
<1>10. FilesInv'
  BY <1>1, <1>3, <1>4, <1>7, NoneAssumption DEF FilesInv
<1> QED
  BY <1>3, <1>4, <1>7, <1>8, <1>9, <1>10

\* A document comes into the list, with the next number.
LEMMA AddState ==
    ASSUME StateInv, NEW d \in Docs, d \notin Open, NEW state \in Document,
           untitledCount \in Locations, state.index = untitledCount, Add(d, state)
    PROVE  /\ ListInv' /\ DocInv' /\ untitledCount' = untitledCount + 1
           /\ Open' = Open \cup {d} /\ doc'[d] = state
           /\ \A x \in Open : doc'[x] = doc[x]
<1> USE DEF StateInv
<1>1. ListInv' /\ Open' = Open \cup {d}
  BY AppendElements DEF Add, ListInv, Open
<1>2. doc' = [doc EXCEPT ![d] = state] /\ untitledCount' = untitledCount + 1
  BY DEF Add
<1>3. /\ doc' \in [Docs -> Document] /\ doc'[d] = state
      /\ \A x \in Open : doc'[x] = doc[x]
  BY <1>2, OpenType DEF DocInv, ListInv
<1>4. DocInv'
  BY <1>1, <1>3 DEF DocInv
<1> QED
  BY <1>1, <1>2, <1>3, <1>4

LEMMA NewInv ==
    ASSUME IInv, NEW d \in Docs, newDocument(d)
    PROVE  IInv'
<1> USE DEF IInv
<1>1. /\ untitledCount \in Locations /\ d \notin Open /\ \A l \in Locations : file[l] # d
      /\ Add(d, Blank(untitledCount)) /\ phase = "running" /\ call' = Idle
  BY DEF newDocument, AtRest, Running, Locations, StateInv, CountInv
<1>2. /\ Blank(untitledCount) \in Document /\ Blank(untitledCount).index = untitledCount
      /\ Blank(untitledCount).location = None
  BY <1>1, BlankType DEF Locations
<1>3. /\ ListInv' /\ DocInv' /\ untitledCount' = untitledCount + 1
      /\ Open' = Open \cup {d} /\ doc'[d].location = None
      /\ \A x \in Open : doc'[x] = doc[x]
  BY <1>1, <1>2, AddState
<1>4. UNCHANGED <<phase, file, plist, untouched, toReopen, deferred, settled>>
  BY DEF newDocument, disk
<1>5. CountInv' /\ DiskInv'
  BY <1>1, <1>3, <1>4 DEF CountInv, DiskInv, StateInv, Locations
<1>6. FilesInv'
  BY <1>1, <1>3, <1>4 DEF FilesInv, StateInv
<1>7. RestInv'
  BY <1>4 DEF newDocument, RestInv
<1>8. CallInv' /\ AgreedInv'
  BY <1>1, <1>4, IdleInv, IdleAgreed
<1> QED
  BY <1>3, <1>5, <1>6, <1>7, <1>8 DEF StateInv

\* Editing and undoing only change what the document knows of its contents.
LEMMA EditInv ==
    ASSUME IInv, NEW d \in Docs, Edit(d) \/ UndoAll(d)
    PROVE  IInv'
<1> USE DEF IInv
<1>1. /\ d \in Open /\ phase = "running" /\ call' = Idle
      /\ UNCHANGED <<phase, deferred, documents, untitledCount, disk, toReopen>>
  BY DEF Edit, UndoAll, AtRest, Running
<1>2. PICK changed \in BOOLEAN :
          doc' = [doc EXCEPT ![d].changed = changed, ![d].unautosaved = TRUE]
  BY DEF Edit, UndoAll
<1>3. doc' \in [Docs -> Document]
      /\ \A x \in Docs : doc'[x].location = doc[x].location /\ doc'[x].index = doc[x].index
  BY <1>2 DEF StateInv, DocInv, Document
<1>4. Open' = Open /\ Open \subseteq Docs
  BY <1>1, OpenType DEF Open, StateInv, ListInv
<1>5. StateInv'
  BY <1>1, <1>3, <1>4 DEF StateInv, ListInv, DocInv, CountInv, DiskInv, FilesInv, disk
<1>6. RestInv'
  BY <1>1 DEF Edit, UndoAll, RestInv, disk
<1>7. CallInv' /\ AgreedInv'
  BY <1>1, IdleInv, IdleAgreed
<1> QED
  BY <1>5, <1>6, <1>7

\* Saving and closing one document.
LEMMA SaveInv ==
    ASSUME IInv, NEW d \in Docs, saveDocument(d)
    PROVE  IInv'
<1> USE DEF IInv
<1>1. /\ d \in Open /\ Saved(d) /\ UNCHANGED <<phase, deferred, toReopen>>
      /\ phase = "running" /\ call' = Idle
  BY DEF saveDocument, AtRest, Running
<1>2. StateInv' /\ untouched' \in BOOLEAN
  BY <1>1, SavedState
<1>3. RestInv'
  BY <1>1, <1>2 DEF RestInv, Saved
<1>4. CallInv' /\ AgreedInv'
  BY <1>1, IdleInv, IdleAgreed
<1> QED
  BY <1>2, <1>3, <1>4

LEMMA CloseInv ==
    ASSUME IInv, NEW d \in Docs, closeDocument(d)
    PROVE  IInv'
<1> USE DEF IInv
<1>1. /\ d \in Open /\ Closed(d) /\ UNCHANGED <<phase, deferred, toReopen>>
      /\ phase = "running" /\ call' = Idle /\ settled' = Agreed(d)
  BY DEF closeDocument, AtRest, Running
<1>2. StateInv' /\ untouched' \in BOOLEAN
  BY <1>1, ClosedState
<1>3. RestInv'
  BY <1>1, <1>2 DEF RestInv, Agreed
<1>4. CallInv' /\ AgreedInv'
  BY <1>1, IdleInv, IdleAgreed
<1> QED
  BY <1>2, <1>3, <1>4

\* The next document of -closeAllDocuments is closed, and leaves both lists.
LEMMA CloseNextInv ==
    ASSUME IInv, CloseNext
    PROVE  IInv'
<1> USE DEF IInv
<1>1. /\ Closed(Next1) /\ UNCHANGED <<phase, deferred, toReopen>> /\ call' = Rest
      /\ settled' = Agreed(Next1) /\ phase = "running" /\ call.rest # <<>>
      /\ call.kind \in CloseAll /\ call \in Call /\ call.rest \in Seq(Docs)
  BY DEF CloseNext, Closing, Running, CallInv, Call
<1>2. Next1 \in Open /\ Next1 \in Docs
  BY <1>1, TailElements, OpenType DEF Next1, CallInv, StateInv, ListInv
<1>3. /\ StateInv' /\ untouched' \in BOOLEAN
      /\ Open' = Open \ {Next1}
  BY <1>1, <1>2, ClosedState
<1>4. RestInv'
  BY <1>1, <1>2, <1>3 DEF RestInv, Agreed
<1>5. Tail(call.rest) \in Seq(Docs)
  BY <1>1, TailElements
<1>6. /\ call' \in Call /\ call'.rest = Tail(call.rest) /\ call'.quit = call.quit
      /\ call'.kind = call.kind
  BY <1>1, <1>5 DEF Call, Rest
<1>7. CallInv'
  BY <1>1, <1>3, <1>6, TailElements DEF CallInv, Next1
<1>8. AgreedInv'
  BY <1>1, <1>6 DEF AgreedInv, CloseAll
<1> QED
  BY <1>3, <1>4, <1>7, <1>8

\* Quitting closes the documents with their windows.
LEMMA CloseWindowsInv ==
    ASSUME IInv, NEW d \in Docs, CloseWindows(d)
    PROVE  IInv'
<1> USE DEF IInv
<1>1. /\ d \in Open /\ Closed(d) /\ UNCHANGED <<phase, deferred, toReopen, call, settled>>
      /\ phase = "terminating"
  BY DEF CloseWindows
<1>2. /\ StateInv' /\ untouched' \in BOOLEAN
      /\ Open' = Open \ {d} /\ \A x \in Open' : doc'[x] = doc[x]
  BY <1>1, ClosedState
<1>3. RestInv'
  BY <1>1, <1>2 DEF RestInv
<1>4. CallInv'
  BY <1>1, IdleInv DEF CallInv
<1>5. AgreedInv'
  BY <1>1, <1>2 DEF AgreedInv, isDocumentEdited
<1> QED
  BY <1>2, <1>3, <1>4, <1>5

\* The timer autosaves the next document to its own file.
LEMMA AutosaveInv ==
    ASSUME IInv, Autosave
    PROVE  IInv'
<1> USE DEF IInv
<1> DEFINE d == Next1
           location == LocationOf(d)
           state == [doc EXCEPT ![d].unautosaved = FALSE, ![d].location = location]
<1>1. /\ phase = "running" /\ call.kind = "autosave" /\ call.rest # <<>>
      /\ call' = Rest /\ call \in Call /\ call.rest \in Seq(Docs)
      /\ UNCHANGED <<phase, deferred, documents, untitledCount, toReopen, settled>>
  BY DEF Autosave, In, Running, CallInv, Call
<1>2. d \in Open /\ d \in Docs /\ Open \subseteq Docs
  BY <1>1, TailElements, OpenType DEF Next1, CallInv, StateInv, ListInv
<1>3. location \in Locations
  BY <1>2 DEF LocationOf, StateInv, DocInv, Document
<1>4. file' = [file EXCEPT ![location] = d] /\ doc' = state /\ Recorded(Open, state, TRUE)
  BY DEF Autosave
<1> HIDE DEF d, location
<1>6. /\ state \in [Docs -> Document] /\ state[d].location = location
      /\ state[d].index = doc[d].index
      /\ \A x \in Docs \ {d} : state[x] = doc[x]
  BY <1>2, <1>3 DEF StateInv, DocInv, Document
<1> HIDE DEF state
<1>7. plist' \subseteq Locations /\ untouched' \in BOOLEAN
  <2>1. Open \in SUBSET Docs /\ TRUE \in BOOLEAN
    BY <1>2
  <2> QED
    BY <1>4, <1>6, <2>1, RecordedType DEF StateInv
<1>8. Open' = Open
  BY <1>1 DEF Open
<1>9. ListInv' /\ CountInv' /\ DiskInv'
  BY <1>1, <1>2, <1>3, <1>4, <1>7 DEF StateInv, ListInv, CountInv, DiskInv
<1>10. DocInv'
  BY <1>2, <1>4, <1>6, <1>8 DEF StateInv, DocInv
<1>11. FilesInv'
  <2>1. \A l \in Locations : file[l] = d => l = location
    BY <1>2, NoneAssumption DEF StateInv, FilesInv, LocationOf, location
  <2>2. \A l \in Locations : file'[l] = IF l = location THEN d ELSE file[l]
    BY <1>3, <1>4 DEF StateInv, DiskInv
  <2>3. \A l, m \in Locations : file'[l] = file'[m] /\ file'[l] # None => l = m
    BY <2>1, <2>2 DEF StateInv, FilesInv
  <2>4. \A x \in Open : \A l \in Locations : file'[l] = x => doc'[x].location = l
    BY <1>2, <1>4, <1>6, <2>1, <2>2 DEF StateInv, FilesInv
  <2> QED
    BY <1>1, <1>8, <2>3, <2>4 DEF FilesInv
<1>12. RestInv'
  BY <1>1, <1>2, <1>7 DEF RestInv
<1>13. Tail(call.rest) \in Seq(Docs)
  BY <1>1, TailElements
<1>14. /\ call' \in Call /\ call'.rest = Tail(call.rest) /\ call'.quit = call.quit
       /\ call'.kind = call.kind
  BY <1>1, <1>13 DEF Call, Rest
<1>15. CallInv' /\ AgreedInv'
  BY <1>1, <1>8, <1>14, TailElements DEF CallInv, AgreedInv
<1> QED
  BY <1>9, <1>10, <1>11, <1>12, <1>15 DEF StateInv

\* A program that is gone has no documents; the numbers begin again.
LEMMA GoneState ==
    ASSUME StateInv, Gone, UNCHANGED <<file, plist>>, toReopen' \in {toReopen, {}},
           phase' \in {"quit", "crashed"}
    PROVE  StateInv' /\ Open' = {}
<1> USE DEF StateInv
<1>1. documents' = <<>> /\ Open' = {} /\ ListInv'
  BY EmptyList DEF Gone, Open, ListInv
<1>2. Blank(0) \in Document
  BY BlankType
<1>3. DocInv' /\ CountInv'
  BY <1>1, <1>2 DEF Gone, DocInv, CountInv
<1>4. DiskInv' /\ FilesInv'
  BY <1>1 DEF DiskInv, FilesInv
<1> QED
  BY <1>1, <1>3, <1>4

LEMMA QuitInv ==
    ASSUME IInv, Quit \/ Crash
    PROVE  IInv'
<1> USE DEF IInv
<1>1. /\ Gone /\ UNCHANGED <<file, plist, untouched, settled>> /\ call' = Idle
      /\ toReopen' \in {toReopen, {}} /\ phase' \in {"quit", "crashed"}
  BY DEF Quit, Crash, disk, CallInv
<1>2. StateInv'
  BY <1>1, GoneState
<1>3. CallInv' /\ AgreedInv'
  BY <1>1, IdleInv, IdleAgreed
<1>4. RestInv'
  <2>1. deferred' = FALSE
    BY <1>1 DEF Gone
  <2>2. deferred' \in BOOLEAN
    BY <2>1, Zenon
  <2> QED
    BY <1>1, <2>2 DEF RestInv
<1> QED
  BY <1>2, <1>3, <1>4

\* There are as many numbers as there can be entries in the list.
LEMMA LaunchInv ==
    ASSUME IInv, Launch
    PROVE  IInv'
<1> USE DEF IInv
<1>1. /\ phase \in {"quit", "crashed"} /\ phase' = "launching" /\ toReopen' = plist
      /\ UNCHANGED <<memory, file, plist, call, settled, deferred>>
      /\ untouched' = TRUE /\ call' = Idle
  BY DEF Launch, CallInv
<1>2. untitledCount = 1 /\ documents = <<>> /\ Open = {}
  BY <1>1, EmptyList DEF StateInv, CountInv, Open
<1>3. IsFiniteSet(plist) /\ Cardinality(plist) \in Nat /\ Cardinality(plist) <= MaxIndex
  <2>1. IsFiniteSet(1 .. MaxIndex) /\ Cardinality(1 .. MaxIndex) <= MaxIndex
    <3>1. 1 \in Int /\ MaxIndex \in Int
      OBVIOUS
    <3> QED
      BY <3>1, FS_Interval
  <2>2. IsFiniteSet(plist) /\ Cardinality(plist) <= Cardinality(1 .. MaxIndex)
    BY <2>1, FS_Subset DEF StateInv, DiskInv, Locations
  <2> QED
    BY <2>1, <2>2, FS_CardinalityType
<1>4. UNCHANGED <<documents, doc, untitledCount>>
  BY <1>1 DEF memory
<1>5. StateInv'
  BY <1>1, <1>2, <1>3, <1>4 DEF StateInv, ListInv, DocInv, CountInv, DiskInv, FilesInv, Open
<1>6. CallInv' /\ AgreedInv'
  BY <1>1, IdleInv, IdleAgreed
<1>7. RestInv'
  BY <1>1 DEF RestInv
<1> QED
  BY <1>5, <1>6, <1>7

\* Each entry is reopened, or not, with a number of its own.
LEMMA ReopenInv ==
    ASSUME IInv, NEW l \in Locations, Reopen(l) \/ ReopenFails(l) \/ FileMissing(l)
    PROVE  IInv'
<1> USE DEF IInv
<1>1. /\ phase = "launching" /\ l \in toReopen /\ toReopen' = toReopen \ {l}
      /\ UNCHANGED <<phase, deferred, file, call>> /\ call' = Idle
  BY DEF Reopen, ReopenFails, FileMissing, disk, CallInv
<1>2. /\ Cardinality(toReopen') = Cardinality(toReopen) - 1
      /\ Cardinality(toReopen) \in Nat \ {0}
  <2>1. IsFiniteSet(toReopen)
    <3>1. IsFiniteSet(1 .. MaxIndex)
      <4>1. 1 \in Int /\ MaxIndex \in Int
        OBVIOUS
      <4> QED
        BY <4>1, FS_Interval
    <3> QED
      BY <3>1, FS_Subset DEF StateInv, DiskInv, Locations
  <2>2. /\ IsFiniteSet(toReopen') /\ Cardinality(toReopen') = Cardinality(toReopen) - 1
    BY <1>1, <2>1, FS_RemoveElement
  <2> QED
    BY <2>1, <2>2, FS_CardinalityType
<1>3. untitledCount \in Locations /\ untitledCount + 1 + Cardinality(toReopen') <= MaxIndex + 1
  BY <1>1, <1>2 DEF StateInv, CountInv, Locations
<1>4. CallInv' /\ AgreedInv'
  BY <1>1, IdleInv, IdleAgreed
<1>5. CASE Reopen(l)
  <2> DEFINE d == file[l]
             state == [doc EXCEPT ![d] = ReopenedAs(l)]
  <2>1. /\ d \in Docs /\ Add(d, ReopenedAs(l)) /\ Recorded(Open \cup {d}, state, TRUE)
        /\ settled' = settled \ {d}
    BY <1>5 DEF Reopen, StateInv, DiskInv
  <2>2. d \notin Open
    BY <1>1 DEF StateInv, FilesInv
  <2>3. /\ ReopenedAs(l) \in Document /\ ReopenedAs(l).index = untitledCount
        /\ ReopenedAs(l).location = l
    <3>1. untitledCount \in Nat
      BY <1>3 DEF Locations
    <3>2. Blank(untitledCount) \in Document /\ Blank(untitledCount).index = untitledCount
      BY <3>1, BlankType
    <3> QED
      BY <3>2 DEF ReopenedAs, Document
  <2> HIDE DEF d
  <2>4. /\ ListInv' /\ DocInv' /\ untitledCount' = untitledCount + 1
        /\ Open' = Open \cup {d} /\ doc'[d] = ReopenedAs(l)
        /\ \A x \in Open : doc'[x] = doc[x]
    BY <1>3, <2>1, <2>2, <2>3, AddState
  <2>5. state \in [Docs -> Document]
    BY <2>1, <2>3 DEF StateInv, DocInv
  <2>6. plist' \subseteq Locations /\ untouched' \in BOOLEAN
    <3> HIDE DEF state
    <3>1. Open \cup {d} \in SUBSET Docs /\ TRUE \in BOOLEAN
      BY <2>1, OpenType DEF StateInv, ListInv
    <3> QED
      BY <2>1, <2>5, <3>1, RecordedType DEF StateInv
  <2>7. CountInv' /\ DiskInv'
    BY <1>1, <1>3, <2>4, <2>6 DEF CountInv, DiskInv, StateInv, Locations
  <2>8. FilesInv'
    <3>1. \A m \in Locations : file[m] = d => m = l
      BY <2>1, NoneAssumption DEF StateInv, FilesInv, d
    <3> QED
      BY <1>1, <2>3, <2>4, <3>1 DEF StateInv, FilesInv
  <2>9. RestInv'
    BY <1>1, <2>1, <2>6 DEF RestInv
  <2> QED
    BY <1>4, <2>4, <2>7, <2>8, <2>9 DEF StateInv
<1>6. CASE ReopenFails(l) \/ FileMissing(l)
  <2>1. /\ UNCHANGED <<documents, doc, plist, untouched, settled>>
        /\ untitledCount' \in {untitledCount, untitledCount + 1}
    BY <1>6 DEF ReopenFails, FileMissing, memory, disk
  <2>2. StateInv'
    BY <1>1, <1>2, <1>3, <2>1
    DEF StateInv, ListInv, DocInv, CountInv, DiskInv, FilesInv, Open, Locations
  <2>3. RestInv'
    BY <1>1, <2>1 DEF RestInv
  <2> QED
    BY <1>4, <2>2, <2>3
<1> QED
  BY <1>5, <1>6

LEMMA LaunchedInv ==
    ASSUME IInv, Launched
    PROVE  IInv'
<1> USE DEF IInv
<1>1. /\ phase = "launching" /\ phase' = "running" /\ call' = Idle
      /\ UNCHANGED <<memory, disk, toReopen, call, deferred, settled>>
  BY DEF Launched, CallInv
<1>2. StateInv'
  BY <1>1 DEF StateInv, ListInv, DocInv, CountInv, DiskInv, FilesInv, memory, disk, Open
<1>3. CallInv' /\ AgreedInv'
  BY <1>1, IdleInv, IdleAgreed
<1>4. RestInv'
  BY <1>1 DEF RestInv, disk
<1> QED
  BY <1>2, <1>3, <1>4

LEMMA NextInv ==
    ASSUME IInv, [Next]_vars
    PROVE  IInv'
<1>1. CASE \E d \in Docs : DocumentCall(d)
  BY <1>1, NewInv, EditInv, SaveInv, CloseInv DEF DocumentCall
<1>2. CASE BeginAutosaving \/ Autosave \/ PassOver \/ AutosavingEnds
  BY <1>2, AutosavingInv, AutosaveInv
<1>3. CASE (\E kind \in CloseAll : BeginCloseAll(kind)) \/ Review \/ RefuseNext \/ ClosedAll
  BY <1>3, ClosingInv
<1>4. CASE CloseNext
  BY <1>4, CloseNextInv
<1>5. CASE QuitAnyway \/ NothingToReview \/ DelegateRefuses \/ DelegateAgrees \/ LateReply
  BY <1>5, QuittingInv
<1>6. CASE \E d \in Docs : CloseWindows(d)
  BY <1>6, CloseWindowsInv
<1>7. CASE Quit \/ Crash
  BY <1>7, QuitInv
<1>8. CASE Launch \/ Launched
  BY <1>8, LaunchInv, LaunchedInv
<1>9. CASE \E l \in Locations : Reopen(l) \/ ReopenFails(l) \/ FileMissing(l)
  BY <1>9, ReopenInv
<1>10. CASE UNCHANGED vars
  <2>1. UNCHANGED <<phase, memory, disk, toReopen, call, deferred, settled>>
    BY <1>10 DEF vars
  <2>2. StateInv'
    BY <2>1, SameState DEF IInv
  <2>3. CallInv' /\ AgreedInv' /\ RestInv'
    BY <2>1 DEF IInv, CallInv, AgreedInv, RestInv, Open, isDocumentEdited, memory, disk
  <2> QED
    BY <2>2, <2>3 DEF IInv
<1> QED
  BY <1>1, <1>2, <1>3, <1>4, <1>5, <1>6, <1>7, <1>8, <1>9, <1>10 DEF Next

LEMMA SpecInv == Spec => []IInv
BY InitInv, NextInv, PTL DEF Spec

\* The controller's state keeps its types through closing, quitting, crashes and
\* recovery: a piece of work is never open twice, and the loops over the
\* documents never meet one that is closed.
THEOREM DocumentsTypeOK == Spec => []TypeOK
BY SpecInv, IInvTypeOK, PTL

-----------------------------------------------------------------------------
(* No edited document is closed without the user's agreement.              *)

Kept ==
    \A d \in Open :
        isDocumentEdited(d) /\ d \notin Open' =>
            \/ phase' = "crashed" \/ d \in settled'
            \/ phase = "terminating" /\ deferred

\* Only the document that is closed leaves the list.
LEMMA ClosedLeaves ==
    ASSUME IInv, NEW d \in Open, Closed(d)
    PROVE  \A x \in Open : x \notin Open' => x = d
<1>1. documents \in Seq(Docs) /\ documents' = Without(documents, d) /\ d \in ToSet(documents)
  BY DEF IInv, StateInv, ListInv, Closed, Open
<1> QED
  BY <1>1, WithoutElements DEF Open

LEMMA KeptStep ==
    ASSUME IInv, [Next]_vars
    PROVE  Kept
<1> USE DEF IInv
<1>1. ASSUME UNCHANGED documents PROVE Kept
  BY <1>1 DEF Kept, Open
<1>2. ASSUME NEW d \in Docs, newDocument(d) PROVE Kept
  <2>1. documents' = Append(documents, d) /\ documents \in Seq(Docs)
    BY <1>2 DEF newDocument, Add, StateInv, ListInv
  <2> QED
    BY <2>1, AppendElements DEF Kept, Open
<1>3. ASSUME NEW l \in Locations, Reopen(l) PROVE Kept
  <2>1. /\ documents' = Append(documents, file[l]) /\ documents \in Seq(Docs)
        /\ file[l] \in Docs
    BY <1>3 DEF Reopen, Add, StateInv, ListInv, DiskInv
  <2> QED
    BY <2>1, AppendElements DEF Kept, Open
<1>4. ASSUME NEW d \in Open, Closed(d), settled' = Agreed(d) PROVE Kept
  BY <1>4, ClosedLeaves DEF Kept, Agreed
<1>5. CASE CloseNext
  <2>1. Closed(Next1) /\ settled' = Agreed(Next1) /\ call.rest # <<>> /\ call.rest \in Seq(Docs)
    BY <1>5 DEF CloseNext, Closing, CallInv, Call
  <2>2. Next1 \in Open
    BY <2>1, TailElements DEF Next1, CallInv
  <2> QED
    BY <1>4, <2>1, <2>2
<1>6. ASSUME NEW d \in Docs, CloseWindows(d) PROVE Kept
  <2>1. d \in Open /\ Closed(d) /\ phase = "terminating" /\ settled' = settled
    BY <1>6 DEF CloseWindows
  <2>2. deferred \/ (isDocumentEdited(d) => d \in settled')
    BY <2>1 DEF AgreedInv
  <2> QED
    BY <2>1, <2>2, ClosedLeaves DEF Kept
<1>7. ASSUME documents = <<>> \/ phase' = "crashed" PROVE Kept
  BY <1>7, EmptyList DEF Kept, Open
<1>8. CASE \E d \in Docs : DocumentCall(d)
  BY <1>1, <1>2, <1>4, <1>8 DEF DocumentCall, Edit, UndoAll, saveDocument, Saved, closeDocument
<1>9. CASE \E l \in Locations : Reopen(l) \/ ReopenFails(l) \/ FileMissing(l)
  BY <1>1, <1>3, <1>9 DEF ReopenFails, FileMissing, memory
<1>10. CASE BeginAutosaving \/ Autosave \/ PassOver \/ AutosavingEnds
  BY <1>1, <1>10 DEF BeginAutosaving, Autosave, PassOver, AutosavingEnds, memory
<1>11. CASE (\E kind \in CloseAll : BeginCloseAll(kind)) \/ Review \/ RefuseNext \/ ClosedAll
  BY <1>1, <1>11 DEF BeginCloseAll, Review, RefuseNext, ClosedAll, memory
<1>12. CASE QuitAnyway \/ NothingToReview \/ DelegateRefuses \/ DelegateAgrees \/ LateReply
  BY <1>1, <1>12 DEF QuitAnyway, NothingToReview, DelegateRefuses, DelegateAgrees,
     LateReply, memory
<1>13. CASE Quit \/ Crash
  BY <1>7, <1>13 DEF Quit, Crash
<1>14. CASE Launch \/ Launched \/ UNCHANGED vars
  BY <1>1, <1>14 DEF Launch, Launched, vars, memory
<1>15. CASE \E d \in Docs : CloseWindows(d)
  BY <1>6, <1>15
<1> QED
  BY <1>5, <1>8, <1>9, <1>10, <1>11, <1>12, <1>13, <1>14, <1>15 DEF Next

\* Whatever number of documents is open, and in whatever order they are closed,
\* reviewed, refused and reopened: -terminate: and the closing methods lose no
\* edited document that the user has not saved or given up.
THEOREM UnsavedWorkIsKept == Spec => UnsavedWorkKept
<1>1. IInv /\ [Next]_vars => [Kept]_vars
  BY KeptStep
<1>2. Spec => [][Kept]_vars
  BY <1>1, SpecInv, PTL DEF Spec
<1> QED
  BY <1>2 DEF UnsavedWorkKept, Kept
-----------------------------------------------------------------------------
(* The list on disk, the files and the documents agree.                    *)

Live == phase \in {"launching", "running", "terminating"}

\* A list that was written in this launch is the one in memory, and the files
\* in it are those of open documents; before, no document had a file.
ListedInv ==
    Live =>
        /\ untouched => \A d \in Open : doc[d].location = None
        /\ ~untouched => plist = {doc[d].location : d \in Open} \ {None}
        /\ \A d \in Open :
             doc[d].location # None => file[doc[d].location] \in Open \cup {None}

\* No two documents of one launch have the same number.
NumbersInv ==
    /\ \A d, e \in Open : doc[d].index = doc[e].index => d = e
    /\ \A d \in Open : doc[d].index < untitledCount

PendingInv ==
    /\ phase # "launching" => toReopen = {}
    /\ phase = "launching" /\ untouched => toReopen \subseteq plist

RecoveryInv == ListedInv /\ NumbersInv /\ PendingInv

LEMMA InitRecovery == Init => RecoveryInv
<1> SUFFICES ASSUME Init PROVE RecoveryInv
  OBVIOUS
<1>1. Open = {}
  BY EmptyList DEF Init, Open
<1> QED
  BY <1>1 DEF Init, RecoveryInv, ListedInv, NumbersInv, PendingInv

\* Steps of loops and answers of the user that leave the documents' files alone.
LEMMA FilesSame ==
    ASSUME IInv, RecoveryInv,
           UNCHANGED <<documents, untitledCount, file, plist, untouched, toReopen>>,
           phase' = phase \/ (phase = "running" /\ phase' = "terminating"),
           \A d \in Open : doc'[d].location = doc[d].location /\ doc'[d].index = doc[d].index
    PROVE  RecoveryInv'
<1> USE DEF RecoveryInv
<1>1. Open' = Open
  BY DEF Open
<1>2. ListedInv'
  <2>1. {doc'[d].location : d \in Open} = {doc[d].location : d \in Open}
    OBVIOUS
  <2> QED
    BY <1>1, <2>1 DEF ListedInv, Live
<1>3. NumbersInv' /\ PendingInv'
  BY <1>1 DEF NumbersInv, PendingInv
<1> QED
  BY <1>2, <1>3

\* A document is saved, or closed, and its autosaved contents are removed.
LEMMA RemovedRecovery ==
    ASSUME IInv, RecoveryInv, phase \in {"running", "terminating"}, NEW d \in Open,
           NEW docs, docs \in {Open, Open \ {d}}, AutosavedRemoved(d, docs), Open' = docs,
           UNCHANGED <<phase, toReopen, untitledCount>>,
           \A x \in docs : x # d => doc'[x] = doc[x],
           d \in docs => doc'[d].location = None /\ doc'[d].index = doc[d].index
    PROVE  RecoveryInv'
<1> USE DEF IInv, StateInv, RecoveryInv
<1> DEFINE state == [doc EXCEPT ![d].location = None]
<1>0. PICK location : location = doc[d].location
  OBVIOUS
<1>1. /\ Open \subseteq Docs /\ d \in Docs /\ doc \in [Docs -> Document]
      /\ location \in Locations \cup {None} /\ None \notin Docs /\ None \notin Locations
  BY <1>0, OpenType, NoneAssumption DEF ListInv, DocInv, Document
<1>2. /\ \A x \in docs : doc'[x].location = state[x].location
      /\ \A x \in docs : x # d => state[x].location = doc[x].location
      /\ state[d].location = None
  BY <1>1 DEF Document
<1>3. /\ Recorded(docs, state, location # None)
      /\ location = None => file' = file
      /\ location # None => file' = [file EXCEPT ![location] = None]
  BY <1>0 DEF AutosavedRemoved, Forgets
<1> HIDE DEF state
<1>4. {state[x].location : x \in docs} = {doc'[x].location : x \in docs}
  BY <1>2
<1>5. \A l \in Locations : file'[l] = IF l = location THEN None ELSE file[l]
  BY <1>1, <1>3 DEF DiskInv
<1>6. \A l \in Locations : file[l] = d => l = location
  BY <1>0 DEF FilesInv
<1>7. ASSUME NEW x \in docs, doc'[x].location # None
      PROVE  /\ x # d /\ x \in Open /\ doc'[x] = doc[x] /\ doc[x].location \in Locations
             /\ file'[doc[x].location] \in docs \cup {None}
  <2>1. x # d /\ x \in Open /\ doc'[x] = doc[x] /\ doc[x].location \in Locations
    BY <1>1, <1>7 DEF Document
  <2>2. file[doc[x].location] \in Open \cup {None}
    BY <1>7, <2>1 DEF ListedInv, Live
  <2> QED
    BY <1>5, <1>6, <2>1, <2>2
<1>8. ListedInv'
  <2>1. CASE location # None
    <3>1. plist' = {state[x].location : x \in docs} \ {None} /\ untouched' = FALSE
      BY <1>3, <2>1 DEF Recorded
    <3> QED
      BY <1>4, <1>7, <3>1 DEF ListedInv
  <2>2. CASE location = None
    <3>1. UNCHANGED <<plist, untouched>>
      BY <1>3, <2>2 DEF Recorded
    <3>2. {doc'[x].location : x \in docs} \ {None} = {doc[x].location : x \in Open} \ {None}
      <4>1. \A x \in docs : doc'[x].location = doc[x].location /\ x \in Open
        BY <1>0, <2>2
      <4>2. \A x \in Open : doc[x].location # None => x \in docs
        BY <1>0, <2>2
      <4> QED
        BY <4>1, <4>2
    <3>3. untouched => \A x \in docs : doc'[x].location = None
      BY <1>7 DEF ListedInv, Live
    <3>4. ~untouched => plist = {doc[x].location : x \in Open} \ {None}
      BY DEF ListedInv, Live
    <3> QED
      BY <1>7, <3>1, <3>2, <3>3, <3>4 DEF ListedInv
  <2> QED
    BY <2>1, <2>2
<1>9. \A x \in docs : x \in Open /\ doc'[x].index = doc[x].index
  OBVIOUS
<1>10. NumbersInv' /\ PendingInv'
  BY <1>9 DEF NumbersInv, PendingInv
<1> QED
  BY <1>8, <1>10

LEMMA SavedRecovery ==
    ASSUME IInv, RecoveryInv, phase \in {"running", "terminating"}, NEW d \in Open,
           Saved(d), UNCHANGED <<phase, toReopen>>
    PROVE  RecoveryInv'
<1>1. /\ d \in Docs /\ doc \in [Docs -> Document] /\ Open \subseteq Docs
      /\ doc[d].index \in Nat
  BY OpenType DEF IInv, StateInv, ListInv, DocInv, Document
<1>2. /\ AutosavedRemoved(d, Open) /\ doc' = [doc EXCEPT ![d] = Blank(doc[d].index)]
      /\ Open' = Open /\ untitledCount' = untitledCount
  BY DEF Saved, Open
<1>3. doc'[d] = Blank(doc[d].index) /\ \A x \in Open : x # d => doc'[x] = doc[x]
  BY <1>1, <1>2
<1>4. doc'[d].location = None /\ doc'[d].index = doc[d].index
  BY <1>1, <1>3, BlankType
<1> QED
  BY <1>2, <1>3, <1>4, RemovedRecovery

LEMMA ClosedRecovery ==
    ASSUME IInv, RecoveryInv, phase \in {"running", "terminating"}, NEW d \in Open,
           Closed(d), UNCHANGED <<phase, toReopen>>
    PROVE  RecoveryInv'
<1>1. Open' = Open \ {d} /\ \A x \in Open' : doc'[x] = doc[x]
  BY ClosedState DEF IInv
<1>2. AutosavedRemoved(d, Open \ {d}) /\ untitledCount' = untitledCount
  BY DEF Closed
<1> QED
  BY <1>1, <1>2, RemovedRecovery

LEMMA NewRecovery ==
    ASSUME IInv, RecoveryInv, NEW d \in Docs, newDocument(d)
    PROVE  RecoveryInv'
<1> USE DEF IInv, StateInv, RecoveryInv
<1>1. /\ untitledCount \in Locations /\ untitledCount \in Nat /\ d \notin Open
      /\ Add(d, Blank(untitledCount)) /\ phase = "running" /\ phase' = phase
      /\ UNCHANGED <<file, plist, untouched, toReopen>>
  BY DEF newDocument, AtRest, Running, Locations, CountInv, disk
<1>2. /\ Blank(untitledCount) \in Document /\ Blank(untitledCount).index = untitledCount
      /\ Blank(untitledCount).location = None
  BY <1>1, BlankType
<1>3. /\ untitledCount' = untitledCount + 1 /\ Open' = Open \cup {d}
      /\ doc'[d].location = None /\ doc'[d].index = untitledCount
      /\ \A x \in Open : doc'[x] = doc[x]
  BY <1>1, <1>2, AddState
<1>4. {doc'[x].location : x \in Open'} \ {None} = {doc[x].location : x \in Open} \ {None}
  BY <1>3
<1>5. ListedInv'
  <2>1. untouched => \A x \in Open' : doc'[x].location = None
    BY <1>1, <1>3 DEF ListedInv, Live
  <2>2. ~untouched => plist = {doc[x].location : x \in Open} \ {None}
    BY <1>1 DEF ListedInv, Live
  <2>3. \A x \in Open' : doc'[x].location # None =>
           file[doc'[x].location] \in Open' \cup {None}
    BY <1>1, <1>3 DEF ListedInv, Live
  <2> QED
    BY <1>1, <1>4, <2>1, <2>2, <2>3 DEF ListedInv
<1>6. NumbersInv'
  <2>1. \A x \in Open : doc[x].index \in Nat
    BY DEF DocInv, Locations
  <2> QED
    BY <1>1, <1>3, <2>1 DEF NumbersInv
<1>7. PendingInv'
  BY <1>1, <1>3 DEF PendingInv
<1> QED
  BY <1>5, <1>6, <1>7

\* A document that is autosaved is in the list from then on.
LEMMA AutosaveRecovery ==
    ASSUME IInv, RecoveryInv, Autosave
    PROVE  RecoveryInv'
<1> USE DEF IInv, StateInv, RecoveryInv
<1>0. PICK d, location : d = Next1 /\ location = LocationOf(Next1)
  OBVIOUS
<1> DEFINE state == [doc EXCEPT ![d].unautosaved = FALSE, ![d].location = location]
<1>1. /\ phase = "running" /\ phase' = phase /\ call.rest # <<>> /\ call.rest \in Seq(Docs)
      /\ UNCHANGED <<documents, untitledCount, toReopen>>
  BY DEF Autosave, In, Running, CallInv, Call
<1>2. d \in Open /\ d \in Docs /\ Open \subseteq Docs /\ None \notin Docs /\ Open' = Open
  BY <1>0, <1>1, TailElements, OpenType, NoneAssumption DEF Next1, CallInv, ListInv, Open
<1>3. /\ location \in Locations /\ location # None
      /\ doc[d].location \in {None, location}
      /\ doc[d].location = None => location = doc[d].index
  BY <1>0, <1>2, NoneAssumption DEF LocationOf, DocInv, Document
<1>4. /\ file' = [file EXCEPT ![location] = d] /\ doc' = state
      /\ Recorded(Open, state, TRUE)
  BY <1>0 DEF Autosave
<1>5. /\ state[d].location = location /\ state[d].index = doc[d].index
      /\ \A x \in Docs : x # d => state[x] = doc[x]
  BY <1>2 DEF DocInv, Document
<1> HIDE DEF state
<1>6. \A l \in Locations : file'[l] = IF l = location THEN d ELSE file[l]
  BY <1>3, <1>4 DEF DiskInv
<1>7. ListedInv'
  <2>1. untouched' = FALSE /\ plist' = {doc'[x].location : x \in Open} \ {None}
    BY <1>4 DEF Recorded
  <2>2. ASSUME NEW x \in Open, doc'[x].location # None
        PROVE  file'[doc'[x].location] \in Open \cup {None}
    <3>1. CASE x = d
      BY <1>2, <1>3, <1>4, <1>5, <1>6, <3>1
    <3>2. CASE x # d
      <4>1. doc'[x] = doc[x] /\ doc[x].location \in Locations
        BY <1>2, <1>4, <1>5, <2>2, <3>2 DEF DocInv, Document
      <4> QED
        BY <1>1, <1>2, <1>6, <2>2, <4>1 DEF ListedInv, Live
    <3> QED
      BY <3>1, <3>2
  <2> QED
    BY <1>2, <2>1, <2>2 DEF ListedInv
<1>8. NumbersInv' /\ PendingInv'
  <2>1. \A x \in Open : doc'[x].index = doc[x].index
    BY <1>2, <1>4, <1>5
  <2> QED
    BY <1>1, <1>2, <2>1 DEF NumbersInv, PendingInv
<1> QED
  BY <1>7, <1>8

\* A program that is gone has no documents and nothing to reopen.
LEMMA GoneRecovery ==
    ASSUME IInv, RecoveryInv, Quit \/ Crash
    PROVE  RecoveryInv'
<1> USE DEF IInv, StateInv, RecoveryInv
<1>1. /\ Gone /\ UNCHANGED <<file, plist, untouched>> /\ phase' \in {"quit", "crashed"}
      /\ Live /\ toReopen' = {}
  BY DEF Quit, Crash, disk, Live, PendingInv
<1>2. Open' = {}
  BY <1>1, EmptyList DEF Gone, Open
<1>3. ListedInv' /\ NumbersInv' /\ PendingInv'
  BY <1>1, <1>2 DEF ListedInv, Live, NumbersInv, PendingInv
<1> QED
  BY <1>3

LEMMA LaunchRecovery ==
    ASSUME IInv, RecoveryInv, Launch \/ Launched
    PROVE  RecoveryInv'
<1> USE DEF IInv, StateInv, RecoveryInv
<1>1. UNCHANGED <<documents, doc, untitledCount, file, plist>> /\ Open' = Open
  BY DEF Launch, Launched, memory, disk, Open
<1>2. NumbersInv'
  BY <1>1 DEF NumbersInv
<1>3. CASE Launch
  <2>1. /\ phase \in {"quit", "crashed"} /\ phase' = "launching"
        /\ toReopen' = plist /\ untouched' = TRUE /\ Open = {}
    BY <1>3, EmptyList DEF Launch, CountInv, Open
  <2>2. ListedInv' /\ PendingInv'
    BY <1>1, <2>1 DEF ListedInv, PendingInv
  <2> QED
    BY <1>2, <2>2
<1>4. CASE Launched
  <2>1. /\ phase = "launching" /\ phase' = "running" /\ toReopen = {}
        /\ UNCHANGED <<toReopen, untouched>>
    BY <1>4 DEF Launched, disk
  <2>2. ListedInv' /\ PendingInv'
    BY <1>1, <2>1 DEF ListedInv, Live, PendingInv
  <2> QED
    BY <1>2, <2>2
<1> QED
  BY <1>3, <1>4

LEMMA ReopenRecovery ==
    ASSUME IInv, RecoveryInv, NEW l \in Locations, Reopen(l)
    PROVE  RecoveryInv'
<1> USE DEF IInv, StateInv, RecoveryInv
<1>0. PICK d : d = file[l]
  OBVIOUS
<1> DEFINE state == [doc EXCEPT ![d] = ReopenedAs(l)]
<1>1. /\ phase = "launching" /\ phase' = phase /\ l \in toReopen /\ toReopen' = toReopen \ {l}
      /\ d \in Docs /\ Add(d, ReopenedAs(l)) /\ Recorded(Open \cup {d}, state, TRUE)
      /\ UNCHANGED file
  BY <1>0 DEF Reopen, DiskInv
<1>2. d \notin Open /\ l # None
  BY <1>0, <1>1, NoneAssumption DEF FilesInv
<1>3. untitledCount \in Nat \ {0}
  BY DEF CountInv
<1>4. /\ ReopenedAs(l).index = untitledCount /\ ReopenedAs(l).location = l
  <2>1. Blank(untitledCount) \in Document /\ Blank(untitledCount).index = untitledCount
    BY <1>3, BlankType
  <2> QED
    BY <2>1 DEF ReopenedAs, Document
<1>5. /\ Open' = Open \cup {d} /\ doc' = state /\ untitledCount' = untitledCount + 1
  BY <1>1, AppendElements DEF Add, ListInv, Open
<1>6. doc'[d] = ReopenedAs(l) /\ \A x \in Open : doc'[x] = doc[x]
  BY <1>1, <1>2, <1>5, OpenType DEF DocInv, ListInv
<1> HIDE DEF state
<1>7. ListedInv'
  <2>1. untouched' = FALSE /\ plist' = {doc'[x].location : x \in Open'} \ {None}
    BY <1>1, <1>5 DEF Recorded
  <2>2. \A x \in Open' : doc'[x].location # None => file[doc'[x].location] \in Open' \cup {None}
    BY <1>0, <1>1, <1>4, <1>5, <1>6 DEF ListedInv, Live
  <2> QED
    BY <1>1, <2>1, <2>2 DEF ListedInv
<1>8. NumbersInv'
  <2>1. \A x \in Open : doc[x].index \in Nat
    BY DEF DocInv, Locations
  <2> QED
    BY <1>3, <1>4, <1>5, <1>6, <2>1 DEF NumbersInv
<1>9. PendingInv'
  <2>1. untouched' = FALSE
    BY <1>1 DEF Recorded
  <2> QED
    BY <1>1, <2>1 DEF PendingInv
<1> QED
  BY <1>7, <1>8, <1>9

LEMMA NotReopenedRecovery ==
    ASSUME IInv, RecoveryInv, NEW l \in Locations, ReopenFails(l) \/ FileMissing(l)
    PROVE  RecoveryInv'
<1> USE DEF IInv, StateInv, RecoveryInv
<1>1. /\ phase = "launching" /\ phase' = phase /\ toReopen' = toReopen \ {l}
      /\ UNCHANGED <<documents, doc, file, plist, untouched>> /\ Open' = Open
      /\ untitledCount' \in {untitledCount, untitledCount + 1}
  BY NoneAssumption DEF ReopenFails, FileMissing, memory, disk, Open, RestInv
<1>2. ListedInv' /\ PendingInv'
  BY <1>1 DEF ListedInv, Live, PendingInv
<1>3. NumbersInv'
  <2>1. untitledCount \in Nat /\ \A x \in Open : doc[x].index \in Nat
    BY DEF CountInv, DocInv, Locations
  <2> QED
    BY <1>1, <2>1 DEF NumbersInv
<1> QED
  BY <1>2, <1>3

LEMMA NextRecovery ==
    ASSUME IInv, RecoveryInv, [Next]_vars
    PROVE  RecoveryInv'
<1>1. CASE \E d \in Docs : DocumentCall(d)
  <2> SUFFICES ASSUME NEW d \in Docs, DocumentCall(d) PROVE RecoveryInv'
    BY <1>1
  <2>1. CASE newDocument(d)
    BY <2>1, NewRecovery
  <2>2. CASE Edit(d) \/ UndoAll(d)
    <3>1. UNCHANGED <<phase, documents, untitledCount, file, plist, untouched, toReopen>>
      BY <2>2 DEF Edit, UndoAll, disk
    <3>2. \A x \in Open : doc'[x].location = doc[x].location /\ doc'[x].index = doc[x].index
      <4>1. PICK changed \in BOOLEAN :
               doc' = [doc EXCEPT ![d].changed = changed, ![d].unautosaved = TRUE]
        BY <2>2 DEF Edit, UndoAll
      <4> QED
        BY <4>1, OpenType DEF IInv, StateInv, ListInv, DocInv, Document
    <3> QED
      BY <3>1, <3>2, FilesSame
  <2>3. CASE saveDocument(d)
    BY <2>3, SavedRecovery DEF saveDocument, AtRest, Running
  <2>4. CASE closeDocument(d)
    BY <2>4, ClosedRecovery DEF closeDocument, AtRest, Running
  <2> QED
    BY <2>1, <2>2, <2>3, <2>4 DEF DocumentCall
<1>2. CASE BeginAutosaving \/ PassOver \/ AutosavingEnds
  BY <1>2, FilesSame DEF BeginAutosaving, PassOver, AutosavingEnds, memory, disk
<1>3. CASE Autosave
  BY <1>3, AutosaveRecovery
<1>4. CASE (\E kind \in CloseAll : BeginCloseAll(kind)) \/ Review \/ RefuseNext \/ ClosedAll
  BY <1>4, FilesSame DEF BeginCloseAll, Review, RefuseNext, ClosedAll, memory, disk
<1>5. CASE CloseNext
  <2>1. /\ Closed(Next1) /\ call.rest # <<>> /\ call.rest \in Seq(Docs)
        /\ phase = "running" /\ UNCHANGED <<phase, toReopen>>
    BY <1>5 DEF CloseNext, Closing, Running, IInv, CallInv, Call
  <2>2. Next1 \in Open
    BY <2>1, TailElements DEF Next1, IInv, CallInv
  <2> QED
    BY <2>1, <2>2, ClosedRecovery
<1>6. CASE QuitAnyway \/ NothingToReview \/ DelegateRefuses \/ DelegateAgrees \/ LateReply
  BY <1>6, FilesSame DEF QuitAnyway, NothingToReview, DelegateRefuses, DelegateAgrees,
     LateReply, AtRest, Running, In, memory, disk
<1>7. CASE \E d \in Docs : CloseWindows(d)
  BY <1>7, ClosedRecovery DEF CloseWindows
<1>8. CASE Quit \/ Crash
  BY <1>8, GoneRecovery
<1>9. CASE Launch \/ Launched
  BY <1>9, LaunchRecovery
<1>10. CASE \E l \in Locations : Reopen(l) \/ ReopenFails(l) \/ FileMissing(l)
  BY <1>10, ReopenRecovery, NotReopenedRecovery
<1>11. CASE UNCHANGED vars
  BY <1>11, FilesSame DEF vars, memory, disk
<1> QED
  BY <1>1, <1>2, <1>3, <1>4, <1>5, <1>6, <1>7, <1>8, <1>9, <1>10, <1>11 DEF Next

LEMMA SpecRecovery == Spec => [](IInv /\ RecoveryInv)
<1>1. Spec => []RecoveryInv
  BY InitRecovery, NextRecovery, SpecInv, PTL DEF Spec
<1> QED
  BY <1>1, SpecInv, PTL

\* -_recordAutosavedDocument: writes the list so that it has the files of the
\* open documents and no other, whenever a document got or lost its file: what
\* was closed or saved does not come back after a crash.
THEOREM ListMatchesDocuments == Spec => []RecordsMatch
<1>1. IInv /\ RecoveryInv => RecordsMatch
  BY DEF IInv, StateInv, RecoveryInv, ListedInv, Live, RecordsMatch
<1> QED
  BY <1>1, SpecRecovery, PTL
-----------------------------------------------------------------------------
(* Autosaved work stays.                                                   *)

\* What AutosavedWorkStays says of a step, and its two halves for one document.
Stays ==
    \A d \in Docs :
        /\ d \in Open /\ doc[d].unautosaved /\ ~doc'[d].unautosaved =>
               Findable(d)' \/ SavedOrClosed(d) \/ phase' = "crashed"
        /\ Findable(d) /\ ~Findable(d)' =>
               SavedOrClosed(d) \/ Overwritten(d) \/ NotReopened(d)

Autosaves(d) ==
    d \in Open /\ doc[d].unautosaved /\ ~doc'[d].unautosaved =>
        Findable(d)' \/ SavedOrClosed(d) \/ phase' = "crashed"
Lasts(d) ==
    Findable(d) /\ ~Findable(d)' => SavedOrClosed(d) \/ Overwritten(d) \/ NotReopened(d)
WorkStays == \A d \in Docs : Autosaves(d) /\ Lasts(d)

\* Steps that leave the list and the files alone.
LEMMA SameFilesStay ==
    ASSUME UNCHANGED <<file, plist, toReopen>>,
           \A e \in Open : doc[e].unautosaved => doc'[e].unautosaved
    PROVE  WorkStays
BY DEF WorkStays, Autosaves, Lasts, Findable

\* Open documents that share a file: one has it from an earlier launch.
LEMMA SharedFile ==
    ASSUME IInv, RecoveryInv, NEW d \in Open, NEW e \in Open, d # e,
           doc[e].location # None, LocationOf(d) = doc[e].location
    PROVE  Borrowed(d) \/ Borrowed(e)
<1> SUFFICES ASSUME ~Borrowed(d), ~Borrowed(e) PROVE FALSE
  OBVIOUS
<1>1. doc[e].location = doc[e].index /\ LocationOf(d) = doc[d].index
  BY DEF Borrowed, LocationOf
<1> QED
  BY <1>1 DEF RecoveryInv, NumbersInv

\* What one document's file loses is its own work or shared; the list, when it is
\* written, keeps the entries of the other open documents.
LEMMA RemovedStays ==
    ASSUME IInv, RecoveryInv, phase \in {"running", "terminating"}, NEW d \in Open,
           NEW docs, docs \in {Open, Open \ {d}}, AutosavedRemoved(d, docs),
           UNCHANGED toReopen, NEW e \in Docs, e # d
    PROVE  Lasts(e)
<1> USE DEF IInv, StateInv, RecoveryInv
<1> SUFFICES ASSUME NEW l \in plist \cup toReopen, file[l] = e, ~Findable(e)'
             PROVE  Overwritten(e) \/ NotReopened(e)
  BY DEF Lasts, Findable
<1> DEFINE state == [doc EXCEPT ![d].location = None]
<1>0. PICK location : location = doc[d].location
  OBVIOUS
<1>1. /\ toReopen = {} /\ l \in plist /\ l \in Locations /\ d \in Docs /\ Open \subseteq Docs
      /\ location \in Locations \cup {None} /\ None \notin Docs /\ None \notin Locations
  BY <1>0, OpenType, NoneAssumption DEF PendingInv, DiskInv, ListInv, DocInv, Document
<1>2. \A x \in docs : x # d => state[x].location = doc[x].location
  BY <1>1 DEF DocInv, Document
<1>3. /\ Recorded(docs, state, location # None)
      /\ location = None => file' = file
      /\ location # None => file' = [file EXCEPT ![location] = None]
  BY <1>0 DEF AutosavedRemoved, Forgets
<1> HIDE DEF state
<1>4. location # None
  BY <1>3 DEF Recorded, Findable
<1>5. /\ file' = [file EXCEPT ![location] = None] /\ untouched' = FALSE
      /\ plist' = {state[x].location : x \in docs} \ {None}
  BY <1>3, <1>4 DEF Recorded
<1>6. CASE l = location
  <2>1. LocationOf(d) = l
    BY <1>0, <1>4, <1>6 DEF LocationOf
  <2>2. file'[l] = None
    BY <1>1, <1>5, <1>6 DEF DiskInv
  <2>3. e \in Open => Borrowed(d) \/ Borrowed(e)
    <3> SUFFICES ASSUME e \in Open PROVE Borrowed(d) \/ Borrowed(e)
      OBVIOUS
    <3>1. doc[e].location = l
      BY <1>1 DEF FilesInv
    <3> QED
      BY <1>1, <2>1, <3>1, SharedFile
  <2>4. d \in Open \ {e} /\ file[LocationOf(d)] = e /\ file'[LocationOf(d)] # e
    BY <1>1, <2>1, <2>2
  <2> QED
    BY <2>3, <2>4 DEF Overwritten
<1>7. CASE l # location
  <2>1. file'[l] = e
    BY <1>1, <1>5, <1>7 DEF DiskInv
  <2>2. CASE e \in Open
    <3>1. e \in docs /\ doc[e].location = l
      BY <1>1, <2>2 DEF FilesInv
    <3>2. state[e].location = l /\ l # None
      BY <1>1, <1>2, <3>1
    <3>3. l \in plist'
      BY <1>5, <3>1, <3>2
    <3> QED
      BY <2>1, <3>3 DEF Findable
  <2>3. CASE e \notin Open
    BY <1>1, <1>5, <2>3 DEF NotReopened
  <2> QED
    BY <2>2, <2>3
<1> QED
  BY <1>6, <1>7

LEMMA SavedStays ==
    ASSUME IInv, RecoveryInv, phase \in {"running", "terminating"}, NEW d \in Open,
           Saved(d), UNCHANGED <<phase, toReopen>>
    PROVE  WorkStays
<1>1. /\ AutosavedRemoved(d, Open) /\ phase' # "crashed"
      /\ doc' = [doc EXCEPT ![d] = Blank(doc[d].index)]
  BY DEF Saved
<1>2. SavedOrClosed(d)
  BY <1>1, OpenType DEF SavedOrClosed, IInv, StateInv, ListInv, DocInv
<1>3. \A e \in Docs : e # d => doc'[e] = doc[e]
  BY <1>1 DEF IInv, StateInv, DocInv
<1>4. ASSUME NEW e \in Docs, e # d PROVE Autosaves(e) /\ Lasts(e)
  BY <1>1, <1>3, <1>4, RemovedStays DEF Autosaves
<1> QED
  BY <1>2, <1>4 DEF WorkStays, Autosaves, Lasts

LEMMA ClosedStays ==
    ASSUME IInv, RecoveryInv, phase \in {"running", "terminating"}, NEW d \in Open,
           Closed(d), UNCHANGED <<phase, toReopen>>
    PROVE  WorkStays
<1>1. AutosavedRemoved(d, Open \ {d}) /\ doc' = [doc EXCEPT ![d] = Blank(0)]
  BY DEF Closed
<1>2. SavedOrClosed(d)
  BY ClosedState DEF SavedOrClosed, IInv
<1>3. \A e \in Docs : e # d => doc'[e] = doc[e]
  BY <1>1 DEF IInv, StateInv, DocInv
<1>4. ASSUME NEW e \in Docs, e # d PROVE Autosaves(e) /\ Lasts(e)
  BY <1>1, <1>3, <1>4, RemovedStays DEF Autosaves
<1> QED
  BY <1>2, <1>4 DEF WorkStays, Autosaves, Lasts

\* The autosaved document is in its file and in the list; work that was in that
\* file is overwritten, and the other open documents stay in the list.
LEMMA AutosaveStays ==
    ASSUME IInv, RecoveryInv, Autosave
    PROVE  WorkStays
<1> USE DEF IInv, StateInv, RecoveryInv
<1>0. PICK d, location : d = Next1 /\ location = LocationOf(Next1)
  OBVIOUS
<1> DEFINE state == [doc EXCEPT ![d].unautosaved = FALSE, ![d].location = location]
<1>1. /\ phase = "running" /\ call.rest # <<>> /\ call.rest \in Seq(Docs)
      /\ UNCHANGED toReopen /\ toReopen = {}
  BY DEF Autosave, In, Running, CallInv, Call, PendingInv
<1>2. d \in Open /\ d \in Docs /\ Open \subseteq Docs /\ None \notin Docs /\ None \notin Locations
  BY <1>0, <1>1, TailElements, OpenType, NoneAssumption DEF Next1, CallInv, ListInv
<1>3. location \in Locations
  BY <1>0, <1>2, NoneAssumption DEF LocationOf, DocInv, Document
<1>4. /\ file' = [file EXCEPT ![location] = d] /\ doc' = state
      /\ Recorded(Open, state, TRUE)
  BY <1>0 DEF Autosave
<1>5. /\ state[d].location = location
      /\ \A x \in Docs : x # d => state[x] = doc[x]
  BY <1>2 DEF DocInv, Document
<1> HIDE DEF state
<1>6. /\ \A l \in Locations : file'[l] = IF l = location THEN d ELSE file[l]
      /\ plist' = {state[x].location : x \in Open} \ {None} /\ untouched' = FALSE
  BY <1>3, <1>4 DEF DiskInv, Recorded
<1>7. Findable(d)'
  <2>1. location \in plist' /\ file'[location] = d
    BY <1>2, <1>3, <1>5, <1>6
  <2> QED
    BY <2>1 DEF Findable
<1>8. ASSUME NEW e \in Docs, e # d PROVE Autosaves(e) /\ Lasts(e)
  <2>1. Autosaves(e)
    BY <1>4, <1>5, <1>8 DEF Autosaves
  <2> SUFFICES ASSUME NEW l \in plist \cup toReopen, file[l] = e, ~Findable(e)'
               PROVE  Overwritten(e) \/ NotReopened(e)
    BY <2>1 DEF Lasts, Findable
  <2>2. l \in plist /\ l \in Locations
    BY <1>1 DEF DiskInv
  <2>3. CASE l = location
    <3>1. e \in Open => Borrowed(d) \/ Borrowed(e)
      <4> SUFFICES ASSUME e \in Open PROVE Borrowed(d) \/ Borrowed(e)
        OBVIOUS
      <4>1. doc[e].location = l /\ l # None
        BY <1>2, <2>2 DEF FilesInv
      <4> QED
        BY <1>0, <1>2, <1>8, <2>3, <4>1, SharedFile
    <3>2. d \in Open \ {e} /\ file[LocationOf(d)] = e /\ file'[LocationOf(d)] # e
      BY <1>0, <1>2, <1>6, <1>8, <2>2, <2>3
    <3> QED
      BY <3>1, <3>2 DEF Overwritten
  <2>4. CASE l # location
    <3>1. file'[l] = e
      BY <1>6, <2>2, <2>4
    <3>2. CASE e \in Open
      <4>1. doc[e].location = l /\ state[e].location = l /\ l # None
        BY <1>2, <1>5, <1>8, <2>2, <3>2 DEF FilesInv
      <4>2. l \in plist'
        BY <1>6, <3>2, <4>1
      <4> QED
        BY <3>1, <4>2 DEF Findable
    <3>3. CASE e \notin Open
      BY <1>1, <1>6, <3>3 DEF NotReopened
    <3> QED
      BY <3>2, <3>3
  <2> QED
    BY <2>3, <2>4
<1> QED
  BY <1>7, <1>8 DEF WorkStays, Autosaves, Lasts

\* A program that dies while it reopens documents forgets those to come, if it
\* has written the list.
LEMMA GoneStays ==
    ASSUME IInv, RecoveryInv, Quit \/ Crash
    PROVE  WorkStays
<1> USE DEF IInv, StateInv, RecoveryInv
<1>1. CASE Quit
  <2>1. Open = {} /\ UNCHANGED <<file, plist, toReopen>>
    BY <1>1, EmptyList DEF Quit, Open, disk
  <2> QED
    BY <2>1, SameFilesStay
<1>2. CASE Crash
  <2>1. phase' = "crashed" /\ UNCHANGED <<file, plist, untouched>>
    BY <1>2 DEF Crash, disk
  <2>2. ASSUME NEW e \in Docs, NEW l \in plist \cup toReopen, file[l] = e, ~Findable(e)'
        PROVE  NotReopened(e)
    <3>1. l \notin plist /\ l \in toReopen /\ l \in Locations
      BY <2>1, <2>2 DEF Findable, DiskInv
    <3>2. phase = "launching" /\ ~untouched
      BY <3>1 DEF PendingInv
    <3>3. e \notin Open
      BY <2>2, <3>1, <3>2 DEF FilesInv
    <3> QED
      BY <2>1, <3>2, <3>3 DEF NotReopened
  <2> QED
    BY <2>1, <2>2 DEF WorkStays, Autosaves, Lasts, Findable
<1> QED
  BY <1>1, <1>2

LEMMA LaunchStays ==
    ASSUME IInv, RecoveryInv, Launch \/ Launched
    PROVE  WorkStays
<1> USE DEF RecoveryInv
<1>1. UNCHANGED <<doc, file, plist>>
  BY DEF Launch, Launched, memory, disk
<1>2. plist \cup toReopen \subseteq plist' \cup toReopen'
  <2>1. CASE Launch
    BY <1>1, <2>1 DEF Launch, PendingInv
  <2>2. CASE Launched
    BY <1>1, <2>2 DEF Launched
  <2> QED
    BY <2>1, <2>2
<1> QED
  BY <1>1, <1>2 DEF WorkStays, Autosaves, Lasts, Findable

\* Reopening one document keeps the entries of the others: those open are in the
\* list that is written, those to come are still in the one that was read.
LEMMA ReopenStays ==
    ASSUME IInv, RecoveryInv, NEW m \in Locations, Reopen(m)
    PROVE  WorkStays
<1> USE DEF IInv, StateInv, RecoveryInv
<1>0. PICK d : d = file[m]
  OBVIOUS
<1> DEFINE state == [doc EXCEPT ![d] = ReopenedAs(m)]
<1>1. /\ phase = "launching" /\ m \in toReopen /\ toReopen' = toReopen \ {m}
      /\ d \in Docs /\ doc' = state /\ Recorded(Open \cup {d}, state, TRUE)
      /\ UNCHANGED file
  BY <1>0 DEF Reopen, DiskInv, Add
<1>2. d \notin Open /\ m # None
  BY <1>0, <1>1, NoneAssumption DEF FilesInv
<1>3. ReopenedAs(m).location = m
  <2>1. Blank(untitledCount) \in Document
    BY BlankType DEF CountInv
  <2> QED
    BY <2>1 DEF ReopenedAs, Document
<1>4. /\ state[d].location = m
      /\ \A x \in Docs : x # d => state[x] = doc[x]
  BY <1>1, <1>3 DEF DocInv
<1> HIDE DEF state
<1>5. /\ plist' = {state[x].location : x \in Open \cup {d}} \ {None} /\ untouched' = FALSE
      /\ Open \subseteq Docs
  BY <1>1, OpenType DEF Recorded, ListInv
<1>6. \A e \in Docs : Autosaves(e)
  BY <1>1, <1>2, <1>4 DEF Autosaves
<1>7. ASSUME NEW e \in Docs, NEW l \in plist \cup toReopen, file[l] = e, ~Findable(e)'
      PROVE  NotReopened(e)
  <2>1. l \in Locations /\ l # None /\ file'[l] = e
    BY <1>1, <1>7, NoneAssumption DEF DiskInv
  <2>2. l \notin plist' /\ l \notin toReopen'
    BY <1>7, <2>1 DEF Findable
  <2>3. e # d
    <3>1. m \in plist'
      BY <1>2, <1>4, <1>5
    <3> QED
      BY <1>0, <1>1, <1>7, <3>1 DEF Findable
  <2>4. l # m /\ l \notin toReopen
    BY <1>0, <1>1, <1>7, <2>2, <2>3
  <2>5. \A k \in toReopen : file[k] # e
    BY <1>1, <1>7, <2>1, <2>4, NoneAssumption DEF FilesInv, DiskInv
  <2>6. e \notin Open
    <3> SUFFICES ASSUME e \in Open PROVE FALSE
      OBVIOUS
    <3>1. state[e].location = l
      BY <1>4, <1>7, <2>1, <2>3 DEF FilesInv
    <3> QED
      BY <1>5, <2>1, <2>2, <3>1
  <2> QED
    BY <1>5, <2>5, <2>6 DEF NotReopened
<1> QED
  BY <1>6, <1>7 DEF WorkStays, Lasts, Findable

LEMMA NotReopenedStays ==
    ASSUME IInv, RecoveryInv, NEW m \in Locations, ReopenFails(m) \/ FileMissing(m)
    PROVE  WorkStays
<1> USE DEF IInv, StateInv, RecoveryInv
<1>1. /\ phase = "launching" /\ m \in toReopen /\ toReopen' = toReopen \ {m}
      /\ UNCHANGED <<documents, doc, file, plist, untouched>>
  BY DEF ReopenFails, FileMissing, memory, disk
<1>2. ASSUME NEW e \in Docs, NEW l \in plist \cup toReopen, file[l] = e, ~Findable(e)'
      PROVE  NotReopened(e)
  <2>1. l = m /\ l \notin plist
    BY <1>1, <1>2 DEF Findable
  <2>2. ~untouched
    BY <1>1, <2>1 DEF PendingInv
  <2>3. e \notin Open
    BY <1>1, <1>2, <2>1 DEF FilesInv
  <2> QED
    BY <1>1, <2>2, <2>3 DEF NotReopened
<1> QED
  BY <1>1, <1>2 DEF WorkStays, Autosaves, Lasts, Findable

LEMMA NextStays ==
    ASSUME IInv, RecoveryInv, [Next]_vars
    PROVE  WorkStays
<1>1. CASE \E d \in Docs : DocumentCall(d)
  <2> SUFFICES ASSUME NEW d \in Docs, DocumentCall(d) PROVE WorkStays
    BY <1>1
  <2>1. CASE newDocument(d)
    <3>1. UNCHANGED <<file, plist, toReopen>> /\ d \notin Open
          /\ doc' = [doc EXCEPT ![d] = Blank(untitledCount)]
      BY <2>1 DEF newDocument, disk, Add
    <3>2. \A e \in Open : doc'[e] = doc[e]
      BY <3>1, OpenType DEF IInv, StateInv, ListInv, DocInv
    <3> QED
      BY <3>1, <3>2, SameFilesStay
  <2>2. CASE Edit(d) \/ UndoAll(d)
    <3>1. PICK changed \in BOOLEAN :
             doc' = [doc EXCEPT ![d].changed = changed, ![d].unautosaved = TRUE]
      BY <2>2 DEF Edit, UndoAll
    <3>2. \A e \in Open : doc[e].unautosaved => doc'[e].unautosaved
      BY <3>1, OpenType DEF IInv, StateInv, ListInv, DocInv, Document
    <3>3. UNCHANGED <<file, plist, toReopen>>
      BY <2>2 DEF Edit, UndoAll, disk
    <3> QED
      BY <3>2, <3>3, SameFilesStay
  <2>3. CASE saveDocument(d)
    BY <2>3, SavedStays DEF saveDocument, AtRest, Running
  <2>4. CASE closeDocument(d)
    BY <2>4, ClosedStays DEF closeDocument, AtRest, Running
  <2> QED
    BY <2>1, <2>2, <2>3, <2>4 DEF DocumentCall
<1>2. CASE BeginAutosaving \/ PassOver \/ AutosavingEnds
  BY <1>2, SameFilesStay DEF BeginAutosaving, PassOver, AutosavingEnds, memory, disk
<1>3. CASE Autosave
  BY <1>3, AutosaveStays
<1>4. CASE (\E kind \in CloseAll : BeginCloseAll(kind)) \/ Review \/ RefuseNext \/ ClosedAll
  BY <1>4, SameFilesStay DEF BeginCloseAll, Review, RefuseNext, ClosedAll, memory, disk
<1>5. CASE CloseNext
  <2>1. /\ Closed(Next1) /\ call.rest # <<>> /\ call.rest \in Seq(Docs)
        /\ phase = "running" /\ UNCHANGED <<phase, toReopen>>
    BY <1>5 DEF CloseNext, Closing, Running, IInv, CallInv, Call
  <2>2. Next1 \in Open
    BY <2>1, TailElements DEF Next1, IInv, CallInv
  <2> QED
    BY <2>1, <2>2, ClosedStays
<1>6. CASE QuitAnyway \/ NothingToReview \/ DelegateRefuses \/ DelegateAgrees \/ LateReply
  BY <1>6, SameFilesStay DEF QuitAnyway, NothingToReview, DelegateRefuses, DelegateAgrees,
     LateReply, memory, disk
<1>7. CASE \E d \in Docs : CloseWindows(d)
  BY <1>7, ClosedStays DEF CloseWindows
<1>8. CASE Quit \/ Crash
  BY <1>8, GoneStays
<1>9. CASE Launch \/ Launched
  BY <1>9, LaunchStays
<1>10. CASE \E l \in Locations : Reopen(l) \/ ReopenFails(l) \/ FileMissing(l)
  BY <1>10, ReopenStays, NotReopenedStays
<1>11. CASE UNCHANGED vars
  BY <1>11, SameFilesStay DEF vars, memory, disk
<1> QED
  BY <1>1, <1>2, <1>3, <1>4, <1>5, <1>6, <1>7, <1>8, <1>9, <1>10, <1>11 DEF Next

\* Once -autosaveDocumentWithDelegate:... has cleared a document's count, the next
\* launch, or the one under way, finds its work, and no later step of closing,
\* saving, autosaving, quitting, crashing or reopening takes that away, except the
\* ways SavedOrClosed, Overwritten and NotReopened name: whatever rewrites the list for
\* one document keeps the entries of all other open documents and of those to come.
THEOREM AutosavedWorkIsFound == Spec => AutosavedWorkStays
<1>1. IInv /\ RecoveryInv /\ [Next]_vars => [Stays]_vars
  BY NextStays DEF Stays, WorkStays, Autosaves, Lasts
<1>2. Spec => [][Stays]_vars
  BY <1>1, SpecRecovery, PTL DEF Spec
<1> QED
  BY <1>2 DEF AutosavedWorkStays, Stays
=============================================================================
