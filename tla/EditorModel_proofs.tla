-------------------------- MODULE EditorModel_proofs --------------------------
(***************************************************************************)
(* Theorems about EditorModel, for every bound: the check for dirty writes *)
(* does its work, a dirty model always has changes to save, and the file   *)
(* is written once for every save and once more for every failure.         *)
(***************************************************************************)
EXTENDS EditorModel, FiniteSetTheorems, TLAPS

-------------------------------------------------------------------------------
(***************************************************************************)
(* The inductive invariant.                                                *)
(***************************************************************************)
Savings == [text : Content, changes : Nat, version : Nat, position : Nat, incremental : BOOLEAN]
Reads == [content : Seq(Content), version : Nat]

\* What the argument needs of types.
Types ==
    /\ disk \in Content /\ text \in Content /\ saving \in Savings /\ received \in Reads
    /\ foreign \in Bases
    /\ mtime \in Nat /\ resourceVersion \in 0 .. mtime /\ fileVersion \in 0 .. mtime
    /\ received.version <= mtime
    /\ edits \in 0 .. MaxEdits
    /\ contentChanges \in Seq(ContentChange) /\ undoable \in Seq(Content)
    /\ saving.changes <= Len(contentChanges)

\* The user has gone back over every load between what is saved and the text.
WentBack == \A b \in Bases : text.base < b /\ b <= saving.text.base => b \in undone

\* What a save has captured stays current: no load and no other save runs.
CapturedInv ==
    /\ Locked => /\ WentBack
                 /\ saving.version = resourceVersion
                 /\ OtherVersion => saving.changes < Len(contentChanges)
    /\ step = "asking" => ~saving.incremental

\* A write that goes on takes back nothing that was there when it was checked,
\* or that the user has not agreed to lose; one that took effect has left the
\* file newer than any version the model knows.
WritingInv ==
    /\ step = "validating" /\ disk.base > saving.text.base =>
           resourceVersion < mtime \/ Unforeseen(disk.base)
    /\ step = "writing" /\ disk.base > saving.text.base =>
           Unforeseen(disk.base) \/ (~saving.incremental /\ disk.base \in consented)
    /\ step = "stating" => resourceVersion < mtime
    /\ step = "stating" /\ disk.base > text.base => Unforeseen(disk.base)

\* What a read has got: a content older than the file comes with a version that
\* is older, unless it came before the version was taken.
ReadInv ==
    /\ step \notin {"reading", "loading"} => received = NotRead
    /\ step = "loading" => received.version = fileVersion /\ received.version # Nothing
    /\ (received.content # <<>> /\ disk.base > received.content[1].base) =>
           disk.base \in torn \/ (received.version # Nothing /\ received.version < mtime)

VersionInv == CapturedInv /\ WritingInv /\ ReadInv /\ VersionBelongsToText /\ DirtyHasChanges

\* Nobody has a base that has not been in the file.
KnownInv ==
    /\ disk.base <= foreign /\ text.base <= foreign /\ saving.text.base <= foreign
    /\ \A i \in DOMAIN undoable : undoable[i].base <= foreign
    /\ \A i \in DOMAIN received.content : received.content[i].base <= foreign
    /\ \A i \in DOMAIN contentChanges : contentChanges[i].to <= foreign

IInv == Types /\ KnownInv /\ VersionInv

-------------------------------------------------------------------------------
(***************************************************************************)
(* Types.                                                                  *)
(***************************************************************************)
LEMMA NobodySaves ==
    /\ Nobody \in Savings /\ Nobody.changes = 0
    /\ NotRead \in Reads /\ NotRead.version = 0 /\ NotRead.content = <<>>
<1>1. <<>> \in Seq(Content)
      OBVIOUS
<1> QED BY <1>1, EditorAssumption DEF Nobody, Savings, NotRead, Reads, Content, Bases, Nothing

\* Change events applied to a content make a content.  Unless they go back over
\* a load its base stays; if they lead to a base it is that one.
LEMMA UpdatedContent ==
    ASSUME NEW c \in Content, NEW changes \in Seq(ContentChange)
    PROVE  /\ Updated(c, changes) \in Content
           /\ ~Rebases(changes) => Updated(c, changes).base = c.base
           /\ \A a, b : Rebases(changes) /\ LeadsFrom(a, changes, b) => Updated(c, changes).base = b
<1>1. SymDiff(c.edits, Toggled(changes)) \in SUBSET Edits
      BY DEF Toggled, SymDiff, Content
<1>2. Rebases(changes) => Last(changes).to \in Bases
  <2>1. Rebases(changes) => changes # <<>>
        BY DEF Rebases
  <2>2. changes # <<>> => Last(changes) \in ContentChange
        BY DEF Last
  <2> QED BY <2>1, <2>2 DEF ContentChange
<1>3. c.base \in Bases
      BY DEF Content
<1> QED BY <1>1, <1>2, <1>3 DEF Updated, LeadsFrom, Content

LEMMA CapturedAreChanges ==
    ASSUME Types PROVE CapturedChanges \in Seq(ContentChange)
BY DEF Types, CapturedChanges, Savings

\* A change by the user.
LEMMA ChangedTypes ==
    ASSUME Types, NEW new \in Content, DidChangeContent(new), UNCHANGED <<saving>>
    PROVE  /\ text' = new
           /\ contentChanges' \in Seq(ContentChange)
           /\ Len(contentChanges') = Len(contentChanges) + 1
<1> DEFINE change == [from |-> text.base, to |-> new.base, toggled |-> SymDiff(text.edits, new.edits)]
<1>1. change \in ContentChange
      BY DEF Types, ContentChange, Content, SymDiff
<1>2. contentChanges' = Append(contentChanges, change) /\ text' = new
      BY DEF DidChangeContent
<1> HIDE DEF change
<1> QED BY <1>1, <1>2 DEF Types

\* The text of an edit, and the one that undo returns to.
LEMMA EditedText ==
    ASSUME Types, Edit
    PROVE  /\ [text EXCEPT !.edits = @ \cup {edits'}] \in Content
           /\ [text EXCEPT !.edits = @ \cup {edits'}].base = text.base
           /\ edits' \in 0 .. MaxEdits /\ undoable' \in Seq(Content)
<1>1. edits + 1 \in Edits
      BY EditorAssumption DEF Types, Edit, Edits
<1> QED BY <1>1 DEF Types, Edit, Edits, Content

LEMMA UndoneText ==
    ASSUME Types, Undo
    PROVE  Last(undoable) \in Content /\ undoable' \in Seq(Content)
<1>1. undoable # <<>> /\ undoable \in Seq(Content)
      BY DEF Types, Undo
<1>2. Last(undoable) \in Content
      BY <1>1 DEF Last
<1>3. Front(undoable) \in Seq(Content)
      BY <1>1 DEF Front
<1> QED BY <1>2, <1>3 DEF Undo

LEMMA TypesInit == Init => Types
<1>1. <<>> \in Seq(ContentChange) /\ <<>> \in Seq(Content)
      OBVIOUS
<1> QED BY <1>1, EditorAssumption, NobodySaves DEF Init, Types, Content, Bases

LEMMA TypesNext == Types /\ [Next]_vars => Types'
<1> SUFFICES ASSUME Types, [Next]_vars PROVE Types'
    OBVIOUS
<1> USE EditorAssumption DEF Types, resource
<1>1. CASE Edit
  <2>1. DidChangeContent([text EXCEPT !.edits = @ \cup {edits'}]) /\ UNCHANGED saving
        BY <1>1 DEF Edit, DidChangeContent
  <2>2. /\ text' \in Content /\ contentChanges' \in Seq(ContentChange)
        /\ Len(contentChanges') = Len(contentChanges) + 1
        BY <1>1, <2>1, EditedText, ChangedTypes
  <2>3. saving.changes \in Nat /\ Len(contentChanges) \in Nat
        BY DEF Savings
  <2> QED BY <1>1, <2>1, <2>2, <2>3, EditedText DEF Edit, file
<1>2. CASE Undo
  <2>1. DidChangeContent(Last(undoable)) /\ UNCHANGED saving
        BY <1>2 DEF Undo, DidChangeContent
  <2>2. /\ text' \in Content /\ contentChanges' \in Seq(ContentChange)
        /\ Len(contentChanges') = Len(contentChanges) + 1
        BY <1>2, <2>1, UndoneText, ChangedTypes
  <2>3. saving.changes \in Nat /\ Len(contentChanges) \in Nat
        BY DEF Savings
  <2> QED BY <1>2, <2>1, <2>2, <2>3, UndoneText DEF Undo, file, counters
<1>3. CASE Revert
      BY <1>3 DEF Revert, file
<1>4. CASE ForeignChange
  <2>1. foreign + 1 \in Bases /\ foreign' = foreign + 1
        BY <1>4 DEF ForeignChange, Bases
  <2>2. disk' \in Content
        BY <1>4, <2>1 DEF ForeignChange, Content
  <2>3. mtime' = mtime + 1
        BY <1>4 DEF ForeignChange
  <2>4. UNCHANGED <<text, saving, contentChanges, undoable, edits, resourceVersion, received,
                    fileVersion>>
        BY <1>4 DEF ForeignChange, buffer, queue, counters
  <2>5. /\ mtime' \in Nat /\ resourceVersion \in 0 .. mtime' /\ fileVersion \in 0 .. mtime'
        /\ received.version <= mtime'
        BY <2>3 DEF Reads
  <2> QED BY <2>1, <2>2, <2>4, <2>5
<1>5. ASSUME NEW manual \in BOOLEAN, Save(manual) PROVE Types'
      BY <1>5 DEF Save, file, buffer
<1>6. CASE Watching
      BY <1>6 DEF Watching, FilesChanged, Synchronize, file, buffer, queue, counters
<1>7. CASE Start
      BY <1>7 DEF Start, file, buffer, counters
<1>n. Len(contentChanges) \in Nat
      OBVIOUS
<1>8. CASE StartCancelled
  <2>1. saving' = Nobody
        BY <1>8 DEF StartCancelled, EndSync, Finish
  <2> QED BY <1>8, <1>n, <2>1, NobodySaves DEF StartCancelled, file, counters
<1>9. CASE ReadContent \/ StatRead
  <2>1. received' \in Reads /\ received'.version <= mtime
    <3>1. CASE ReadContent
      <4>1. received' = [received EXCEPT !.content = <<disk>>] /\ <<disk>> \in Seq(Content)
            BY <3>1 DEF ReadContent
      <4> QED BY <4>1 DEF Reads
    <3>2. CASE StatRead
      <4>1. received' = [received EXCEPT !.version = mtime]
            BY <3>2 DEF StatRead
      <4> QED BY <4>1 DEF Reads
    <3> QED BY <1>9, <3>1, <3>2
  <2> QED BY <1>9, <2>1 DEF ReadContent, StatRead, file, buffer, queue, counters
<1>10. CASE ReadVersion
  <2>1. fileVersion' \in 0 .. mtime
        BY <1>10 DEF ReadVersion, Reads
  <2> QED BY <1>10, <2>1 DEF ReadVersion, file, buffer, counters
<1>11. CASE Load
  <2>1. Head(received.content) \in Content
        BY <1>11 DEF Load, Reads
  <2>2. text' \in Content /\ undoable' \in Seq(Content)
    <3>1. Append(undoable, text) \in Seq(Content)
          OBVIOUS
    <3>2. /\ text' \in {text, Head(received.content)}
          /\ undoable' \in {undoable, Append(undoable, text)}
          BY <1>11 DEF Load
    <3> QED BY <2>1, <3>1, <3>2
  <2>3. resourceVersion' \in {resourceVersion, fileVersion}
        BY <1>11 DEF Load, VersionAfterSync
  <2>4. saving' = Nobody /\ received' = NotRead
        BY <1>11 DEF Load, EndSync, Finish
  <2> QED BY <1>11, <1>n, <2>2, <2>3, <2>4, NobodySaves DEF Load, file, counters
<1>12. CASE Prepare
  <2>1. saving' \in Savings /\ saving'.changes <= Len(contentChanges)
    <3>1. CASE Finish
          BY <1>n, <3>1, NobodySaves DEF Finish
    <3>2. CASE ~Finish
      <4>1. PICK incremental \in BOOLEAN :
                saving' = [text |-> text, changes |-> Len(contentChanges),
                           version |-> resourceVersion, position |-> Position,
                           incremental |-> incremental]
            BY <1>12, <3>2 DEF Prepare, VersionToSave
      <4>2. Position \in Nat
            BY DEF Position
      <4> QED BY <1>n, <4>1, <4>2 DEF Savings
    <3> QED BY <3>1, <3>2
  <2> QED BY <1>12, <2>1 DEF Prepare, file, buffer, counters
<1>13. CASE Validate
       BY <1>13 DEF Validate, file, buffer, counters
<1>14. CASE ValidateFails
       BY <1>14 DEF ValidateFails, file, buffer, counters
<1>15. CASE Overwrite
       BY <1>15 DEF Overwrite, file, buffer, counters
<1>16. CASE Refuse
  <2>1. saving' = Nobody
        BY <1>16 DEF Refuse, Finish
  <2> QED BY <1>16, <1>n, <2>1, NobodySaves DEF Refuse, file, buffer, counters
<1>17. CASE WriteFails
  <2>1. saving' = Nobody
        BY <1>17 DEF WriteFails, Finish
  <2> QED BY <1>17, <1>n, <2>1, NobodySaves DEF WriteFails, file, buffer
<1>18. CASE Write
  <2>1. disk' \in Content
    <3>1. CASE saving.incremental
          BY <1>18, <3>1, UpdatedContent, CapturedAreChanges DEF Write
    <3>2. CASE ~saving.incremental
          BY <1>18, <3>2 DEF Write, Savings
    <3> QED BY <3>1, <3>2
  <2>2. mtime' = mtime + 1 /\ received.version \in Nat
        BY <1>18 DEF Write, Reads
  <2>3. /\ mtime' \in Nat /\ resourceVersion \in 0 .. mtime' /\ fileVersion \in 0 .. mtime'
        /\ received.version <= mtime'
        BY <2>2
  <2> QED BY <1>18, <2>1, <2>3 DEF Write, buffer, counters
<1>19. UnsavedChanges \in Seq(ContentChange)
       BY DEF UnsavedChanges, Savings
<1>20. ASSUME Saved, UNCHANGED <<file, edits>>, fileVersion' \in 0 .. mtime PROVE Types'
  <2>1. saving' = Nobody /\ contentChanges' \in Seq(ContentChange)
        BY <1>19, <1>20 DEF Saved, Finish
  <2>2. Len(contentChanges') \in Nat
        BY <2>1
  <2> QED BY <1>20, <2>1, <2>2, NobodySaves DEF Saved, file
<1>21. ASSUME FallBack, UNCHANGED <<file, edits>> PROVE Types'
  <2>1. CASE Running.cancelled
        BY <1>20, <1>21, <2>1 DEF FallBack
  <2>2. CASE ~Running.cancelled
    <3>1. saving' \in Savings /\ saving'.changes = saving.changes
          BY <1>21, <2>2 DEF FallBack, Savings
    <3> QED BY <1>21, <2>2, <3>1 DEF FallBack, file, buffer
  <2> QED BY <2>1, <2>2
<1>22. CASE ValidateUpdateFails
       BY <1>21, <1>22 DEF ValidateUpdateFails, counters
<1>23. CASE UpdateFails
       BY <1>21, <1>23 DEF UpdateFails
<1>24. CASE StatWritten
  <2>1. fileVersion' \in 0 .. mtime
        BY <1>24 DEF StatWritten
  <2> QED BY <1>20, <1>24, <2>1 DEF StatWritten, counters
<1>25. CASE UNCHANGED vars
       BY <1>25 DEF vars, file, buffer, queue, counters
<1> QED
    BY <1>1, <1>2, <1>3, <1>4, <1>5, <1>6, <1>7, <1>8, <1>9, <1>10, <1>11, <1>12, <1>13,
       <1>14, <1>15, <1>16, <1>17, <1>18, <1>22, <1>23, <1>24, <1>25 DEF Next, Operate

-------------------------------------------------------------------------------
(***************************************************************************)
(* The bases.                                                              *)
(***************************************************************************)
LEMMA BasesAreNumbers == \A b \in Bases : b \in Nat
BY EditorAssumption DEF Bases

LEMMA KnownInit == Init => KnownInv
<1> SUFFICES ASSUME Init PROVE KnownInv
    OBVIOUS
<1>1. disk.base = 0 /\ text.base = 0 /\ saving.text.base = 0 /\ foreign = 0
      BY DEF Init, Nobody
<1>2. undoable = <<>> /\ received.content = <<>> /\ contentChanges = <<>>
      BY NobodySaves DEF Init
<1> QED BY <1>1, <1>2 DEF KnownInv

\* A step that makes no content of its own.
LEMMA KnownStays ==
    ASSUME Types, KnownInv,
           foreign' \in {foreign, foreign + 1},
           disk'.base \in {disk.base, foreign'},
           UNCHANGED <<text, undoable, contentChanges>>,
           saving'.text \in {saving.text, text, Nobody.text},
           received'.content \in {received.content, <<disk>>, <<>>}
    PROVE  KnownInv'
<1>1. disk.base \in Nat /\ text.base \in Nat /\ saving.text.base \in Nat /\ foreign \in Nat
      BY BasesAreNumbers DEF Types, Content, Savings
<1>2. foreign <= foreign' /\ foreign' \in Nat
      BY <1>1
<1>3. disk'.base <= foreign' /\ text'.base <= foreign' /\ saving'.text.base <= foreign'
      BY <1>1, <1>2 DEF KnownInv, Nobody
<1>4. \A i \in DOMAIN undoable' : undoable'[i].base <= foreign'
  <2> SUFFICES ASSUME NEW i \in DOMAIN undoable PROVE undoable[i].base <= foreign'
      OBVIOUS
  <2>1. undoable[i] \in Content
        BY DEF Types
  <2>2. undoable[i].base \in Nat /\ undoable[i].base <= foreign
        BY <2>1, BasesAreNumbers DEF Content, KnownInv
  <2> QED BY <1>1, <1>2, <2>2
<1>5. \A i \in DOMAIN contentChanges' : contentChanges'[i].to <= foreign'
  <2> SUFFICES ASSUME NEW i \in DOMAIN contentChanges PROVE contentChanges[i].to <= foreign'
      OBVIOUS
  <2>1. contentChanges[i] \in ContentChange
        BY DEF Types
  <2>2. contentChanges[i].to \in Nat /\ contentChanges[i].to <= foreign
        BY <2>1, BasesAreNumbers DEF ContentChange, KnownInv
  <2> QED BY <1>1, <1>2, <2>2
<1>6. \A i \in DOMAIN received'.content : received'.content[i].base <= foreign'
  <2>1. CASE received'.content = received.content
    <3> SUFFICES ASSUME NEW i \in DOMAIN received.content PROVE received.content[i].base <= foreign'
        BY <2>1
    <3>1. received.content[i] \in Content
          BY DEF Types, Reads
    <3>2. received.content[i].base \in Nat /\ received.content[i].base <= foreign
          BY <3>1, BasesAreNumbers DEF Content, KnownInv
    <3> QED BY <1>1, <1>2, <3>2
  <2>2. CASE received'.content = <<disk>>
        BY <1>1, <1>2, <2>2 DEF KnownInv
  <2>3. CASE received'.content = <<>>
        BY <2>3
  <2> QED BY <2>1, <2>2, <2>3
<1> QED BY <1>3, <1>4, <1>5, <1>6 DEF KnownInv

\* A change by the user to a text with a known base.
LEMMA KnownChanges ==
    ASSUME Types, KnownInv, NEW new \in Content, new.base <= foreign, DidChangeContent(new),
           UNCHANGED <<disk, foreign, received>>,
           \A i \in DOMAIN undoable' : undoable'[i].base <= foreign
    PROVE  KnownInv'
<1>1. /\ text' = new /\ UNCHANGED saving
      /\ contentChanges' = Append(contentChanges, [from |-> text.base, to |-> new.base,
                                                    toggled |-> SymDiff(text.edits, new.edits)])
      BY DEF DidChangeContent
<1>2. \A i \in DOMAIN contentChanges' : contentChanges'[i].to <= foreign
      BY <1>1 DEF Types, KnownInv
<1> QED BY <1>1, <1>2 DEF KnownInv

LEMMA KnownNext == Types /\ KnownInv /\ [Next]_vars => KnownInv'
<1> SUFFICES ASSUME Types, KnownInv, [Next]_vars PROVE KnownInv'
    OBVIOUS
<1> USE DEF file, resource
<1>n. NotRead.content = <<>>
      BY NobodySaves
<1>1. CASE Edit
  <2>1. [text EXCEPT !.edits = @ \cup {edits'}].base <= foreign
        BY <1>1, EditedText DEF KnownInv
  <2>2. \A i \in DOMAIN undoable' : undoable'[i].base <= foreign
        BY <1>1 DEF Edit, Types, KnownInv
  <2> QED BY <1>1, <2>1, <2>2, EditedText, KnownChanges DEF Edit
<1>2. CASE Undo
  <2>1. undoable # <<>> /\ undoable \in Seq(Content) /\ undoable' = Front(undoable)
        BY <1>2 DEF Undo, Types
  <2>2. Last(undoable).base <= foreign
    <3>1. Len(undoable) \in DOMAIN undoable
          BY <2>1
    <3> QED BY <3>1 DEF KnownInv, Last
  <2>3. \A i \in DOMAIN undoable' : undoable'[i].base <= foreign
    <3>1. \A i \in DOMAIN undoable' : i \in DOMAIN undoable /\ undoable'[i] = undoable[i]
          BY <2>1 DEF Front
    <3> QED BY <3>1 DEF KnownInv
  <2> QED BY <1>2, <2>2, <2>3, UndoneText, KnownChanges DEF Undo
<1>3. CASE Load
  <2>1. /\ received.content # <<>> /\ saving' = Nobody /\ received' = NotRead
        /\ UNCHANGED <<disk, foreign, contentChanges>>
        BY <1>3 DEF Load, EndSync, Finish
  <2>2. Head(received.content).base <= foreign
        BY <2>1 DEF KnownInv, Types, Reads
  <2>3. CASE text' = Head(received.content) /\ undoable' = Append(undoable, text)
    <3>1. \A i \in DOMAIN undoable' : undoable'[i].base <= foreign
          BY <2>3 DEF KnownInv, Types
    <3>2. Nobody.text.base <= foreign
          BY DEF Nobody, Types, Bases
    <3> QED BY <1>n, <2>1, <2>2, <2>3, <3>1, <3>2 DEF KnownInv
  <2>4. CASE UNCHANGED <<text, undoable>>
        BY <1>n, <2>1, <2>4, KnownStays
  <2> QED BY <1>3, <2>3, <2>4 DEF Load
<1>4. CASE ForeignChange
      BY <1>4, KnownStays DEF ForeignChange, buffer, queue
<1>5. CASE ReadContent \/ StatRead
  <2>1. received'.content \in {received.content, <<disk>>, <<>>}
        BY <1>5 DEF ReadContent, StatRead, Types, Reads
  <2> QED BY <1>5, <2>1, KnownStays DEF ReadContent, StatRead, buffer, queue
<1>6. CASE Revert \/ (\E manual \in BOOLEAN : Save(manual)) \/ Watching \/ Start \/ StartCancelled
  <2>1. /\ UNCHANGED <<disk, foreign, text, undoable, contentChanges, received>>
        /\ saving' = saving \/ saving' = Nobody
        BY <1>6 DEF Revert, Save, Watching, FilesChanged, Synchronize, Start, StartCancelled, EndSync,
                    Finish, buffer, queue
  <2> QED BY <2>1, KnownStays
<1>7. CASE ReadVersion \/ Validate \/ ValidateFails \/ Overwrite \/ Refuse \/ WriteFails
  <2>1. /\ UNCHANGED <<disk, foreign, text, undoable, contentChanges, received>>
        /\ saving' = saving \/ saving' = Nobody
        BY <1>7 DEF ReadVersion, Validate, ValidateFails, Overwrite, Refuse, WriteFails, Finish, buffer
  <2> QED BY <2>1, KnownStays
<1>8. CASE Prepare
  <2>1. UNCHANGED <<disk, foreign, text, undoable, contentChanges, received>>
        BY <1>8 DEF Prepare, buffer
  <2>2. saving'.text = text \/ saving' = Nobody
        BY <1>8 DEF Prepare, Finish
  <2> QED BY <2>1, <2>2, KnownStays
<1>9. CASE Write
  <2>1. UNCHANGED <<foreign, text, undoable, contentChanges, received, saving>>
        BY <1>9 DEF Write, buffer
  <2>2. disk'.base <= foreign
    <3>1. CASE ~saving.incremental
          BY <1>9, <3>1 DEF Write, KnownInv
    <3>2. CASE saving.incremental /\ ~Rebases(CapturedChanges)
          BY <1>9, <3>2 DEF Write, Updated, KnownInv
    <3>3. CASE saving.incremental /\ Rebases(CapturedChanges)
      <4>1. disk'.base = Last(CapturedChanges).to
            BY <1>9, <3>3 DEF Write, Updated
      <4>2. CapturedChanges # <<>> /\ CapturedChanges \in Seq(ContentChange)
            BY <3>3, CapturedAreChanges DEF Rebases
      <4>3. Len(CapturedChanges) \in DOMAIN CapturedChanges
            BY <4>2
      <4>4. \A i \in DOMAIN CapturedChanges :
                i \in DOMAIN contentChanges /\ CapturedChanges[i] = contentChanges[i]
            BY DEF CapturedChanges, Types, Savings
      <4> QED BY <4>1, <4>3, <4>4 DEF KnownInv, Last
    <3> QED BY <3>1, <3>2, <3>3
  <2> QED BY <2>1, <2>2 DEF KnownInv
<1>10. ASSUME Saved, UNCHANGED <<disk, foreign>> PROVE KnownInv'
  <2>1. UNCHANGED <<text, undoable, received>> /\ saving' = Nobody /\ contentChanges' = UnsavedChanges
        BY <1>10 DEF Saved, Finish
  <2>2. \A i \in DOMAIN UnsavedChanges : UnsavedChanges[i].to <= foreign
    <3> SUFFICES ASSUME NEW i \in DOMAIN UnsavedChanges PROVE UnsavedChanges[i].to <= foreign
        OBVIOUS
    <3>1. saving.changes \in Nat /\ Len(contentChanges) \in Nat /\ saving.changes <= Len(contentChanges)
          BY DEF Types, Savings
    <3>2. /\ i \in 1 .. Len(contentChanges) - saving.changes
          /\ UnsavedChanges[i] = contentChanges[saving.changes + 1 + i - 1]
          BY <3>1 DEF UnsavedChanges, Types
    <3>3. saving.changes + 1 + i - 1 \in DOMAIN contentChanges
          BY <3>1, <3>2 DEF Types
    <3> QED BY <3>2, <3>3 DEF KnownInv
  <2>3. Nobody.text.base <= foreign
        BY DEF Nobody, Types, Bases
  <2> QED BY <1>10, <2>1, <2>2, <2>3 DEF KnownInv
<1>11. ASSUME FallBack, UNCHANGED <<disk, foreign>> PROVE KnownInv'
  <2>1. CASE Running.cancelled
        BY <1>10, <1>11, <2>1 DEF FallBack
  <2>2. CASE ~Running.cancelled
    <3>1. saving'.text = saving.text
          BY <1>11, <2>2 DEF FallBack, Types, Savings
    <3> QED BY <1>11, <2>2, <3>1, KnownStays DEF FallBack, buffer
  <2> QED BY <2>1, <2>2
<1>12. CASE ValidateUpdateFails \/ UpdateFails
       BY <1>11, <1>12 DEF ValidateUpdateFails, UpdateFails
<1>13. CASE StatWritten
       BY <1>10, <1>13 DEF StatWritten
<1>14. CASE UNCHANGED vars
       BY <1>14, KnownStays DEF vars, buffer, queue
<1> QED
    BY <1>1, <1>2, <1>3, <1>4, <1>5, <1>6, <1>7, <1>8, <1>9, <1>12, <1>13, <1>14 DEF Next, Operate

-------------------------------------------------------------------------------
(***************************************************************************)
(* Versions and changes.                                                   *)
(***************************************************************************)
LEMMA VersionsInit == Init => VersionInv
<1> SUFFICES ASSUME Init PROVE VersionInv
    OBVIOUS
<1>1. received = NotRead /\ received.content = <<>> /\ step = "idle"
      BY NobodySaves DEF Init
<1>2. disk.base = text.base /\ disk.base \in Nat /\ dirty = FALSE
      BY DEF Init
<1> QED BY <1>1, <1>2
        DEF VersionInv, CapturedInv, WritingInv, ReadInv, VersionBelongsToText, DirtyHasChanges, Locked

\* A change by the user appends to what the save has captured.
LEMMA ChangeKeepsVersions ==
    ASSUME Types, VersionInv, NEW new \in Content, DidChangeContent(new),
           \A b \in Bases : new.base < b /\ b <= text.base => b \in undone',
           undone \subseteq undone',
           UNCHANGED <<file, resourceVersion, resource, consented, raced, torn, skipped, misapplied>>
    PROVE  VersionInv'
<1> USE DEF VersionInv, Types, file, resource
<1>1. /\ text' = new /\ Len(contentChanges') = Len(contentChanges) + 1
      /\ Len(contentChanges) \in Nat /\ saving.changes \in Nat /\ UNCHANGED <<step, saving>>
      BY ChangedTypes DEF DidChangeContent, Savings
<1>2. /\ disk.base \in Bases /\ new.base \in Bases /\ text.base \in Bases
      /\ saving.text.base \in Bases
      BY DEF Content, Savings
<1>n. disk.base \in Nat /\ new.base \in Nat /\ text.base \in Nat /\ saving.text.base \in Nat
      BY <1>2, BasesAreNumbers
<1>3. \A b : Unforeseen(b) => Unforeseen(b)'
      BY DEF Unforeseen
<1>4. \A b : b \in undone' => Unforeseen(b)'
      BY DEF Unforeseen
<1>5. WentBack => WentBack'
  <2> SUFFICES ASSUME WentBack, NEW b \in Bases, new.base < b, b <= saving.text.base
               PROVE  b \in undone'
      BY <1>1 DEF WentBack
  <2>1. CASE text.base < b
        BY <2>1 DEF WentBack
  <2>2. CASE ~(text.base < b)
    <3>1. b \in Nat
          BY BasesAreNumbers
    <3>2. b <= text.base
          BY <1>n, <2>2, <3>1
    <3> QED BY <3>2
  <2> QED BY <2>1, <2>2
<1>6. CapturedInv'
  <2>1. saving.changes < Len(contentChanges')
        BY <1>1
  <2> QED BY <1>1, <1>5, <2>1 DEF CapturedInv, Locked
<1>7. disk.base > new.base => disk.base > text.base \/ disk.base \in undone'
  <2>1. disk.base > new.base /\ ~(disk.base > text.base) => disk.base <= text.base /\ new.base < disk.base
        BY <1>n
  <2> QED BY <1>2, <2>1
<1>8. WritingInv'
  <2>1. /\ step = "validating" /\ disk.base > saving.text.base =>
               resourceVersion < mtime \/ Unforeseen(disk.base)'
        /\ step = "writing" /\ disk.base > saving.text.base =>
               Unforeseen(disk.base)' \/ (~saving.incremental /\ disk.base \in consented)
        /\ step = "stating" => resourceVersion < mtime
        BY <1>3 DEF WritingInv
  <2>2. step = "stating" /\ disk.base > new.base => Unforeseen(disk.base)'
        BY <1>3, <1>4, <1>7 DEF WritingInv
  <2> QED BY <1>1, <2>1, <2>2 DEF WritingInv
<1>9. VersionBelongsToText'
  <2>1. disk.base > new.base => resourceVersion < mtime \/ Unforeseen(disk.base)'
        BY <1>3, <1>4, <1>7 DEF VersionBelongsToText
  <2> QED BY <1>1, <2>1 DEF VersionBelongsToText
<1>10. ReadInv'
       BY <1>1 DEF ReadInv
<1>11. DirtyHasChanges'
       BY <1>1 DEF DirtyHasChanges
<1> QED BY <1>6, <1>8, <1>9, <1>10, <1>11

\* What is left when a save is over.
LEMMA SavedKeepsChanges ==
    ASSUME Types, VersionInv, Locked, Saved
    PROVE  /\ DirtyHasChanges'
           /\ step' = "idle" /\ UNCHANGED <<text, received>> /\ resourceVersion' = fileVersion'
<1> USE DEF VersionInv, Types
<1>1. CASE Running.cancelled /\ OtherVersion
  <2>1. saving.changes < Len(contentChanges) /\ saving.changes \in Nat
        BY <1>1 DEF CapturedInv, Savings
  <2>2. Len(contentChanges') = Len(contentChanges) - saving.changes
        BY <2>1 DEF Saved, UnsavedChanges
  <2> QED BY <2>1, <2>2 DEF Saved, Finish, DirtyHasChanges
<1>2. CASE ~(Running.cancelled /\ OtherVersion)
      BY <1>2 DEF Saved, Clean, Finish, DirtyHasChanges
<1> QED BY <1>1, <1>2

\* A step that ends an operation, loads nothing and writes nothing.
LEMMA EndedKeepsVersions ==
    ASSUME Types, VersionInv, step' = "idle", received' = NotRead, dirty' => dirty,
           UNCHANGED <<file, text, contentChanges, resourceVersion, history>>
    PROVE  VersionInv'
<1> USE DEF VersionInv, file, history
<1>1. received'.content = <<>>
      BY NobodySaves
<1>2. VersionBelongsToText' /\ DirtyHasChanges'
      BY DEF VersionBelongsToText, Unforeseen, DirtyHasChanges
<1> QED BY <1>1, <1>2 DEF CapturedInv, Locked, WritingInv, ReadInv

\* A step of a save that writes nothing and takes it no nearer to the file.
LEMMA SameSave ==
    ASSUME Types, VersionInv, UNCHANGED <<file, text, undoable, contentChanges, dirty, saving,
                                          resourceVersion, resource, history>>
    PROVE  /\ ReadInv' \/ {step, step'} \cap {"reading", "loading"} # {}
           /\ VersionBelongsToText' /\ DirtyHasChanges'
           /\ Locked => (CapturedInv' \/ (step' = "asking" /\ saving.incremental))
           /\ Unforeseen(disk.base)' = Unforeseen(disk.base)
<1> USE DEF VersionInv, file, resource, history
<1>1. Unforeseen(disk.base)' = Unforeseen(disk.base)
      BY DEF Unforeseen
<1>2. VersionBelongsToText' /\ DirtyHasChanges'
      BY <1>1 DEF VersionBelongsToText, DirtyHasChanges
<1>3. WentBack' = WentBack /\ OtherVersion' = OtherVersion
      BY DEF WentBack, OtherVersion, Position
<1>4. Locked => (CapturedInv' \/ (step' = "asking" /\ saving.incremental))
      BY <1>3 DEF CapturedInv
<1>5. ReadInv' \/ {step, step'} \cap {"reading", "loading"} # {}
      BY DEF ReadInv
<1> QED BY <1>1, <1>2, <1>4, <1>5

LEMMA VersionsNext == Types /\ VersionInv /\ [Next]_vars => VersionInv'
<1> SUFFICES ASSUME Types, VersionInv, [Next]_vars PROVE VersionInv'
    OBVIOUS
<1> USE EditorAssumption DEF Types, VersionInv, resource
<1>b. /\ disk.base \in Bases /\ text.base \in Bases /\ saving.text.base \in Bases
      BY DEF Content, Savings
<1>n. disk.base \in Nat /\ text.base \in Nat /\ saving.text.base \in Nat
      BY <1>b, BasesAreNumbers
<1>1. CASE Edit
  <2>1. /\ DidChangeContent([text EXCEPT !.edits = @ \cup {edits'}])
        /\ UNCHANGED <<file, resourceVersion, resource, history>>
        BY <1>1 DEF Edit
  <2>2. \A b \in Bases : ~(text.base < b /\ b <= text.base)
        BY <1>n, BasesAreNumbers
  <2> QED BY <1>1, <2>1, <2>2, EditedText, ChangeKeepsVersions DEF history
<1>2. CASE Undo
  <2>1. Last(undoable) \in Content /\ Last(undoable).base \in Bases
        BY <1>2, UndoneText DEF Content
  <2>2. \A b \in Bases : Last(undoable).base < b /\ b <= text.base => b \in undone'
    <3>1. undone' = undone \cup (Last(undoable).base + 1) .. text.base
          BY <1>2 DEF Undo
    <3>2. Last(undoable).base \in Nat
          BY <2>1, BasesAreNumbers
    <3> QED BY <1>n, <3>1, <3>2, BasesAreNumbers
  <2>3. /\ DidChangeContent(Last(undoable)) /\ undone \subseteq undone'
        /\ UNCHANGED <<file, resourceVersion, resource, consented, raced, torn, skipped, misapplied>>
        BY <1>2 DEF Undo
  <2> QED BY <2>1, <2>2, <2>3, ChangeKeepsVersions
<1>3. ASSUME UNCHANGED <<file, text, undoable, contentChanges, resourceVersion, step, saving, resource,
                         history>>,
             dirty' => dirty
      PROVE  VersionInv'
  <2>1. Unforeseen(disk.base)' = Unforeseen(disk.base) /\ WentBack' = WentBack
            /\ OtherVersion' = OtherVersion /\ Locked' = Locked
        BY <1>3 DEF Unforeseen, WentBack, OtherVersion, Position, Locked, file, history
  <2>2. CapturedInv' /\ DirtyHasChanges'
        BY <1>3, <2>1 DEF CapturedInv, DirtyHasChanges
  <2>3. WritingInv' /\ VersionBelongsToText'
        BY <1>3, <2>1 DEF WritingInv, VersionBelongsToText, file, history
  <2>4. ReadInv'
        BY <1>3 DEF ReadInv, file, history
  <2> QED BY <2>2, <2>3, <2>4
<1>4. CASE Revert
      BY <1>3, <1>4 DEF Revert
<1>5. ASSUME NEW manual \in BOOLEAN, Save(manual) PROVE VersionInv'
      BY <1>3, <1>5 DEF Save, buffer
<1>6. CASE Watching
  <2>1. UNCHANGED <<file, buffer, resourceVersion, step, saving, resource, history>>
        BY <1>6 DEF Watching, FilesChanged, Synchronize, queue
  <2> QED BY <1>3, <2>1 DEF buffer
<1>7. CASE UNCHANGED vars
      BY <1>3, <1>7 DEF vars, buffer, queue
<1>8. CASE ForeignChange
  <2>1. /\ disk'.base = foreign' /\ mtime' = mtime + 1
        /\ UNCHANGED <<text, undoable, dirty, contentChanges, resourceVersion, step, saving,
                       received, fileVersion, consented, undone, skipped, misapplied>>
        /\ step \in {"writing", "stating"} => foreign' \in raced'
        /\ HalfRead => foreign' \in torn'
        BY <1>8 DEF ForeignChange, buffer, queue
  <2>2. resourceVersion < mtime'
        BY <2>1
  <2>3. WentBack' = WentBack /\ OtherVersion' = OtherVersion /\ Locked' = Locked
        BY <2>1 DEF WentBack, OtherVersion, Position, Locked
  <2>4. CapturedInv' /\ DirtyHasChanges'
        BY <2>1, <2>3 DEF CapturedInv, DirtyHasChanges
  <2>5. step \in {"writing", "stating"} => Unforeseen(disk.base)'
        BY <2>1 DEF Unforeseen
  <2>6. WritingInv' /\ VersionBelongsToText'
        BY <2>1, <2>2, <2>5 DEF WritingInv, VersionBelongsToText
  <2>7. ReadInv'
    <3>1. received.content # <<>> /\ received.version = Nothing => HalfRead
          BY NobodySaves DEF ReadInv, HalfRead
    <3>2. received.version < mtime'
          BY <2>1 DEF Reads
    <3> QED BY <2>1, <3>1, <3>2 DEF ReadInv
  <2> QED BY <2>4, <2>6, <2>7
<1>9. CASE Start
  <2>1. UNCHANGED <<file, text, undoable, contentChanges, dirty, saving, resourceVersion, resource, history>>
            /\ step = "idle" /\ step' \in {"willSave", "reading"}
        BY <1>9 DEF Start, buffer
  <2>2. received = NotRead
        BY <2>1 DEF ReadInv
  <2>3. ReadInv'
        BY <2>1, <2>2, NobodySaves DEF ReadInv
  <2> QED BY <2>1, <2>3, SameSave DEF CapturedInv, Locked, WritingInv
<1>10. CASE StartCancelled
  <2>1. step' = "idle" /\ (dirty' => dirty) /\ step = "idle"
        BY <1>10 DEF StartCancelled, EndSync, Finish
  <2>2. received' = NotRead
        BY <1>10, <2>1 DEF StartCancelled, ReadInv
  <2> QED BY <1>10, <2>1, <2>2, EndedKeepsVersions DEF StartCancelled
<1>11. CASE ReadContent \/ StatRead
  <2>1. UNCHANGED <<file, text, undoable, contentChanges, dirty, resourceVersion, step, saving,
                    fileVersion, history>>
            /\ step \in {"reading", "loading"}
        BY <1>11 DEF ReadContent, StatRead, buffer, queue
  <2>2. ReadInv'
    <3>1. CASE ReadContent
      <4>1. received' = [received EXCEPT !.content = <<disk>>]
            BY <3>1 DEF ReadContent
      <4>2. received'.content[1] = disk /\ received'.version = received.version
            BY <4>1 DEF Reads
      <4>3. ~(disk.base > disk.base)
            BY <1>n
      <4> QED BY <2>1, <4>2, <4>3 DEF ReadInv, file, history
    <3>2. CASE StatRead
      <4>1. received' = [received EXCEPT !.version = mtime] /\ received.version = Nothing /\ step = "reading"
            BY <3>2 DEF StatRead
      <4>2. received'.content = received.content
            BY <4>1 DEF Reads
      <4> QED BY <2>1, <4>1, <4>2 DEF ReadInv, file, history
    <3> QED BY <1>11, <3>1, <3>2
  <2>3. Unforeseen(disk.base)' = Unforeseen(disk.base)
        BY <2>1 DEF Unforeseen, file, history
  <2> QED BY <2>1, <2>2, <2>3
          DEF CapturedInv, Locked, WritingInv, VersionBelongsToText, DirtyHasChanges, file
<1>12. CASE ReadVersion
  <2>1. UNCHANGED <<file, text, undoable, contentChanges, dirty, resourceVersion, saving, received, history>>
            /\ step = "reading" /\ step' = "loading" /\ fileVersion' = received.version
            /\ received.version # Nothing
        BY <1>12 DEF ReadVersion, buffer
  <2>2. Unforeseen(disk.base)' = Unforeseen(disk.base)
        BY <2>1 DEF Unforeseen, file, history
  <2> QED BY <2>1, <2>2
          DEF CapturedInv, Locked, WritingInv, ReadInv, VersionBelongsToText, DirtyHasChanges, file, history
<1>13. CASE Load
  <2>1. step' = "idle" /\ (dirty' => dirty) /\ received' = NotRead /\ step = "loading"
             /\ received.content # <<>>
             /\ UNCHANGED <<file, contentChanges, history>>
        BY <1>13 DEF Load, EndSync, Finish
  <2>2. received'.content = <<>>
        BY <2>1, NobodySaves
  <2>3. Unforeseen(disk.base)' = Unforeseen(disk.base)
        BY <2>1 DEF Unforeseen, file, history
  <2>4. VersionBelongsToText'
    <3>1. CASE MayLoad
      <4>1. text' = received.content[1] /\ resourceVersion' = fileVersion
            BY <1>13, <3>1 DEF Load, VersionAfterSync
      <4>2. disk.base > received.content[1].base => disk.base \in torn \/ fileVersion < mtime
            BY <2>1 DEF ReadInv
      <4> QED BY <2>1, <2>3, <4>1, <4>2 DEF VersionBelongsToText, Unforeseen, file
    <3>2. CASE ~MayLoad
          BY <1>13, <2>1, <2>3, <3>2 DEF Load, VersionAfterSync, file, VersionBelongsToText
    <3> QED BY <3>1, <3>2
  <2> QED BY <2>1, <2>2, <2>4 DEF CapturedInv, Locked, WritingInv, ReadInv, DirtyHasChanges
<1>14. CASE Prepare
  <2>1. UNCHANGED <<file, buffer, resourceVersion, resource, history>> /\ step = "willSave"
        BY <1>14 DEF Prepare
  <2>2. received = NotRead
        BY <2>1 DEF ReadInv
  <2>3. CASE Finish
        BY <2>1, <2>2, <2>3, EndedKeepsVersions DEF Finish, buffer
  <2>4. CASE ~Finish
    <3>1. step' = "validating"
          BY <1>14, <2>4 DEF Prepare
    <3>2. PICK incremental \in BOOLEAN :
              saving' = [text |-> text, changes |-> Len(contentChanges), version |-> resourceVersion,
                         position |-> Position, incremental |-> incremental]
          BY <1>14, <2>4 DEF Prepare, VersionToSave
    <3>3. Unforeseen(disk.base)' = Unforeseen(disk.base)
          BY <2>1 DEF Unforeseen, file, history
    <3>4. WentBack'
      <4>1. \A b \in Bases : ~(text.base < b /\ b <= text.base)
            BY <1>n, BasesAreNumbers
      <4> QED BY <2>1, <3>2, <4>1 DEF WentBack, buffer
    <3>5. ~OtherVersion'
          BY <2>1, <3>2 DEF OtherVersion, Position, buffer
    <3>6. CapturedInv'
          BY <2>1, <3>1, <3>2, <3>4, <3>5 DEF CapturedInv
    <3>7. VersionBelongsToText' /\ DirtyHasChanges'
          BY <2>1, <3>3 DEF VersionBelongsToText, DirtyHasChanges, file, buffer
    <3>8. WritingInv'
          BY <2>1, <3>1, <3>2, <3>3 DEF WritingInv, VersionBelongsToText, file
    <3>9. ReadInv'
          BY <2>1, <2>2, <3>1, NobodySaves DEF ReadInv
    <3> QED BY <3>6, <3>7, <3>8, <3>9
  <2> QED BY <2>3, <2>4
<1>15. CASE Validate \/ ValidateFails
  <2>1. /\ step = "validating" /\ Locked
        /\ UNCHANGED <<file, text, undoable, contentChanges, dirty, saving, resourceVersion, resource, history>>
        BY <1>15 DEF Validate, ValidateFails, Locked, buffer
  <2>2. /\ step' \in {"writing", "asking"}
        /\ step' = "asking" => ~saving.incremental
        /\ step' = "writing" => ~(resourceVersion < mtime)
        BY <1>15, <2>1 DEF Validate, ValidateFails, ModifiedSince, CapturedInv
  <2>3. CapturedInv' /\ ReadInv' /\ VersionBelongsToText' /\ DirtyHasChanges'
        BY <2>1, <2>2, SameSave
  <2>4. Unforeseen(disk.base)' = Unforeseen(disk.base)
        BY <2>1, SameSave
  <2>5. WritingInv'
        BY <2>1, <2>2, <2>4 DEF WritingInv, file
  <2> QED BY <2>3, <2>5
<1>16. CASE Overwrite
  <2>1. /\ step = "asking" /\ step' = "writing" /\ disk.base \in consented' /\ ~saving.incremental
        /\ UNCHANGED <<file, text, undoable, dirty, contentChanges, resourceVersion, resource, saving,
                       undone, raced, torn, skipped, misapplied>>
        BY <1>16 DEF Overwrite, buffer, CapturedInv
  <2>2. Unforeseen(disk.base)' = Unforeseen(disk.base) /\ WentBack' = WentBack
            /\ OtherVersion' = OtherVersion
        BY <2>1 DEF Unforeseen, file, WentBack, OtherVersion, Position
  <2>3. CapturedInv' /\ DirtyHasChanges'
        BY <2>1, <2>2 DEF CapturedInv, Locked, DirtyHasChanges
  <2>4. WritingInv' /\ VersionBelongsToText'
        BY <2>1, <2>2 DEF WritingInv, VersionBelongsToText, file
  <2>5. ReadInv'
        BY <2>1, NobodySaves DEF ReadInv, file
  <2> QED BY <2>3, <2>4, <2>5
<1>17. CASE Refuse
  <2>1. received' = NotRead
        BY <1>17 DEF Refuse, ReadInv
  <2> QED BY <1>17, <2>1, EndedKeepsVersions DEF Refuse, Finish, buffer
<1>18. CASE WriteFails
  <2>1. received' = NotRead
        BY <1>18 DEF WriteFails, ReadInv
  <2> QED BY <1>18, <2>1, EndedKeepsVersions DEF WriteFails, Finish, buffer
<1>19. CASE Write
  <2>1. /\ step = "writing" /\ step' = "stating" /\ mtime' = mtime + 1
        /\ misapplied' = (misapplied \/ Misapplied)
        /\ UNCHANGED <<text, undoable, dirty, contentChanges, resourceVersion, saving, resource,
                       consented, undone, raced, torn, skipped>>
        BY <1>19 DEF Write, buffer
  <2>2. Locked /\ Locked' /\ WentBack' = WentBack /\ OtherVersion' = OtherVersion
        BY <2>1 DEF WentBack, OtherVersion, Position, Locked
  <2>3. CapturedInv' /\ DirtyHasChanges'
        BY <2>1, <2>2 DEF CapturedInv, DirtyHasChanges
  <2>4. resourceVersion < mtime'
        BY <2>1
  <2>5. \A b \in Bases : text.base < b /\ b <= saving.text.base => b \in undone
        BY <2>2 DEF CapturedInv, WentBack
  <2>7. disk'.base > text.base => Unforeseen(disk.base)'
    <3>1. CASE disk'.base = saving.text.base
      <4>1. saving.text.base > text.base => text.base < saving.text.base /\ saving.text.base <= saving.text.base
            BY <1>n
      <4>2. saving.text.base > text.base => saving.text.base \in undone
            BY <1>b, <2>5, <4>1
      <4> QED BY <2>1, <3>1, <4>2 DEF Unforeseen
    <3>2. CASE disk'.base = disk.base /\ saving.incremental
      <4>1. CASE disk.base > saving.text.base
            BY <2>1, <3>2, <4>1 DEF WritingInv, Unforeseen
      <4>2. CASE ~(disk.base > saving.text.base)
        <5>1. disk.base > text.base => disk.base \in undone
          <6>1. disk.base > text.base => text.base < disk.base /\ disk.base <= saving.text.base
                BY <1>n, <4>2
          <6> QED BY <1>b, <2>2, <6>1 DEF CapturedInv, WentBack
        <5> QED BY <2>1, <3>2, <5>1 DEF Unforeseen
      <4> QED BY <4>1, <4>2
    <3>3. CASE Misapplied
          BY <2>1, <3>3 DEF Unforeseen
    <3>4. disk'.base = saving.text.base \/ (disk'.base = disk.base /\ saving.incremental) \/ Misapplied
      <4>1. CASE saving.incremental
        <5>1. disk' = Updated(disk, CapturedChanges) /\ CapturedChanges \in Seq(ContentChange)
              BY <1>19, <4>1, CapturedAreChanges DEF Write
        <5> QED BY <4>1, <5>1, UpdatedContent DEF Misapplied
      <4>2. CASE ~saving.incremental
            BY <1>19, <4>2 DEF Write
      <4> QED BY <4>1, <4>2
    <3> QED BY <3>1, <3>2, <3>3, <3>4
  <2>8. WritingInv' /\ VersionBelongsToText'
        BY <2>1, <2>4, <2>7 DEF WritingInv, VersionBelongsToText
  <2>9. ReadInv'
        BY <2>1, NobodySaves DEF ReadInv
  <2> QED BY <2>3, <2>8, <2>9
<1>20. ASSUME FallBack, step \in {"validating", "writing", "stating"}, saving.incremental,
              UNCHANGED <<file, consented, undone, raced, torn, misapplied>>
       PROVE  VersionInv'
  <2>1. received = NotRead /\ Locked
        BY <1>20 DEF ReadInv, Locked
  <2>2. CASE Running.cancelled
    <3>1. skipped' = TRUE /\ Saved
          BY <1>20, <2>2 DEF FallBack
    <3>2. DirtyHasChanges' /\ step' = "idle" /\ received' = NotRead
          BY <2>1, <3>1, SavedKeepsChanges
    <3>3. \A b : Unforeseen(b)'
          BY <3>1 DEF Unforeseen
    <3> QED BY <3>2, <3>3, NobodySaves
            DEF CapturedInv, Locked, WritingInv, ReadInv, VersionBelongsToText
  <2>3. CASE ~Running.cancelled
    <3>1. step' = "validating" /\ saving' = [saving EXCEPT !.incremental = FALSE]
          BY <1>20, <2>3 DEF FallBack
    <3>2. saving'.text = saving.text /\ saving'.version = saving.version
             /\ saving'.changes = saving.changes /\ saving'.position = saving.position
          BY <3>1 DEF Savings
    <3>3. UNCHANGED <<file, text, undoable, dirty, contentChanges, resourceVersion, received,
                      undone, raced, torn, skipped, misapplied>>
          BY <1>20, <2>3 DEF FallBack, buffer
    <3>4. Unforeseen(disk.base)' = Unforeseen(disk.base) /\ WentBack' = WentBack
              /\ OtherVersion' = OtherVersion
          BY <3>2, <3>3 DEF Unforeseen, file, WentBack, OtherVersion, Position
    <3>5. CapturedInv' /\ DirtyHasChanges'
          BY <2>1, <3>1, <3>2, <3>3, <3>4 DEF CapturedInv, DirtyHasChanges
    <3>6. WritingInv' /\ VersionBelongsToText'
          BY <1>20, <3>1, <3>2, <3>3, <3>4 DEF WritingInv, VersionBelongsToText, file
    <3>7. ReadInv'
          BY <2>1, <3>1, <3>3, NobodySaves DEF ReadInv
    <3> QED BY <3>5, <3>6, <3>7
  <2> QED BY <2>2, <2>3
<1>21. CASE ValidateUpdateFails
       BY <1>20, <1>21 DEF ValidateUpdateFails
<1>22. CASE UpdateFails
       BY <1>20, <1>22 DEF UpdateFails
<1>23. CASE StatWritten
  <2>1. step = "stating" /\ Locked /\ Saved /\ UNCHANGED <<file, history>>
        BY <1>23 DEF StatWritten, Locked
  <2>2. DirtyHasChanges' /\ step' = "idle" /\ UNCHANGED <<text, received>>
        BY <2>1, SavedKeepsChanges
  <2>3. received' = NotRead
        BY <2>1, <2>2 DEF ReadInv
  <2>4. Unforeseen(disk.base)' = Unforeseen(disk.base)
        BY <2>1 DEF Unforeseen, file, history
  <2>5. VersionBelongsToText'
        BY <2>1, <2>2, <2>4 DEF WritingInv, VersionBelongsToText, file
  <2> QED BY <2>2, <2>3, <2>5, NobodySaves DEF CapturedInv, Locked, WritingInv, ReadInv
<1> QED
    BY <1>1, <1>2, <1>4, <1>5, <1>6, <1>7, <1>8, <1>9, <1>10, <1>11, <1>12, <1>13, <1>14, <1>15,
       <1>16, <1>17, <1>18, <1>19, <1>21, <1>22, <1>23 DEF Next, Operate

LEMMA Invariance == Spec => []IInv
<1>1. Init => IInv
      BY TypesInit, KnownInit, VersionsInit DEF IInv
<1>2. IInv /\ [Next]_vars => IInv'
      BY TypesNext, KnownNext, VersionsNext DEF IInv
<1> QED BY <1>1, <1>2, PTL DEF Spec

-------------------------------------------------------------------------------
(***************************************************************************)
(* The operations that wait, and how often the file was written.           *)
(***************************************************************************)
SavesIn(q) == {i \in DOMAIN q : q[i].op = "save"}

SaveSteps == {"willSave", "validating", "asking", "writing", "stating"}

\* A save that waits or runs writes once more, unless it has written already.  An
\* update that took effect and failed is followed by another write.
WritesInv == mtime + Cardinality(SavesIn(operations))
                 <= 1 + foreign + saves + failures + (IF step = "stating" THEN 1 ELSE 0)

\* One operation runs, and only a save that runs has captured anything.
QueueInv ==
    /\ operations \in Seq(Operation) /\ step \in Steps
    /\ step # "idle" => operations # <<>>
    /\ step \in SaveSteps => operations[1].op = "save"
    /\ ~Locked => saving = Nobody
    /\ saves \in 0 .. MaxSaves /\ failures \in 0 .. MaxFailures
    /\ WritesInv

\* The bounds and flags that no other part of the argument needs.
OtherTypes ==
    /\ savedAt \in 0 .. Position /\ observed \in 0 .. mtime
    /\ dirty \in BOOLEAN /\ changed \in BOOLEAN /\ skipped \in BOOLEAN /\ misapplied \in BOOLEAN
    /\ reverts \in 0 .. MaxReverts
    /\ consented \subseteq Bases /\ undone \subseteq Bases
    /\ raced \subseteq Bases /\ torn \subseteq Bases
    /\ 1 <= mtime /\ 1 <= resourceVersion /\ 1 <= fileVersion

LEMMA SavesAreFinite ==
    ASSUME NEW q \in Seq(Operation)
    PROVE  IsFiniteSet(SavesIn(q)) /\ Cardinality(SavesIn(q)) \in Nat
<1>1. IsFiniteSet(1 .. Len(q))
      BY FS_Interval
<1>2. SavesIn(q) \in SUBSET (1 .. Len(q))
      BY DEF SavesIn
<1>3. IsFiniteSet(SavesIn(q))
      BY <1>1, <1>2, FS_Subset
<1> QED BY <1>3, FS_CardinalityType

\* Cancelling keeps the operations in their places.
LEMMA CancelKeeps ==
    ASSUME NEW op, NEW q \in Seq(Operation)
    PROVE  /\ Cancel(op, q) \in Seq(Operation) /\ SavesIn(Cancel(op, q)) = SavesIn(q)
           /\ q # <<>> => Cancel(op, q) # <<>> /\ Cancel(op, q)[1].op = q[1].op
<1> DEFINE c == Cancel(op, q)
<1>1. DOMAIN c = 1 .. Len(q)
      BY DEF Cancel
<1>2. ASSUME NEW i \in 1 .. Len(q)
      PROVE  q[i] \in Operation /\ c[i] \in Operation /\ c[i].op = q[i].op
  <2>1. q[i] \in Operation /\ c[i] \in {q[i], [q[i] EXCEPT !.cancelled = TRUE]}
        BY DEF Cancel
  <2> QED BY <2>1 DEF Operation
<1>3. c \in Seq(Operation) /\ Len(c) = Len(q)
  <2>1. c = [i \in 1 .. Len(q) |-> c[i]]
        BY DEF Cancel
  <2>2. Len(q) \in Nat
        OBVIOUS
  <2> HIDE DEF c
  <2> QED BY <1>2, <2>1, <2>2
<1>4. SavesIn(c) = SavesIn(q)
      BY <1>1, <1>2 DEF SavesIn
<1> HIDE DEF c
<1>5. ASSUME q # <<>> PROVE c # <<>> /\ c[1].op = q[1].op
  <2>1. 1 \in 1 .. Len(q)
        BY <1>5
  <2> QED BY <1>2, <1>3, <2>1
<1> QED BY <1>3, <1>4, <1>5 DEF c

\* An operation behind the others.
LEMMA AppendedOperation ==
    ASSUME NEW q \in Seq(Operation), NEW o \in Operation
    PROVE  /\ Append(q, o) \in Seq(Operation)
           /\ q # <<>> => Append(q, o)[1] = q[1]
           /\ Append(q, o) # <<>>
           /\ Cardinality(SavesIn(Append(q, o)))
                  = Cardinality(SavesIn(q)) + (IF o.op = "save" THEN 1 ELSE 0)
<1> DEFINE n == Len(q) + 1
<1>1. /\ Append(q, o) \in Seq(Operation) /\ Append(q, o) # <<>>
      /\ DOMAIN Append(q, o) = DOMAIN q \cup {n} /\ n \notin DOMAIN q
      /\ Append(q, o)[n] = o /\ \A i \in DOMAIN q : Append(q, o)[i] = q[i]
      /\ q # <<>> => 1 \in DOMAIN q
      OBVIOUS
<1> HIDE DEF n
<1>2. CASE o.op = "save"
  <2>1. SavesIn(Append(q, o)) = SavesIn(q) \cup {n} /\ n \notin SavesIn(q)
        BY <1>1, <1>2 DEF SavesIn
  <2> QED BY <1>1, <1>2, <2>1, SavesAreFinite, FS_AddElement
<1>3. CASE o.op # "save"
  <2>1. SavesIn(Append(q, o)) = SavesIn(q)
        BY <1>1, <1>3 DEF SavesIn
  <2> QED BY <1>1, <1>3, <2>1, SavesAreFinite
<1> QED BY <1>2, <1>3

\* The operations when the first is over.
LEMMA FinishedOperation ==
    ASSUME NEW q \in Seq(Operation), q # <<>>
    PROVE  /\ Tail(q) \in Seq(Operation)
           /\ Cardinality(SavesIn(Tail(q))) + (IF q[1].op = "save" THEN 1 ELSE 0)
                  <= Cardinality(SavesIn(q))
<1> DEFINE S == SavesIn(Tail(q))
           T == SavesIn(q) \ {1}
           f == [i \in S |-> i + 1]
<1>1. /\ Tail(q) \in Seq(Operation) /\ DOMAIN Tail(q) = 1 .. Len(q) - 1 /\ Len(q) \in Nat
      /\ \A i \in 1 .. Len(q) - 1 : Tail(q)[i] = q[i + 1]
      OBVIOUS
<1>2. \A i \in S : i \in Nat /\ i + 1 \in T
      BY <1>1 DEF SavesIn
<1>3. f \in Injection(S, T)
      BY <1>2 DEF Injection, IsInjective
<1>4. IsFiniteSet(T) /\ Cardinality(T) = Cardinality(SavesIn(q)) - (IF 1 \in SavesIn(q) THEN 1 ELSE 0)
      BY SavesAreFinite, FS_RemoveElement
<1>5. Cardinality(S) <= Cardinality(T)
      BY <1>3, <1>4, FS_Injection
<1>6. 1 \in SavesIn(q) <=> q[1].op = "save"
      BY DEF SavesIn
<1>7. Cardinality(S) \in Nat /\ Cardinality(SavesIn(q)) \in Nat
      BY <1>1, SavesAreFinite
<1> QED BY <1>1, <1>4, <1>5, <1>6, <1>7

\* A step that leaves the queue and what is counted alone.
LEMMA SameQueue ==
    ASSUME QueueInv, UNCHANGED <<operations, step, saving, mtime, foreign, saves, failures>>
    PROVE  QueueInv'
BY DEF QueueInv, WritesInv, SavesIn, Locked

\* The running operation is over.
LEMMA FinishedQueue ==
    ASSUME Types, QueueInv, operations # <<>>, Finish, UNCHANGED <<mtime, foreign, saves>>,
           failures <= failures', failures' \in 0 .. MaxFailures
    PROVE  QueueInv'
<1>1. /\ operations' \in Seq(Operation)
      /\ Cardinality(SavesIn(operations')) + (IF operations[1].op = "save" THEN 1 ELSE 0)
             <= Cardinality(SavesIn(operations))
      /\ Cardinality(SavesIn(operations')) \in Nat /\ Cardinality(SavesIn(operations)) \in Nat
      BY FinishedOperation, SavesAreFinite DEF Finish, QueueInv
<1>2. step' = "idle" /\ saving' = Nobody
      BY DEF Finish
<1>3. /\ mtime \in Nat /\ foreign \in Nat /\ saves \in Nat
      /\ failures \in Nat /\ failures' \in Nat
      BY EditorAssumption DEF Types, Bases, QueueInv
<1>4. WritesInv'
  <2>1. step = "stating" => operations[1].op = "save"
        BY DEF QueueInv, SaveSteps
  <2>2. Cardinality(SavesIn(operations')) <= Cardinality(SavesIn(operations))
            - (IF operations[1].op = "save" THEN 1 ELSE 0)
        BY <1>1
  <2>3. mtime + Cardinality(SavesIn(operations))
            <= 1 + foreign + saves + failures + (IF step = "stating" THEN 1 ELSE 0)
        BY DEF QueueInv, WritesInv
  <2>4. mtime + Cardinality(SavesIn(operations')) <= 1 + foreign + saves + failures'
        BY <1>1, <1>3, <2>1, <2>2, <2>3
  <2>5. mtime' + Cardinality(SavesIn(operations')) <= 1 + foreign' + saves' + failures'
        BY <2>4
  <2> QED BY <1>2, <1>3, <2>5 DEF WritesInv, SavesIn
<1> QED BY <1>1, <1>2, <1>4 DEF QueueInv, SaveSteps, Steps, Locked

\* The operations change before the running one goes on, none of them a save.
LEMMA QueueGrows ==
    ASSUME Types, QueueInv, NEW q \in Seq(Operation), SavesIn(q) = SavesIn(operations),
           operations # <<>> => q # <<>> /\ q[1].op = operations[1].op,
           operations' = q \/ \E o \in Operation : o.op # "save" /\ operations' = Append(q, o),
           UNCHANGED <<step, saving, mtime, foreign, saves, failures>>
    PROVE  QueueInv'
<1>1. CASE operations' = q
      BY <1>1 DEF QueueInv, WritesInv, SavesIn, Locked, SaveSteps
<1>2. ASSUME NEW o \in Operation, o.op # "save", operations' = Append(q, o) PROVE QueueInv'
  <2>1. /\ operations' \in Seq(Operation) /\ operations' # <<>>
        /\ q # <<>> => operations'[1] = q[1]
        /\ Cardinality(SavesIn(operations')) = Cardinality(SavesIn(operations)) + 0
        BY <1>2, AppendedOperation
  <2>2. Cardinality(SavesIn(operations')) = Cardinality(SavesIn(operations))
        BY <2>1, SavesAreFinite DEF QueueInv
  <2>3. WritesInv'
        BY <2>2 DEF QueueInv, WritesInv, SavesIn
  <2>4. step \in SaveSteps => operations # <<>>
        BY DEF QueueInv, SaveSteps
  <2> QED BY <2>1, <2>3, <2>4 DEF QueueInv, Locked, SaveSteps
<1> QED BY <1>1, <1>2

LEMMA QueueInit == Init => QueueInv
<1> SUFFICES ASSUME Init PROVE QueueInv
    OBVIOUS
<1>1. SavesIn(operations) = {}
      BY DEF Init, SavesIn
<1>2. WritesInv
      BY <1>1, FS_EmptySet DEF Init, WritesInv
<1> QED BY <1>2, EditorAssumption DEF Init, QueueInv, SaveSteps, Steps, Locked

LEMMA QueueNext == Types /\ QueueInv /\ [Next]_vars => QueueInv'
<1> SUFFICES ASSUME Types, QueueInv, [Next]_vars PROVE QueueInv'
    OBVIOUS
<1>n. /\ mtime \in Nat /\ foreign \in Nat /\ saves \in Nat /\ failures \in Nat
      /\ Cardinality(SavesIn(operations)) \in Nat
      BY SavesAreFinite, EditorAssumption DEF Types, Bases, QueueInv
<1>f. failures <= failures /\ failures \in 0 .. MaxFailures
      BY <1>n DEF QueueInv
<1>1. ASSUME NEW new, DidChangeContent(new), UNCHANGED <<file, saves, failures>>
      PROVE  QueueInv'
  <2>1. operations' = operations \/ operations' = Cancel("sync", operations)
        BY <1>1 DEF DidChangeContent
  <2>2. UNCHANGED <<step, saving, mtime, foreign, saves, failures>>
        BY <1>1 DEF DidChangeContent, file
  <2>3. operations \in Seq(Operation)
        BY DEF QueueInv
  <2> QED BY <2>1, <2>2, <2>3, CancelKeeps, QueueGrows, SameQueue
<1>2. CASE Edit \/ Undo
      BY <1>1, <1>2 DEF Edit, Undo, counters
<1>3. ASSUME NEW manual \in BOOLEAN, Save(manual) PROVE QueueInv'
  <2> DEFINE c == Cancel("save", operations)
             o == [op |-> "save", cancelled |-> FALSE, manual |-> manual, awaitedBy |-> "no"]
  <2>1. c \in Seq(Operation) /\ SavesIn(c) = SavesIn(operations)
             /\ (operations # <<>> => c # <<>> /\ c[1].op = operations[1].op)
        BY CancelKeeps DEF QueueInv
  <2>2. o \in Operation /\ o.op = "save"
        BY DEF Operation
  <2>3. operations' = Append(c, o) /\ saves' = saves + 1 /\ saves < MaxSaves
             /\ UNCHANGED <<step, saving, mtime, foreign, failures>>
        BY <1>3 DEF Save, Enqueue, file
  <2> HIDE DEF c, o
  <2>4. /\ operations' \in Seq(Operation) /\ operations' # <<>> /\ (c # <<>> => operations'[1] = c[1])
        /\ Cardinality(SavesIn(operations')) = Cardinality(SavesIn(operations)) + 1
        BY <2>1, <2>2, <2>3, AppendedOperation
  <2>5. mtime' + Cardinality(SavesIn(operations')) <= 1 + foreign' + saves' + failures' + (IF step' = "stating" THEN 1 ELSE 0)
        BY <1>n, <2>3, <2>4 DEF QueueInv, WritesInv
  <2>6. step \in SaveSteps => operations # <<>>
        BY DEF QueueInv, SaveSteps
  <2>7. saves' \in 0 .. MaxSaves
        BY <1>n, <2>3, EditorAssumption DEF QueueInv
  <2>8. WritesInv'
        BY <2>5 DEF WritesInv, SavesIn
  <2> QED BY <2>1, <2>3, <2>4, <2>6, <2>7, <2>8 DEF QueueInv, SaveSteps, Locked
<1>4. CASE Revert
  <2> DEFINE c == Cancel("sync", operations)
             d == Cancel("save", c)
             o == [op |-> "sync", cancelled |-> FALSE, manual |-> FALSE,
                   awaitedBy |-> IF dirty THEN "dirty" ELSE "clean"]
  <2>1. c \in Seq(Operation) /\ SavesIn(c) = SavesIn(operations)
             /\ (operations # <<>> => c # <<>> /\ c[1].op = operations[1].op)
        BY CancelKeeps DEF QueueInv
  <2> HIDE DEF c
  <2>2. d \in Seq(Operation) /\ SavesIn(d) = SavesIn(operations)
             /\ (operations # <<>> => d # <<>> /\ d[1].op = operations[1].op)
        BY <2>1, CancelKeeps
  <2>3. o \in Operation /\ o.op # "save"
        BY DEF Operation
  <2>4. operations' = Append(d, o) /\ UNCHANGED <<step, saving, mtime, foreign, saves, failures>>
        BY <1>4 DEF Revert, file, c
  <2> HIDE DEF d, o
  <2> QED BY <2>2, <2>3, <2>4, QueueGrows
<1>5. CASE ForeignChange
  <2>1. foreign' = foreign + 1 /\ mtime' = mtime + 1 /\ UNCHANGED <<operations, step, saving, saves, failures>>
        BY <1>5 DEF ForeignChange, queue, counters
  <2>2. WritesInv'
        BY <1>n, <2>1 DEF QueueInv, WritesInv, SavesIn
  <2> QED BY <2>1, <2>2 DEF QueueInv, Locked
<1>6. CASE FilesChanged
      BY <1>6, SameQueue DEF FilesChanged, file, queue, counters
<1>7. CASE Synchronize
  <2>1. UNCHANGED <<step, saving, mtime, foreign, saves, failures>>
        BY <1>7 DEF Synchronize, file, counters
  <2>2. CASE InSync
        BY <1>7, <2>1, <2>2, SameQueue DEF Synchronize
  <2>3. CASE ~InSync
    <3> DEFINE c == Cancel("sync", operations)
               o == [op |-> "sync", cancelled |-> FALSE, manual |-> FALSE, awaitedBy |-> "no"]
    <3>1. c \in Seq(Operation) /\ SavesIn(c) = SavesIn(operations)
               /\ (operations # <<>> => c # <<>> /\ c[1].op = operations[1].op)
          BY CancelKeeps DEF QueueInv
    <3>2. o \in Operation /\ o.op # "save"
          BY DEF Operation
    <3>3. operations' = Append(c, o)
          BY <1>7, <2>3 DEF Synchronize, Enqueue
    <3> HIDE DEF c, o
    <3> QED BY <2>1, <3>1, <3>2, <3>3, QueueGrows
  <2> QED BY <2>2, <2>3
<1>8. CASE Start
  <2>1. step = "idle" /\ operations # <<>> /\ UNCHANGED <<operations, saving, mtime, foreign, saves, failures>>
        BY <1>8 DEF Start, file, counters
  <2>2. step' = IF operations[1].op = "save" THEN "willSave" ELSE "reading"
        BY <1>8, <2>1 DEF Start, Running, QueueInv
  <2>3. WritesInv'
        BY <2>1, <2>2 DEF QueueInv, WritesInv, SavesIn
  <2> QED BY <2>1, <2>2, <2>3 DEF QueueInv, Locked, SaveSteps, Steps
<1>9. CASE StartCancelled \/ Load
  <2>1. operations # <<>>
        BY <1>9 DEF StartCancelled, Load, QueueInv
  <2>2. Finish /\ UNCHANGED <<mtime, foreign, saves, failures>>
        BY <1>9 DEF StartCancelled, Load, EndSync, file, counters
  <2> QED BY <1>f, <2>1, <2>2, FinishedQueue
<1>10. ASSUME <<step, step'>> \in {<<"reading", "loading">>, <<"validating", "asking">>,
                                  <<"validating", "writing">>, <<"asking", "writing">>},
              UNCHANGED <<operations, saving, mtime, foreign, saves, failures>>
       PROVE  QueueInv'
  <2>1. WritesInv'
        BY <1>10 DEF QueueInv, WritesInv, SavesIn
  <2> QED BY <1>10, <2>1 DEF QueueInv, Locked, SaveSteps, Steps
<1>19. CASE ReadContent \/ StatRead
       BY <1>19, SameQueue DEF ReadContent, StatRead, file, queue, counters
<1>11. CASE ReadVersion \/ Validate \/ ValidateFails \/ Overwrite
  <2>1. UNCHANGED <<operations, saving, mtime, foreign, saves, failures>>
        BY <1>11 DEF ReadVersion, Validate, ValidateFails, Overwrite, file, counters
  <2>2. <<step, step'>> \in {<<"reading", "loading">>, <<"validating", "asking">>,
                             <<"validating", "writing">>, <<"asking", "writing">>}
        BY <1>11 DEF ReadVersion, Validate, ValidateFails, Overwrite
  <2> QED BY <1>10, <2>1, <2>2
<1>12. CASE Prepare
  <2>1. UNCHANGED <<mtime, foreign, saves, failures>> /\ step = "willSave" /\ operations # <<>>
        BY <1>12 DEF Prepare, file, counters, QueueInv
  <2>2. CASE Finish
        BY <1>f, <2>1, <2>2, FinishedQueue
  <2>3. CASE ~Finish
    <3>1. step' = "validating" /\ UNCHANGED operations
          BY <1>12, <2>3 DEF Prepare
    <3>2. WritesInv'
          BY <2>1, <3>1 DEF QueueInv, WritesInv, SavesIn
    <3> QED BY <2>1, <3>1, <3>2 DEF QueueInv, Locked, SaveSteps, Steps
  <2> QED BY <2>2, <2>3
<1>13. CASE Refuse \/ StatWritten
  <2>1. Finish /\ operations # <<>>
        BY <1>13 DEF Refuse, StatWritten, Saved, QueueInv
  <2>2. UNCHANGED <<mtime, foreign, saves, failures>>
        BY <1>13 DEF Refuse, StatWritten, file, counters
  <2> QED BY <1>f, <2>1, <2>2, FinishedQueue
<1>g. failures < MaxFailures => failures <= failures + 1 /\ failures + 1 \in 0 .. MaxFailures
      BY <1>n, EditorAssumption
<1>14. CASE WriteFails
  <2>1. Finish /\ operations # <<>> /\ UNCHANGED <<mtime, foreign, saves>>
        BY <1>14 DEF WriteFails, QueueInv, file
  <2>2. failures < MaxFailures /\ failures' = failures + 1
        BY <1>14 DEF WriteFails
  <2> QED BY <1>g, <2>1, <2>2, FinishedQueue
<1>15. CASE ValidateUpdateFails
  <2>1. FallBack /\ step = "validating" /\ operations # <<>> /\ UNCHANGED <<mtime, foreign, saves, failures>>
        BY <1>15 DEF ValidateUpdateFails, file, counters, QueueInv
  <2>2. CASE Running.cancelled
        BY <1>f, <2>1, <2>2, FinishedQueue DEF FallBack, Saved
  <2>3. CASE ~Running.cancelled
    <3>1. step' = "validating" /\ UNCHANGED operations
          BY <2>1, <2>3 DEF FallBack
    <3>2. WritesInv'
          BY <2>1, <3>1 DEF QueueInv, WritesInv, SavesIn
    <3> QED BY <2>1, <3>1, <3>2 DEF QueueInv, Locked, SaveSteps, Steps
  <2> QED BY <2>2, <2>3
<1>16. CASE UpdateFails
  <2>1. /\ FallBack /\ step \in {"writing", "stating"} /\ operations # <<>>
        /\ failures < MaxFailures /\ failures' = failures + 1 /\ UNCHANGED <<mtime, foreign, saves>>
        BY <1>16 DEF UpdateFails, file, QueueInv
  <2>2. CASE Running.cancelled
        BY <1>g, <2>1, <2>2, FinishedQueue DEF FallBack, Saved
  <2>3. CASE ~Running.cancelled
    <3>1. step' = "validating" /\ UNCHANGED operations
          BY <2>1, <2>3 DEF FallBack
    <3>2. mtime + Cardinality(SavesIn(operations)) <= 1 + foreign + saves + failures + 1
          BY <1>n DEF QueueInv, WritesInv
    <3>3. mtime' + Cardinality(SavesIn(operations')) <= 1 + foreign' + saves' + failures'
          BY <1>n, <2>1, <3>1, <3>2 DEF SavesIn
    <3>4. WritesInv'
          BY <1>n, <2>1, <3>1, <3>3 DEF WritesInv, SavesIn
    <3> QED BY <1>g, <2>1, <3>1, <3>4 DEF QueueInv, Locked, SaveSteps, Steps
  <2> QED BY <2>2, <2>3
<1>17. CASE Write
  <2>1. /\ step = "writing" /\ step' = "stating" /\ mtime' = mtime + 1
        /\ UNCHANGED <<foreign, operations, saving, saves, failures>>
        BY <1>17 DEF Write, counters
  <2>2. WritesInv'
        BY <1>n, <2>1 DEF QueueInv, WritesInv, SavesIn
  <2> QED BY <2>1, <2>2 DEF QueueInv, Locked, SaveSteps, Steps
<1>18. CASE UNCHANGED vars
       BY <1>18, SameQueue DEF vars, file, queue, counters
<1> QED
    BY <1>2, <1>3, <1>4, <1>5, <1>6, <1>7, <1>8, <1>9, <1>11, <1>12, <1>13, <1>14, <1>15,
       <1>16, <1>17, <1>18, <1>19
       DEF Next, Operate, Watching

-------------------------------------------------------------------------------
(***************************************************************************)
(* The other types.                                                        *)
(***************************************************************************)
LEMMA OthersInit == Init => OtherTypes
<1> SUFFICES ASSUME Init PROVE OtherTypes
    OBVIOUS
<1>1. savedAt = 1 /\ Position = 1
      BY DEF Init, Position
<1>2. observed \in 0 .. mtime /\ 1 <= mtime /\ 1 <= resourceVersion /\ 1 <= fileVersion
      BY DEF Init, Nothing
<1>3. reverts \in 0 .. MaxReverts
      BY EditorAssumption DEF Init
<1>4. savedAt \in 0 .. Position
      BY <1>1
<1>5. /\ dirty \in BOOLEAN /\ changed \in BOOLEAN /\ skipped \in BOOLEAN /\ misapplied \in BOOLEAN
      /\ consented = {} /\ undone = {} /\ raced = {} /\ torn = {}
      BY DEF Init
<1> QED BY <1>2, <1>3, <1>4, <1>5 DEF OtherTypes

\* A position among the versions of a text that gets longer by one, or not at all.
LEMMA PositionsStay ==
    ASSUME OtherTypes, undoable \in Seq(Content)
    PROVE  /\ Position \in Nat /\ Position \in 0 .. Position /\ Nothing \in 0 .. Position
           /\ undoable' = undoable => Position' = Position
           /\ \A t : undoable' = Append(undoable, t) => Position' = Position + 1
           /\ undoable # <<>> /\ undoable' = Front(undoable) => Position = Position' + 1 /\ Position' \in Nat
<1>1. Len(undoable) \in Nat
      OBVIOUS
<1>2. \A t : Len(Append(undoable, t)) = Len(undoable) + 1
      OBVIOUS
<1>3. undoable # <<>> => Len(undoable) = Len(Front(undoable)) + 1 /\ Len(Front(undoable)) \in Nat
      BY DEF Front
<1> QED BY <1>1, <1>2, <1>3 DEF Position, Nothing

\* The end of a save: the version that counts as saved is one of two.
LEMMA SavedTypes ==
    ASSUME Types, OtherTypes, Saved
    PROVE  savedAt' \in 0 .. Position' /\ dirty' \in BOOLEAN
<1>1. savedAt' \in {savedAt, Position} /\ dirty' \in {dirty, FALSE} /\ undoable' = undoable
      BY DEF Saved, Clean
<1> QED BY <1>1, PositionsStay DEF Types, OtherTypes

LEMMA OthersNext == Types /\ OtherTypes /\ [Next]_vars => OtherTypes'
<1> SUFFICES ASSUME Types, OtherTypes, [Next]_vars PROVE OtherTypes'
    OBVIOUS
<1>n. /\ mtime \in Nat /\ foreign \in Nat /\ resourceVersion \in Nat /\ fileVersion \in Nat
      /\ observed \in 0 .. mtime
      BY EditorAssumption DEF Types, Bases, OtherTypes
<1>p. /\ Position \in Nat /\ Position \in 0 .. Position /\ Nothing \in 0 .. Position
      /\ savedAt \in 0 .. Position
      BY PositionsStay DEF Types, OtherTypes
<1>u. undoable' = undoable => Position' = Position
      BY DEF Position
<1>d. ASSUME NEW new, DidChangeContent(new) PROVE dirty' \in BOOLEAN
  <2>1. dirty' = (Position' # savedAt')
        BY <1>d DEF DidChangeContent
  <2>2. (Position' # savedAt') \in BOOLEAN
        OBVIOUS
  <2> QED BY <2>1, <2>2
<1>1. CASE Edit
  <2>1. undoable' = Append(undoable, text) /\ savedAt' = savedAt /\ dirty' \in BOOLEAN
        BY <1>1, <1>d DEF Edit
  <2>2. savedAt' \in 0 .. Position'
        BY <1>p, <2>1, PositionsStay DEF Types
  <2> QED BY <1>1, <2>1, <2>2 DEF Edit, OtherTypes, file, resource, watch, history
<1>2. CASE Undo
  <2>1. /\ undoable # <<>> /\ undoable' = Front(undoable) /\ dirty' \in BOOLEAN
        /\ savedAt' = IF savedAt = Position THEN Nothing ELSE savedAt
        BY <1>2, <1>d DEF Undo
  <2>2. savedAt' \in 0 .. Position'
        BY <1>p, <2>1, PositionsStay DEF Types, Nothing
  <2>3. undone' \subseteq Bases
    <3>1. Last(undoable).base \in Bases /\ text.base \in Bases
          BY <1>2, UndoneText DEF Types, Content
    <3>2. (Last(undoable).base + 1) .. text.base \subseteq Bases
          BY <3>1, EditorAssumption DEF Bases
    <3> QED BY <1>2, <3>2 DEF Undo, OtherTypes
  <2> QED BY <1>2, <2>1, <2>2, <2>3 DEF Undo, OtherTypes, file, resource, watch, counters
<1>3. CASE Revert
  <2>1. reverts' \in 0 .. MaxReverts /\ dirty' = FALSE
        BY <1>3, EditorAssumption DEF Revert, OtherTypes
  <2> QED BY <1>3, <1>p, <1>u, <2>1 DEF Revert, OtherTypes, file, resource, watch, history
<1>4. CASE ForeignChange
  <2>1. foreign' \in Bases /\ mtime' = mtime + 1
        BY <1>4, EditorAssumption DEF ForeignChange, Types, Bases
  <2>2. raced' \subseteq Bases /\ torn' \subseteq Bases
        BY <1>4, <2>1 DEF ForeignChange, OtherTypes
  <2>3. observed' \in 0 .. mtime' /\ 1 <= mtime'
        BY <1>4, <1>n, <2>1 DEF ForeignChange, OtherTypes
  <2> QED BY <1>4, <1>p, <1>u, <2>2, <2>3 DEF ForeignChange, OtherTypes, buffer, resource, counters
<1>5. ASSUME NEW manual \in BOOLEAN, Save(manual) PROVE OtherTypes'
      BY <1>5, <1>p, <1>u DEF Save, OtherTypes, file, buffer, resource, watch, history
<1>6. CASE Watching
  <2>1. observed' \in {mtime, Nothing} /\ changed' \in BOOLEAN
        BY <1>6 DEF Watching, FilesChanged, Synchronize, OtherTypes
  <2>2. observed' \in 0 .. mtime
        BY <1>n, <2>1 DEF Nothing
  <2> QED BY <1>6, <1>p, <1>u, <2>1, <2>2 DEF Watching, FilesChanged, Synchronize, OtherTypes, file, buffer,
                                  resource, counters, history
<1>7. CASE Start \/ ReadContent \/ StatRead \/ Prepare \/ Validate \/ ValidateFails
  <2>1. UNCHANGED <<file, buffer, resourceVersion, fileVersion, watch, counters, history>>
        BY <1>7 DEF Start, ReadContent, StatRead, Prepare, Validate, ValidateFails, resource
  <2> QED BY <1>p, <1>u, <2>1 DEF OtherTypes, file, buffer, watch, counters, history
<1>8. CASE StartCancelled
  <2>1. dirty' \in BOOLEAN /\ savedAt' \in {savedAt, Position} /\ undoable' = undoable
        BY <1>8 DEF StartCancelled, EndSync, OtherTypes
  <2>2. savedAt' \in 0 .. Position'
        BY <1>p, <1>u, <2>1
  <2> QED BY <1>8, <2>1, <2>2 DEF StartCancelled, OtherTypes, file, resource, watch, counters, history
<1>9. CASE ReadVersion
  <2>1. 1 <= fileVersion'
        BY <1>9 DEF ReadVersion, Types, Reads, Nothing
  <2> QED BY <1>9, <1>p, <1>u, <2>1 DEF ReadVersion, OtherTypes, file, buffer, watch, counters, history
<1>10. CASE Load
  <2>1. dirty' \in BOOLEAN /\ savedAt' \in {savedAt, Position'}
        BY <1>10 DEF Load, EndSync, OtherTypes
  <2>2. undoable' = undoable \/ undoable' = Append(undoable, text)
        BY <1>10 DEF Load
  <2>3. savedAt' \in 0 .. Position'
    <3>1. Position' = Position \/ Position' = Position + 1
          BY <2>2, PositionsStay DEF Types
    <3> HIDE DEF Position
    <3>2. Position' \in Nat /\ Position <= Position'
          BY <1>p, <3>1
    <3> QED BY <1>p, <2>1, <3>2
  <2>4. resourceVersion' \in {resourceVersion, fileVersion} /\ fileVersion' = fileVersion
        BY <1>10 DEF Load, VersionAfterSync
  <2> QED BY <1>10, <2>1, <2>3, <2>4 DEF Load, OtherTypes, file, watch, counters, history
<1>11. CASE Overwrite
  <2>1. disk.base \in Bases
        BY DEF Types, Content
  <2> QED BY <1>11, <1>p, <1>u, <2>1 DEF Overwrite, OtherTypes, file, buffer, resource, watch, counters
<1>12. CASE Refuse \/ WriteFails
  <2>1. UNCHANGED <<file, buffer, resourceVersion, fileVersion, watch, reverts, history>>
        BY <1>12 DEF Refuse, WriteFails, resource, counters
  <2> QED BY <1>p, <1>u, <2>1 DEF OtherTypes, file, buffer, watch, history
<1>14. CASE Write
  <2>1. mtime' = mtime + 1 /\ changed' = TRUE /\ misapplied' \in BOOLEAN
        BY <1>14 DEF Write, OtherTypes, Misapplied, Types, Savings
  <2>2. observed' \in 0 .. mtime' /\ 1 <= mtime'
        BY <1>14, <1>n, <2>1 DEF Write, OtherTypes
  <2> QED BY <1>14, <1>p, <1>u, <2>1, <2>2 DEF Write, OtherTypes, buffer, resource, counters
<1>15. ASSUME FallBack, UNCHANGED <<file, watch, reverts, consented, undone, raced, torn, misapplied>>
       PROVE  OtherTypes'
  <2>1. CASE Running.cancelled
    <3>1. Saved /\ skipped' = TRUE /\ resourceVersion' = fileVersion /\ fileVersion' = fileVersion
          BY <1>15, <2>1 DEF FallBack, Saved
    <3> QED BY <1>15, <3>1, SavedTypes DEF OtherTypes, file, watch
  <2>2. CASE ~Running.cancelled
        BY <1>15, <1>p, <1>u, <2>2 DEF FallBack, OtherTypes, file, buffer, watch
  <2> QED BY <2>1, <2>2
<1>16. CASE ValidateUpdateFails
       BY <1>15, <1>16 DEF ValidateUpdateFails, counters
<1>17. CASE UpdateFails
       BY <1>15, <1>17 DEF UpdateFails
<1>18. CASE StatWritten
  <2>1. Saved /\ fileVersion' = mtime /\ resourceVersion' = mtime
        BY <1>18 DEF StatWritten, Saved
  <2> QED BY <1>18, <2>1, SavedTypes DEF StatWritten, OtherTypes, file, watch, counters, history
<1>19. CASE UNCHANGED vars
       BY <1>19, <1>p, <1>u DEF vars, OtherTypes, file, buffer, resource, watch, counters, history
<1> QED
    BY <1>1, <1>2, <1>3, <1>4, <1>5, <1>6, <1>7, <1>8, <1>9, <1>10, <1>11, <1>12, <1>14, <1>16,
       <1>17, <1>18, <1>19 DEF Next, Operate

-------------------------------------------------------------------------------
(***************************************************************************)
(* The theorems.                                                           *)
(***************************************************************************)
\* The variables keep their types.  In particular the file is written at most once
\* for each save() and once more for each failure (an update that took effect and
\* then failed is followed by a write of the whole text), whatever is cancelled or
\* asked again; and a save never reckons with more changes than the model has.
THEOREM TypeCorrect == Spec => []TypeOK
<1>1. Init => QueueInv /\ OtherTypes
      BY QueueInit, OthersInit
<1>2. IInv /\ QueueInv /\ OtherTypes /\ [Next]_vars => QueueInv' /\ OtherTypes'
      BY QueueNext, OthersNext DEF IInv
<1>3. IInv /\ QueueInv /\ OtherTypes => TypeOK
  <2> SUFFICES ASSUME IInv, QueueInv, OtherTypes PROVE TypeOK
      OBVIOUS
  <2>1. /\ mtime \in Nat /\ foreign \in Nat /\ saves \in Nat /\ failures \in Nat
        /\ foreign <= MaxForeign /\ saves <= MaxSaves /\ failures <= MaxFailures
        BY EditorAssumption DEF IInv, Types, Bases, QueueInv
  <2>2. mtime <= 1 + foreign + saves + failures
    <3>1. Cardinality(SavesIn(operations)) \in Nat
          BY SavesAreFinite DEF QueueInv
    <3>2. step = "stating" => Cardinality(SavesIn(operations)) # 0
      <4>1. step = "stating" => 1 \in SavesIn(operations)
        <5>1. step = "stating" => operations # <<>> /\ operations[1].op = "save"
              BY DEF QueueInv, SaveSteps
        <5> QED BY <5>1 DEF SavesIn, QueueInv
      <4> QED BY <4>1, SavesAreFinite, FS_EmptySet DEF QueueInv
    <3> QED BY <2>1, <3>1, <3>2 DEF QueueInv, WritesInv
  <2>3. mtime \in Mtimes /\ \A m \in 1 .. mtime : m \in Mtimes
        BY <2>1, <2>2, EditorAssumption DEF Mtimes, OtherTypes
  <2>4. {mtime, resourceVersion, fileVersion} \subseteq Mtimes
        BY <2>1, <2>3 DEF IInv, Types, OtherTypes
  <2>5. observed \in Mtimes \cup {Nothing}
        BY <2>1, <2>3 DEF OtherTypes, Nothing
  <2>6. /\ saving.version \in Mtimes \cup {Nothing} /\ saving.incremental \in BOOLEAN
        /\ saving.text \in Content /\ saving.changes \in 0 .. Len(contentChanges)
    <3>1. CASE Locked
      <4>1. saving.version = resourceVersion /\ saving.changes <= Len(contentChanges)
            BY <3>1 DEF IInv, Types, VersionInv, CapturedInv
      <4> QED BY <2>4, <4>1 DEF IInv, Types, Savings
    <3>2. CASE ~Locked
      <4>1. saving = Nobody
            BY <3>2 DEF QueueInv
      <4>2. saving.version = Nothing /\ saving.changes = 0
            BY <4>1 DEF Nobody
      <4> QED BY <4>2 DEF IInv, Types, Savings
    <3> QED BY <3>1, <3>2
  <2>7. received.version \in Mtimes \cup {Nothing} /\ received.content \in Seq(Content)
        BY <2>1, <2>3 DEF IInv, Types, Reads, Nothing
  <2> QED BY <2>4, <2>5, <2>6, <2>7 DEF TypeOK, IInv, Types, QueueInv, OtherTypes
<1> QED BY <1>1, <1>2, <1>3, Invariance, PTL DEF Spec

\* While the file has a content the text is not based on, the version the model
\* saves with is older than the file, whatever saves, loads, reverts, undos past a
\* load and changes by others have happened (doSync and doSave of
\* monaco-editor-model.ts).  What came between the content and the version of a
\* read (file-service.ts:964-967) is an exception, and with it the others that
\* Unforeseen names.
THEOREM VersionsBelongToTheText == Spec => []VersionBelongsToText
<1>1. IInv => VersionBelongsToText
      BY DEF IInv, VersionInv
<1> QED BY <1>1, Invariance, PTL

\* A dirty model has changes to save (contentChanges of monaco-editor-model.ts),
\* also after edits during a save that was cancelled.
THEOREM DirtyModelsHaveChanges == Spec => []DirtyHasChanges
<1>1. IInv => DirtyHasChanges
      BY DEF IInv, VersionInv
<1> QED BY <1>1, Invariance, PTL

\* The check for dirty writes (validateWriteFile of file-service.ts) keeps what
\* somebody else has written unless the user agreed, however reads that advance the
\* resource's own version, saves, failures and undos interleave: all it lets
\* through is what Unforeseen names, a change that came during a write or between
\* the two halves of a read among it.
THEOREM ForeignChangesAreKept == Spec => ForeignChangesSurvive
<1>1. IInv /\ IInv' /\ [Next]_vars =>
          [disk'.base < disk.base
               => disk.base \in consented \/ Unforeseen(disk.base) \/ misapplied']_vars
  <2> SUFFICES ASSUME IInv, [Next]_vars, disk'.base < disk.base, ~misapplied'
               PROVE  disk.base \in consented \/ Unforeseen(disk.base)
      OBVIOUS
  <2> USE DEF IInv, KnownInv, VersionInv, Types
  <2>1. disk.base \in Nat /\ saving.text.base \in Nat /\ foreign \in Nat
        BY EditorAssumption DEF Content, Savings, Bases
  <2>2. disk' # disk
        BY <2>1
  <2>3. ForeignChange \/ Write
        BY <2>2 DEF Next, Operate, Watching, Edit, Undo, Revert, Save, FilesChanged, Synchronize,
                    Start, StartCancelled, ReadContent, StatRead, ReadVersion, Load, Prepare,
                    Validate, ValidateUpdateFails, ValidateFails, StatWritten, Overwrite, Refuse,
                    UpdateFails, WriteFails, file, vars
  <2>4. ~ForeignChange
    <3>1. SUFFICES ASSUME ForeignChange PROVE FALSE
          OBVIOUS
    <3>2. disk'.base = foreign + 1
          BY <3>1 DEF ForeignChange
    <3> QED BY <2>1, <3>2
  <2>5. Write /\ step = "writing"
        BY <2>3, <2>4 DEF Write
  <2>6. disk'.base = saving.text.base
    <3>1. CASE saving.incremental
      <4>1. disk' = Updated(disk, CapturedChanges) /\ CapturedChanges \in Seq(ContentChange)
            BY <2>5, <3>1, CapturedAreChanges DEF Write
      <4>2. Rebases(CapturedChanges)
            BY <2>1, <4>1, UpdatedContent
      <4>3. ~Misapplied
            BY <2>5 DEF Write
      <4>4. LeadsFrom(disk.base, CapturedChanges, saving.text.base)
            BY <3>1, <4>2, <4>3 DEF Misapplied
      <4> QED BY <4>1, <4>2, <4>4, UpdatedContent
    <3>2. CASE ~saving.incremental
          BY <2>5, <3>2 DEF Write
    <3> QED BY <3>1, <3>2
  <2> QED BY <2>1, <2>5, <2>6 DEF WritingInv
<1> QED BY <1>1, Invariance, PTL DEF Spec, ForeignChangesSurvive

===============================================================================
