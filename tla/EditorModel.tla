------------------------------ MODULE EditorModel ------------------------------
(***************************************************************************)
(* A text that is edited while its file changes: one MonacoEditorModel     *)
(* with its serialised save and sync operations, its FileResource, and the *)
(* file service's check for dirty writes.                                  *)
(*                                                                         *)
(* A content is the edits made to some base, where base n is what the n-th *)
(* change by somebody else left in the file.  A change event toggles edits *)
(* (doing one adds its number, undoing it takes it away) or leads from one *)
(* base to another (undoing a load).  The text has the versions it can be  *)
(* undone to; redo is left out.  A file is read and written as a whole,    *)
(* and a change of it changes its size and advances its mtime              *)
(* (file-service.ts:898-906 names what else can happen).                   *)
(***************************************************************************)
EXTENDS Naturals, Sequences, FiniteSets, SequencesExt

CONSTANTS
    MaxEdits,       \* bound: edits by the user
    MaxForeign,     \* bound: changes of the file by somebody else
    MaxSaves,       \* bound: saves asked for
    MaxReverts,     \* bound: reverts asked for
    MaxFailures     \* bound: writes that fail

ASSUME EditorAssumption ==
    {MaxEdits, MaxForeign, MaxSaves, MaxReverts, MaxFailures} \subseteq Nat

Edits == 1 .. MaxEdits
Bases == 0 .. MaxForeign
Content == [base : Bases, edits : SUBSET Edits]
ContentChange == [from : Bases, to : Bases, toggled : SUBSET Edits]

VARIABLES
    \* the file
    disk,               \* its content
    mtime,
    foreign,            \* changes by somebody else
    \* MonacoEditorModel
    text,               \* model.getValue()
    undoable,           \* the earlier texts, in order, that undo() can return to
    savedAt,            \* position of bufferSavedVersionId among text's versions, or Nothing
    dirty,
    contentChanges,
    resourceVersion,    \* the mtime in resourceVersion
    operations,         \* what pendingOperation waits for, the running one first
    step,               \* what the running operation awaits
    saving,             \* what the running save has captured
    \* FileResource
    received,           \* what the running read has got so far
    fileVersion,        \* the mtime in _version
    changed,            \* a file change event is on its way
    observed,           \* the mtime isInSync() has got, or Nothing
    \* counters
    edits, saves, reverts, failures,
    \* history
    consented,          \* bases the user agreed to overwrite
    undone,             \* bases whose loading the user has undone
    raced,              \* bases that came between a check and the end of its write
    torn,               \* bases that came after the content and before the version of a read
    skipped,            \* a save that was given up has been taken for done
    misapplied          \* an update has applied changes to a content they do not belong to

file == <<disk, mtime, foreign>>
buffer == <<text, undoable, savedAt, dirty, contentChanges>>
queue == <<operations, step, saving>>
watch == <<changed, observed>>
counters == <<edits, saves, reverts, failures>>
resource == <<received, fileVersion>>
history == <<consented, undone, raced, torn, skipped, misapplied>>
vars == <<file, buffer, resourceVersion, queue, resource, watch, counters, history>>

Nothing == 0
Mtimes == 1 .. (1 + MaxForeign + MaxSaves + MaxFailures)

\* manual: the saveReason is Manual.  awaitedBy: the sync is awaited by revert(),
\* which found the model clean or dirty.
Operation == [op : {"save", "sync"}, cancelled : BOOLEAN, manual : BOOLEAN,
              awaitedBy : {"no", "clean", "dirty"}]
Steps == {"idle", "reading", "loading", "willSave", "validating", "asking", "writing", "stating"}
Nobody == [text |-> [base |-> 0, edits |-> {}], changes |-> 0, version |-> Nothing,
           position |-> 1, incremental |-> FALSE]
NotRead == [content |-> <<>>, version |-> Nothing]

\* The alternative version id of the text: how many versions undo() can reach.
Position == Len(undoable) + 1

TypeOK ==
    /\ {disk, text} \subseteq Content
    /\ {mtime, resourceVersion, fileVersion} \subseteq Mtimes
    /\ {observed, saving.version, received.version} \subseteq Mtimes \cup {Nothing}
    /\ foreign \in Bases
    /\ {dirty, changed, skipped, misapplied, saving.incremental} \subseteq BOOLEAN
    /\ saving.text \in Content /\ saving.changes \in 0 .. Len(contentChanges)
    /\ contentChanges \in Seq(ContentChange)
    /\ undoable \in Seq(Content) /\ savedAt \in 0 .. Position
    /\ received.content \in Seq(Content)
    /\ operations \in Seq(Operation)
    /\ step \in Steps
    /\ step # "idle" => operations # <<>>
    /\ edits \in 0 .. MaxEdits /\ failures \in 0 .. MaxFailures
    /\ saves \in 0 .. MaxSaves /\ reverts \in 0 .. MaxReverts
    /\ consented \cup undone \cup raced \cup torn \subseteq Bases

\* The model after initialize().
Init ==
    /\ disk = [base |-> 0, edits |-> {}] /\ mtime = 1 /\ foreign = 0
    /\ text = disk /\ undoable = <<>> /\ savedAt = Position /\ dirty = FALSE
    /\ contentChanges = <<>>
    /\ resourceVersion = 1 /\ fileVersion = 1 /\ received = NotRead
    /\ operations = <<>> /\ step = "idle" /\ saving = Nobody
    /\ changed = FALSE /\ observed = Nothing
    /\ edits = 0 /\ saves = 0 /\ reverts = 0 /\ failures = 0
    /\ consented = {} /\ undone = {} /\ raced = {} /\ torn = {}
    /\ skipped = FALSE /\ misapplied = FALSE

-------------------------------------------------------------------------------
(***************************************************************************)
(* The user and the others who write the file.                             *)
(***************************************************************************)
\* cancelSave and cancelSync: each token is made after the older were cancelled.
Cancel(op, q) ==
    [i \in DOMAIN q |-> IF q[i].op = op THEN [q[i] EXCEPT !.cancelled = TRUE] ELSE q[i]]

\* An operation that nothing precedes starts before the next event is handled.
Settled == step = "idle" => operations = <<>>

\* fireDidChangeContent: the text is at its saved version, or markAsDirty.
DidChangeContent(new) ==
    /\ text' = new
    /\ dirty' = (Position' # savedAt')
    /\ operations' = IF dirty' THEN Cancel("sync", operations) ELSE operations
    /\ contentChanges' = Append(contentChanges,
          [from |-> text.base, to |-> new.base, toggled |-> SymDiff(text.edits, new.edits)])
    /\ UNCHANGED <<step, saving>>

Edit ==
    /\ edits < MaxEdits
    /\ Settled
    /\ edits' = edits + 1
    /\ undoable' = Append(undoable, text)
    /\ UNCHANGED savedAt
    /\ DidChangeContent([text EXCEPT !.edits = @ \cup {edits'}])
    /\ UNCHANGED <<file, resourceVersion, resource, watch, saves, reverts, failures, history>>

\* The load of a text can be undone like an edit.
Undo ==
    /\ undoable # <<>>
    /\ Settled
    /\ undoable' = Front(undoable)
    /\ savedAt' = IF savedAt = Position THEN Nothing ELSE savedAt
    /\ DidChangeContent(Last(undoable))
    /\ undone' = undone \cup (Last(undoable).base + 1) .. text.base
    /\ UNCHANGED <<file, resourceVersion, resource, watch, counters, consented, raced, torn,
                   skipped, misapplied>>

Enqueue(op, manual, awaitedBy) ==
    operations' = Append(Cancel(op, operations),
                         [op |-> op, cancelled |-> FALSE, manual |-> manual, awaitedBy |-> awaitedBy])

\* save(): by the user or a plugin, or (for a dirty model) by auto save.
Save(manual) ==
    /\ saves < MaxSaves
    /\ manual \/ dirty
    /\ Settled
    /\ saves' = saves + 1
    /\ Enqueue("save", manual, "no")
    /\ UNCHANGED <<file, buffer, resourceVersion, step, saving, resource, watch, edits,
                   reverts, failures, history>>

\* revert(): cancelSave, and a sync that finds the model clean.
Revert ==
    /\ reverts < MaxReverts
    /\ Settled
    /\ reverts' = reverts + 1
    /\ dirty' = FALSE
    /\ operations' = Append(Cancel("save", Cancel("sync", operations)),
                            [op |-> "sync", cancelled |-> FALSE, manual |-> FALSE,
                             awaitedBy |-> IF dirty THEN "dirty" ELSE "clean"])
    /\ UNCHANGED <<file, text, undoable, savedAt, contentChanges, resourceVersion, step, saving,
                   resource, watch, edits, saves, failures, history>>

\* A read has got the content and not yet the version.
HalfRead == step = "reading" /\ received.content # <<>> /\ received.version = Nothing

ForeignChange ==
    /\ foreign < MaxForeign
    /\ foreign' = foreign + 1
    /\ disk' = [base |-> foreign', edits |-> {}]
    /\ mtime' = mtime + 1
    /\ changed' = TRUE
    /\ raced' = IF step \in {"writing", "stating"} THEN raced \cup {foreign'} ELSE raced
    /\ torn' = IF HalfRead THEN torn \cup {foreign'} ELSE torn
    /\ UNCHANGED <<buffer, resourceVersion, queue, resource, observed, counters, consented,
                   undone, skipped, misapplied>>

-------------------------------------------------------------------------------
(***************************************************************************)
(* File change events.                                                     *)
(***************************************************************************)
\* writingLock is held by doWrite and doSaveContentChanges, the dialog included.
Locked == step \in {"validating", "asking", "writing", "stating"}

\* isInSync: the file is looked at when no write is going on.
FilesChanged ==
    /\ changed /\ observed = Nothing
    /\ Settled /\ ~Locked
    /\ changed' = FALSE
    /\ observed' = mtime
    /\ UNCHANGED <<file, buffer, resourceVersion, queue, resource, counters, history>>

\* Mutant: only a version that is older by more than one change is out of sync.
NearlyInSync == fileVersion + 1 >= observed

InSync == fileVersion >= observed

\* sync() of the resource, and onDidChangeContents of the model's.
Synchronize ==
    /\ observed # Nothing
    /\ Settled
    /\ observed' = Nothing
    /\ IF InSync THEN UNCHANGED operations ELSE Enqueue("sync", FALSE, "no")
    /\ UNCHANGED <<file, buffer, resourceVersion, step, saving, resource, changed, counters,
                   history>>

-------------------------------------------------------------------------------
(***************************************************************************)
(* The operations, one at a time.                                          *)
(***************************************************************************)
Running == Head(operations)

\* Mutant: the operation that was running is still awaited.
FinishHalf ==
    /\ operations' = Tail(operations)
    /\ saving' = Nobody
    /\ UNCHANGED step

Finish ==
    /\ operations' = Tail(operations)
    /\ step' = "idle"
    /\ saving' = Nobody

\* setDirty(false) and updateSavedVersionId.
Clean ==
    /\ dirty' = FALSE
    /\ savedAt' = IF dirty THEN Position ELSE savedAt

Start ==
    /\ step = "idle" /\ operations # <<>>
    /\ ~Running.cancelled
    /\ step' = IF Running.op = "save" THEN "willSave" ELSE "reading"
    /\ UNCHANGED <<operations, saving, file, buffer, resourceVersion, resource, watch, counters,
                   history>>

\* The end of a sync: revert() puts the dirty flag back to clear it, which takes
\* the text's version for the saved one if the flag was set.
EndSync(position) ==
    /\ Finish
    /\ IF Running.awaitedBy = "no" THEN UNCHANGED <<dirty, savedAt>>
       ELSE /\ dirty' = FALSE
            /\ savedAt' = IF Running.awaitedBy = "dirty" THEN position ELSE savedAt

StartCancelled ==
    /\ step = "idle" /\ operations # <<>>
    /\ Running.cancelled
    /\ EndSync(Position)
    /\ UNCHANGED <<file, text, undoable, contentChanges, resourceVersion, resource, watch,
                   counters, history>>

\* doReadAsFileStream: FileResource reads without an etag, so the file's content
\* and its metadata are asked for at once and come in either order.
ReadContent ==
    /\ step \in {"reading", "loading"}
    /\ received.content = <<>>
    /\ received' = [received EXCEPT !.content = <<disk>>]
    /\ UNCHANGED <<file, buffer, resourceVersion, queue, fileVersion, watch, counters, history>>

StatRead ==
    /\ step = "reading"
    /\ received.version = Nothing
    /\ received' = [received EXCEPT !.version = mtime]
    /\ UNCHANGED <<file, buffer, resourceVersion, queue, fileVersion, watch, counters, history>>

\* readStream has the metadata and a stream, which may still deliver nothing.
ReadVersion ==
    /\ step = "reading"
    /\ received.version # Nothing
    /\ step' = "loading"
    /\ fileVersion' = received.version
    /\ UNCHANGED <<file, buffer, resourceVersion, operations, saving, received, watch, counters,
                   history>>

MayLoad == ~Running.cancelled /\ ~dirty

\* Mutant: the version the resource knows is taken, not the one of the text.
LatestVersion == fileVersion

VersionAfterSync == IF MayLoad THEN fileVersion ELSE resourceVersion

\* The rest of doSync.  The text gets a new version if its content is another.
Load ==
    /\ step = "loading"
    /\ received.content # <<>>
    /\ received' = NotRead
    /\ resourceVersion' = VersionAfterSync
    /\ IF MayLoad /\ Head(received.content) # text
       THEN /\ text' = Head(received.content)
            /\ undoable' = Append(undoable, text)
       ELSE UNCHANGED <<text, undoable>>
    /\ EndSync(Position')
    /\ UNCHANGED <<file, contentChanges, fileVersion, watch, counters, history>>

VersionToSave == resourceVersion

\* doSave after the will-save participants.  Whether the changes are shorter
\* than the content decides between saveContentChanges and saveContents.
Prepare ==
    /\ step = "willSave"
    /\ IF Running.cancelled \/ (contentChanges = <<>> /\ ~Running.manual) THEN Finish
       ELSE /\ \E incremental \in BOOLEAN :
                  saving' = [text |-> text, changes |-> Len(contentChanges),
                             version |-> VersionToSave, position |-> Position,
                             incremental |-> incremental]
            /\ step' = "validating"
            /\ UNCHANGED operations
    /\ UNCHANGED <<file, buffer, resourceVersion, resource, watch, counters, history>>

\* Mutant: all changes are dropped, not only those that were saved.
NoChanges == <<>>

UnsavedChanges == SubSeq(contentChanges, saving.changes + 1, Len(contentChanges))

\* The text has another version than the one that is being saved.
OtherVersion == Position # saving.position \/ text # saving.text

\* doSave after Resource.save: changes of the text meanwhile count only if the
\* save was cancelled.
Saved ==
    /\ contentChanges' = UnsavedChanges
    /\ resourceVersion' = fileVersion'
    /\ IF Running.cancelled /\ OtherVersion THEN UNCHANGED <<dirty, savedAt>> ELSE Clean
    /\ Finish
    /\ UNCHANGED <<text, undoable, received>>

\* trySaveContentChanges has failed: Resource.save saves the content, but a
\* cancelled save returns as if it were done.
FallBack ==
    /\ UNCHANGED fileVersion
    /\ IF Running.cancelled
       THEN /\ Saved
            /\ skipped' = TRUE
       ELSE /\ step' = "validating"
            /\ saving' = [saving EXCEPT !.incremental = FALSE]
            /\ UNCHANGED <<operations, buffer, resourceVersion, received, skipped>>

\* modifiedSince of the file service.
ModifiedSince == saving.version < mtime

Validate ==
    /\ step = "validating"
    /\ ~ModifiedSince
    /\ step' = "writing"
    /\ UNCHANGED <<operations, saving, file, buffer, resourceVersion, resource, watch, counters,
                   history>>

ValidateUpdateFails ==
    /\ step = "validating"
    /\ ModifiedSince /\ saving.incremental
    /\ FallBack
    /\ UNCHANGED <<file, watch, counters, consented, undone, raced, torn, misapplied>>

\* FILE_MODIFIED_SINCE: shouldOverwrite() asks the user.
ValidateFails ==
    /\ step = "validating"
    /\ ModifiedSince /\ ~saving.incremental
    /\ step' = "asking"
    /\ UNCHANGED <<operations, saving, file, buffer, resourceVersion, resource, watch, counters,
                   history>>

\* Mutant: the second doWrite is awaited before the first gives back the lock.
OverwriteHoldingLock ==
    /\ step = "asking"
    /\ step' = "acquiring"
    /\ consented' = consented \cup {disk.base}
    /\ UNCHANGED <<operations, saving, file, buffer, resourceVersion, resource, watch, counters,
                   undone, raced, torn, skipped, misapplied>>

\* Yes: doWrite again, without an etag and so without a check.
Overwrite ==
    /\ step = "asking"
    /\ step' = "writing"
    /\ consented' = consented \cup {disk.base}
    /\ UNCHANGED <<operations, saving, file, buffer, resourceVersion, resource, watch, counters,
                   undone, raced, torn, skipped, misapplied>>

\* No: OutOfSync, which doSave swallows.
Refuse ==
    /\ step = "asking"
    /\ Finish
    /\ UNCHANGED <<file, buffer, resourceVersion, resource, watch, counters, history>>

\* The edits a sequence of change events makes, or takes back if it does so twice.
Toggled(changes) ==
    {e \in Edits : Cardinality({i \in DOMAIN changes : e \in changes[i].toggled}) % 2 = 1}

\* Some change goes back over a load.
Rebases(changes) == \E i \in DOMAIN changes : changes[i].from # changes[i].to

\* The changes lead from one base to another.
LeadsFrom(a, changes, b) ==
    /\ \A i \in DOMAIN changes : changes[i].from = (IF i = 1 THEN a ELSE changes[i - 1].to)
    /\ Last(changes).to = b

\* updateFile: change events applied to what the file contains.
Updated(content, changes) ==
    [base |-> IF Rebases(changes) THEN Last(changes).to ELSE content.base,
     edits |-> SymDiff(content.edits, Toggled(changes))]

CapturedChanges == SubSeq(contentChanges, 1, saving.changes)

\* An update whose changes go back over a load, and not from the file's content
\* to the text: contentChanges survives a load.
Misapplied ==
    /\ saving.incremental /\ Rebases(CapturedChanges)
    /\ ~LeadsFrom(disk.base, CapturedChanges, saving.text.base)

Write ==
    /\ step = "writing"
    /\ disk' = IF saving.incremental THEN Updated(disk, CapturedChanges) ELSE saving.text
    /\ mtime' = mtime + 1
    /\ changed' = TRUE
    /\ step' = "stating"
    /\ misapplied' = (misapplied \/ Misapplied)
    /\ UNCHANGED <<foreign, buffer, resourceVersion, operations, saving, resource, observed,
                   counters, consented, undone, raced, torn, skipped>>

\* updateFile fails before it has written, or after: in its stat, or its answer is
\* lost.
UpdateFails ==
    /\ step \in {"writing", "stating"} /\ saving.incremental
    /\ failures < MaxFailures
    /\ failures' = failures + 1
    /\ FallBack
    /\ UNCHANGED <<file, watch, edits, saves, reverts, consented, undone, raced, torn,
                   misapplied>>

\* writeFile fails before or after it has written; an error other than OutOfSync
\* ends the operation, and run() logs it.
WriteFails ==
    /\ step \in {"writing", "stating"} /\ ~saving.incremental
    /\ failures < MaxFailures
    /\ failures' = failures + 1
    /\ Finish
    /\ UNCHANGED <<file, buffer, resourceVersion, resource, watch, edits, saves, reverts,
                   history>>

\* The file service resolves what was written; the model's save comes to its end.
StatWritten ==
    /\ step = "stating"
    /\ fileVersion' = mtime
    /\ Saved
    /\ UNCHANGED <<file, watch, counters, history>>

-------------------------------------------------------------------------------
Operate ==
    \/ Start \/ StartCancelled
    \/ ReadContent \/ StatRead \/ ReadVersion \/ Load
    \/ Prepare \/ Validate \/ ValidateUpdateFails \/ ValidateFails \/ Write \/ StatWritten

Watching == FilesChanged \/ Synchronize

Next ==
    \/ Edit \/ Undo \/ Revert \/ ForeignChange
    \/ \E manual \in BOOLEAN : Save(manual)
    \/ Watching
    \/ Operate
    \/ Overwrite \/ Refuse
    \/ UpdateFails \/ WriteFails

Spec == Init /\ [][Next]_vars

\* Events arrive and what is awaited comes back.  Nothing makes the user answer.
FairSpec == Spec /\ WF_vars(Operate) /\ WF_vars(FilesChanged) /\ WF_vars(Synchronize)

-------------------------------------------------------------------------------
(***************************************************************************)
(* Properties.                                                             *)
(***************************************************************************)
\* The ways in which a save may meet a change it was not checked against: the
\* change raced with a write or a read, or the user went back behind it.
Unforeseen(b) == b \in raced \cup torn \cup undone \/ skipped \/ misapplied

\* "Dirty write prevention" (file-service.ts:895): a save never replaces what
\* somebody else has written unless the user agreed or had undone its loading, or
\* it came between the check and the end of the write, or between the content
\* and the version of a read.  (The other exceptions are a save that was given
\* up between its two attempts and taken for done, resource.ts:138-140, which
\* leaves the model with a version whose content it has never shown, and an
\* update with changes that were made to another text than the one loaded.)
ForeignChangesSurvive ==
    [][disk'.base < disk.base
           => disk.base \in consented \/ Unforeseen(disk.base) \/ misapplied']_vars

\* What makes that work: while the file has a content the text is not based on,
\* the version the model would save with is older than the file, however reads
\* that were given up have advanced the resource's own version.
VersionBelongsToText ==
    disk.base > text.base => resourceVersion < mtime \/ Unforeseen(disk.base)

\* A dirty model has change events to save: an auto save, which does nothing
\* without, never leaves it dirty, also after edits during an earlier save.
DirtyHasChanges == dirty => contentChanges # <<>>

\* A clean text follows the file: what somebody else writes is loaded in the end
\* if nothing is going on when the event comes, unless the user edits before, a
\* write races with it, or a dialog holds the writing lock for ever.
CleanTextFollowsFile ==
    \A b \in Bases :
        (disk.base = b /\ changed /\ fileVersion < mtime /\ ~dirty /\ operations = <<>>)
            ~> \/ text.base = b \/ disk.base # b
               \/ dirty \/ b \in raced
               \/ [](step = "asking")

\* Operations never wait for each other for ever: a save that asks, and writes
\* again when the user agrees, gives the writing lock back, and events that wait
\* for it are heard.
OperationsFinish ==
    (operations # <<>> \/ changed) ~> (operations = <<>> /\ ~changed) \/ [](step = "asking")

\* "`true` if there are unpersisted changes" (plugin/src/theia.d.ts:1486, of
\* TextDocument.isDirty): when nothing is going on, a model that is not dirty has
\* no edits the file does not have.
CleanIsPersisted ==
    (~dirty /\ operations = <<>> /\ text.base = disk.base) => text.edits = disk.edits

===============================================================================
