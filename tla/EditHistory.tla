---------------------------- MODULE EditHistory ----------------------------
(***************************************************************************)
(* The edits of one archive tab and its bounded Undo/Redo history: struct  *)
(* EditHistory of main.rs, the operations that record a transaction in it  *)
(* (a finished import, a merge, a deletion, a description), and Undo, Redo *)
(* and Save.  Between operations the entries of an archive are sorted by   *)
(* (lower-case name, type) with a stable sort, so the entry list is, for   *)
(* each key, the run of the entries with that key in order.  A file may    *)
(* hold several entries with one key, and any bytes, or none, for its      *)
(* description: Archive::open does not look.  The program finds entries by *)
(* their keys and shows, and remembers, a description as UTF-8.            *)
(***************************************************************************)
EXTENDS Integers, Sequences, FiniteSets

CONSTANTS
    Keys,         \* resource identities: (lower-case name, type)
    Data,         \* resource contents
    Texts,        \* the descriptions that the program writes: UTF-8
    Foreign,      \* other descriptions that files have: no text, or bytes
                  \* that are not UTF-8
    NoText,       \* that of them which is no description at all
    Read,         \* what Archive::description reads each as: itself if UTF-8
    NoFile,       \* what the disk holds of an archive never saved
    Twice,        \* keys that an opened file may hold more than once,
    MaxCopies,    \* and how often
    MaxSteps,     \* MAX_UNDO_STEPS
    MaxBytes,     \* MAX_UNDO_BYTES
    Sizes,        \* what estimate_transaction_bytes may say of an edit of
    TextSizes     \* resources, and of one of the description

ASSUME BoundsAssumption ==
    /\ MaxCopies \in Nat \ {0} /\ MaxSteps \in Nat \ {0} /\ MaxBytes \in Nat
    /\ Sizes \subseteq Nat /\ TextSizes \subseteq Nat
    /\ Twice \subseteq Keys

ASSUME TextsAssumption ==
    /\ NoText \in Foreign
    /\ Read \in [Texts \cup Foreign -> Texts]
    /\ \A t \in Texts : Read[t] = t

VARIABLES
    runs,     \* for each key, its entries in order (Archive.entries)
    text,     \* the archive's description
    dirty,    \* the tab's dirty flag
    undo, redo,   \* the two stacks, newest last
    bytes,    \* EditHistory.estimated_bytes
    disk,     \* what the archive file holds, or NoFile
    past, future, \* history variables: the states the stacks stand for, each
                  \* as it was shown then
    failedLate    \* history variable: whether a save failed after its rename
                  \* and none was done since

history  == <<undo, redo, bytes, past, future>>
vars == <<runs, text, dirty, disk, failedLate, history>>

----------------------------------------------------------------------------
Document == [runs |-> runs, text |-> text]
Run == UNION {[1..n -> Data] : n \in 0..MaxCopies}
Runs == {r \in [Keys -> Run] : \A k \in Keys \ Twice : Len(r[k]) <= 1}
States == [runs : Runs, text : Texts \cup Foreign]

\* What of a document the history promises to keep: the entries whose keys
\* the file does not hold twice, and the description as it is read.
Single == Keys \ Twice
Shown(doc) == [runs |-> [k \in Single |-> doc.runs[k]],
               text |-> Read[doc.text]]
Shows == [runs : [Single -> Run], text : Texts]
Saved == IF disk = NoFile THEN NoFile ELSE Shown(disk)

ASSUME NoFileAssumption == NoFile \notin States

\* Mutant: the entry is added in front, none is replaced.
WithFirstAdded(run, d) == <<d>> \o run

\* The run with d in place of its first entry; a run of d alone if empty.
WithFirst(run, d) == <<d>> \o SubSeq(run, 2, Len(run))

\* The ways to take positions out of 1..n, in order, and what they take.
Increasing(n) ==
    {at \in UNION {[1..m -> 1..n] : m \in 0..n} :
        \A i, j \in DOMAIN at : i < j => at[i] < at[j]}
Taken(at) == {at[i] : i \in DOMAIN at}
Selections == [Keys -> Increasing(MaxCopies)]
Pick(run, at) == [i \in DOMAIN at |-> run[at[i]]]

(***************************************************************************)
(* A resource transaction has, for each key it touched, the entries before *)
(* and after.  A deletion makes one change per deleted entry, so "before"  *)
(* may be longer than one; every other edit makes one change per key.      *)
(***************************************************************************)
ResourceChange == [before : Run, after : Run]
Resources(changes) == [kind |-> "resources", changes |-> changes]
Description(b, a)  == [kind |-> "description", before |-> b, after |-> a]

\* Mutant: a change without a target removes nothing.
AppliedKeeping(run, target, other) ==
    IF target = <<>> THEN run ELSE WithFirst(run, target[Len(target)])

\* One key's changes applied in order: each puts its target over the first
\* entry of the run (or adds it), or, having none, removes the first entry.
Applied(run, target, other) ==
    IF target = <<>>
    THEN SubSeq(run, Len(other) + 1, Len(run))
    ELSE WithFirst(run, target[Len(target)])

\* apply_archive_edit: the document that a transaction makes of doc.
Patched(doc, edit, forward) ==
    IF edit.kind = "description"
    THEN [doc EXCEPT !.text = IF forward THEN edit.after ELSE edit.before]
    ELSE [doc EXCEPT !.runs =
            [k \in DOMAIN doc.runs |->
               IF k \notin DOMAIN edit.changes THEN doc.runs[k]
               ELSE LET c == edit.changes[k] IN
                    IF forward THEN Applied(doc.runs[k], c.after, c.before)
                               ELSE Applied(doc.runs[k], c.before, c.after)]]

ApplyEdit(edit, forward) ==
    /\ runs' = Patched(Document, edit, forward).runs
    /\ text' = Patched(Document, edit, forward).text

----------------------------------------------------------------------------
(* The history: EditHistory::record, clear_redo and clear.                 *)

\* The estimated bytes of the first n transactions of a stack, n = 0..Len.
BytesUpTo(stack) ==
    LET sum[n \in 0..Len(stack)] ==
            IF n = 0 THEN 0 ELSE sum[n - 1] + stack[n].bytes
    IN  sum

StackBytes(stack) == BytesUpTo(stack)[Len(stack)]
Minus(a, b) == IF a - b \in Nat THEN a - b ELSE 0     \* saturating_sub

ClearHistory ==
    /\ undo' = <<>> /\ redo' = <<>> /\ bytes' = 0
    /\ past' = <<>> /\ future' = <<>>

\* Mutant: one transaction too many is kept.
ExpiredLate(stack, total) ==
    LET upTo == BytesUpTo(stack)
        tooLarge(n) == \/ Len(stack) - n > MaxSteps + 1
                       \/ Minus(total, upTo[n]) > MaxBytes
    IN  Cardinality({n \in 0..(Len(stack) - 1) : tooLarge(n)})

\* How often the loop at the end of record expires the oldest transaction:
\* it goes round again as long as what is left is too large, and what is
\* left only shrinks.
Expired(stack, total) ==
    LET upTo == BytesUpTo(stack)
        tooLarge(n) == \/ Len(stack) - n > MaxSteps
                       \/ Minus(total, upTo[n]) > MaxBytes
    IN  Cardinality({n \in 0..(Len(stack) - 1) : tooLarge(n)})

\* Mutants: the bytes of the redo stack stay counted; the redo stack stays.
RecordCountingRedo(edit, size) ==
    IF size > MaxBytes
    THEN ClearHistory
    ELSE LET t     == [edit |-> edit, dirtyBefore |-> dirty,
                       dirtyAfter |-> TRUE, bytes |-> size]
             stack == Append(undo, t)
             n     == Expired(stack, bytes + size)
         IN  /\ undo' = SubSeq(stack, n + 1, Len(stack))
             /\ bytes' = Minus(bytes + size, BytesUpTo(stack)[n])
             /\ redo' = <<>>
             /\ past' = SubSeq(Append(past, Shown(Document)), n + 1, Len(stack))
             /\ future' = <<>>

RecordKeepingRedo(edit, size) ==
    IF size > MaxBytes
    THEN ClearHistory
    ELSE LET t     == [edit |-> edit, dirtyBefore |-> dirty,
                       dirtyAfter |-> TRUE, bytes |-> size]
             stack == Append(undo, t)
             n     == Expired(stack, bytes + size)
         IN  /\ undo' = SubSeq(stack, n + 1, Len(stack))
             /\ bytes' = Minus(bytes + size, BytesUpTo(stack)[n])
             /\ past' = SubSeq(Append(past, Shown(Document)), n + 1, Len(stack))
             /\ UNCHANGED <<redo, future>>

Record(edit, size) ==
    IF size > MaxBytes
    THEN ClearHistory
    ELSE LET t     == [edit |-> edit, dirtyBefore |-> dirty,
                       dirtyAfter |-> TRUE, bytes |-> size]
             stack == Append(undo, t)
             total == Minus(bytes, StackBytes(redo)) + size
             n     == Expired(stack, total)
         IN  /\ undo' = SubSeq(stack, n + 1, Len(stack))
             /\ bytes' = Minus(total, BytesUpTo(stack)[n])
             /\ redo' = <<>>
             /\ past' = SubSeq(Append(past, Shown(Document)), n + 1, Len(stack))
             /\ future' = <<>>

\* Every edit that records a transaction: it sets the dirty flag too.
Commit(edit) ==
    /\ \E size \in IF edit.kind = "description" THEN TextSizes ELSE Sizes :
          Record(edit, size)
    /\ dirty' = TRUE
    /\ UNCHANGED <<disk, failedLate>>

----------------------------------------------------------------------------
(* The operations.                                                         *)

\* Files that an import or a merge brings in, one for each of some keys.
Incoming == UNION {[S -> Data] : S \in (SUBSET Keys) \ {{}}}

\* An import that ran to its end (process_add_batch): each incoming file
\* replaces the last entry with its key, which AddBatch::new looked up.
Import ==
    \E incoming \in Incoming :
        LET new(k) == IF runs[k] = <<>> THEN <<incoming[k]>>
                      ELSE [runs[k] EXCEPT ![Len(runs[k])] = incoming[k]]
            old(k) == IF runs[k] = <<>> THEN <<>>
                      ELSE <<runs[k][Len(runs[k])]>>
        IN  /\ runs' = [k \in Keys |-> IF k \in DOMAIN incoming
                                       THEN new(k) ELSE runs[k]]
            /\ UNCHANGED text
            /\ Commit(Resources([k \in DOMAIN incoming |->
                          [before |-> old(k), after |-> <<incoming[k]>>]]))

\* merge: each incoming entry replaces the first entry with its key.
Merge ==
    \E incoming \in Incoming :
        /\ runs' = [k \in Keys |-> IF k \in DOMAIN incoming
                        THEN WithFirst(runs[k], incoming[k])
                        ELSE runs[k]]
        /\ UNCHANGED text
        /\ Commit(Resources([k \in DOMAIN incoming |->
                      [before |-> SubSeq(runs[k], 1, IF runs[k] = <<>> THEN 0 ELSE 1),
                       after |-> <<incoming[k]>>]]))

\* delete_selected: any entries may be selected, a part of a run too.
Delete ==
    \E gone \in Selections, kept \in Selections :
        LET touched == {k \in Keys : gone[k] # <<>>} IN
        /\ touched # {}
        /\ \A k \in Keys :
              /\ Taken(gone[k]) \cup Taken(kept[k]) = 1..Len(runs[k])
              /\ Taken(gone[k]) \cap Taken(kept[k]) = {}
        /\ runs' = [k \in Keys |-> Pick(runs[k], kept[k])]
        /\ UNCHANGED text
        /\ Commit(Resources([k \in touched |->
                      [before |-> Pick(runs[k], gone[k]), after |-> <<>>]]))

\* Apply of the description dialog.  The transaction holds the description
\* as it was read: Undo writes that back, as a description of its own if
\* there was none, over whatever bytes the file had.
Describe ==
    \E t \in Texts :
        /\ t # Read[text]
        /\ text' = t
        /\ UNCHANGED runs
        /\ Commit(Description(Read[text], t))

\* undo_edit and redo_edit.  A transaction whose files are gone is refused
\* before anything is applied and stays on its stack: no step.
Undo ==
    /\ undo # <<>>
    /\ LET t == undo[Len(undo)] IN
       /\ ApplyEdit(t.edit, FALSE)
       /\ dirty' = t.dirtyBefore
       /\ redo' = Append(redo, t)
    /\ undo' = SubSeq(undo, 1, Len(undo) - 1)
    /\ past' = SubSeq(past, 1, Len(past) - 1)
    /\ future' = Append(future, Shown(Document))
    /\ UNCHANGED <<bytes, disk, failedLate>>

Redo ==
    /\ redo # <<>>
    /\ LET t == redo[Len(redo)] IN
       /\ ApplyEdit(t.edit, TRUE)
       /\ dirty' = t.dirtyAfter
       /\ undo' = Append(undo, t)
    /\ redo' = SubSeq(redo, 1, Len(redo) - 1)
    /\ past' = Append(past, Shown(Document))
    /\ future' = SubSeq(future, 1, Len(future) - 1)
    /\ UNCHANGED <<bytes, disk, failedLate>>

\* Mutant: the history survives the save.
SaveKeepingHistory ==
    /\ disk' = Document
    /\ dirty' = FALSE /\ failedLate' = FALSE
    /\ UNCHANGED <<runs, text, history>>

\* save.  One that fails before its rename changes nothing.
Save ==
    /\ disk' = Document
    /\ dirty' = FALSE /\ failedLate' = FALSE
    /\ ClearHistory
    /\ UNCHANGED <<runs, text>>

\* Archive::save renamed the new file into place and then failed to restore
\* its permissions or to reopen it; main.rs only reports the error.
SaveFailsLate ==
    /\ disk' = Document /\ failedLate' = TRUE
    /\ UNCHANGED <<runs, text, dirty, history>>

Init ==
    /\ \/ /\ runs \in Runs /\ text \in Texts \cup Foreign
          /\ disk = Document /\ dirty = FALSE               \* open_path
       \/ /\ runs = [k \in Keys |-> <<>>] /\ text = NoText
          /\ disk = NoFile /\ dirty = TRUE                  \* new_archive
    /\ undo = <<>> /\ redo = <<>> /\ bytes = 0
    /\ past = <<>> /\ future = <<>> /\ failedLate = FALSE

Next == Import \/ Merge \/ Delete \/ Describe \/ Undo \/ Redo
        \/ Save \/ SaveFailsLate

Spec == Init /\ [][Next]_vars

----------------------------------------------------------------------------
Edits ==
    [kind : {"resources"},
     changes : UNION {[S -> ResourceChange] : S \in SUBSET Keys}]
    \cup [kind : {"description"}, before : Texts, after : Texts]
Transactions == [edit : Edits, dirtyBefore : BOOLEAN, dirtyAfter : {TRUE},
                 bytes : Nat]

\* The types of the tab's state.  No operation adds an entry under a key the
\* archive already has, so no run outgrows the longest one a file may hold.
TypeOK ==
    /\ runs \in Runs /\ text \in Texts \cup Foreign
    /\ dirty \in BOOLEAN /\ failedLate \in BOOLEAN
    /\ undo \in Seq(Transactions) /\ redo \in Seq(Transactions)
    /\ bytes \in Nat
    /\ disk \in States \cup {NoFile}
    /\ past \in Seq(Shows) /\ future \in Seq(Shows)
    /\ Len(past) = Len(undo) /\ Len(future) = Len(redo)

\* A tab whose dirty flag is off holds what its file holds, so that closing
\* it or quitting without a question loses nothing: each entry whose key the
\* file does not hold twice, and the description as it is read.  The flag is
\* never computed: Undo copies it from the transaction it reverts.  A save
\* that failed after its rename breaks this until the next save.
CleanIsSaved == ~dirty => Saved = Shown(Document) \/ failedLate

\* A tab whose dirty flag is off holds exactly what its file holds, keys that
\* the file holds twice and the bytes of the description included.  False, and
\* not checked: Undo finds entries by their keys and writes a description that was read.
CleanIsExact == ~dirty => disk = Document \/ failedLate

\* Undone and undoable transactions together stay within MAX_UNDO_STEPS,
\* although record only bounds the undo stack.
StepsBounded == Len(undo) + Len(redo) <= MaxSteps

\* The running byte total is the sum over both stacks (no saturation ever
\* hides a miscount) and stays within MAX_UNDO_BYTES.
BytesBounded ==
    /\ bytes = StackBytes(undo) + StackBytes(redo)
    /\ bytes <= MaxBytes

\* What makes the promise inductive: every transaction of both stacks leads
\* from the state on its one side to the state on its other side and back ...
Links(edit, pre, post) ==
    /\ Patched(pre, edit, TRUE) = post
    /\ Patched(post, edit, FALSE) = pre

AfterUndo(i)  == IF i = Len(undo) THEN Shown(Document) ELSE past[i + 1]
BeforeRedo(i) == IF i = Len(redo) THEN Shown(Document) ELSE future[i + 1]

Linked ==
    /\ \A i \in 1..Len(undo) : Links(undo[i].edit, past[i], AfterUndo(i))
    /\ \A i \in 1..Len(redo) : Links(redo[i].edit, BeforeRedo(i), future[i])

\* ... and one that would mark the tab clean leads back to what is on disk.
CleanLinked ==
    /\ \A i \in 1..Len(undo) :
          ~undo[i].dirtyBefore => Saved = past[i] \/ failedLate
    /\ \A i \in 1..Len(redo) :
          ~redo[i].dirtyBefore => Saved = BeforeRedo(i) \/ failedLate

\* Undo takes the document, as it is shown, back to what it was before the
\* edit it reverts.
UndoReturns == [][Undo => Shown(Document)' = past[Len(past)]]_vars

\* Undo returns the tab to the state before the edit and Redo to the state
\* after it, for every edit still in the history; edits, eviction and saves
\* move on the time line as LinearHistory says.
Promise == INSTANCE LinearHistory
               WITH States <- Shows, now <- Shown(Document), disk <- Saved
KeepsPromise == Promise!Spec
=============================================================================
