------------------------------ MODULE Staging ------------------------------
(***************************************************************************)
(* The temporary directories that resources are exported to, for the       *)
(* clipboard and for drags out of the window, and what refers to them.  An *)
(* import does not read a file: the new entry only names it (ExternalFile) *)
(* until the archive is saved.  Files pasted or dropped from such a        *)
(* directory have to outlive the entries, the transactions of the history  *)
(* and the import that name them.  Clipboard exports are pruned by looking *)
(* for references; exports of drags are removed by a worker thread.        *)
(*                                                                         *)
(* Editing while an import runs is the subject of Editor.  Here the user   *)
(* does then what leaves the entries' keys alone: copying, pasting and     *)
(* saving, by the menus, which only a question covers.                     *)
(***************************************************************************)
EXTENDS Naturals, Sequences, FiniteSets, SequencesExt, Functions

CONSTANTS
    Tabs,
    Keys,
    None,          \* no entry, no tab, no import, nothing on the clipboard
    Own,           \* where the data of an entry are: in an archive file
    MaxSteps,      \* MAX_UNDO_STEPS
    MaxRetained,   \* MAX_RETAINED_EXPORTS
    MaxStaged,     \* bound: directories made
    MaxTurns       \* bound: operations of the user

ASSUME StagingAssumption ==
    /\ MaxSteps \in Nat \ {0} /\ MaxRetained \in Nat /\ MaxStaged \in Nat /\ MaxTurns \in Nat
    /\ None # Own /\ {None, Own} \cap Nat = {} /\ None \notin Tabs
    /\ IsFiniteSet(Keys)

VARIABLES
    shown,      \* the active tab, or None
    live,       \* archive and history of the shown tab (HakEditor's fields)
    tabs,       \* per open tab its TabState, the shown one's as last synced
    staged,     \* the directories ever made, in order: purpose, keys, origin
    files,      \* the directories that exist
    clips,      \* clipboard_exports; directories are numbered as they are
                \* made, so the last of them is the one with the largest number
    clipboard,  \* the directory whose files the system clipboard lists, if
                \* the last program that set it was this one
    drags,      \* directories of drags whose thread still runs
    retained,   \* directories of finished drags, oldest first
    batch,      \* the running import (pending_add), or None
    turns

vars == <<shown, live, tabs, staged, files, clips, clipboard, drags,
          retained, batch, turns>>

----------------------------------------------------------------------------
(* Archives and their histories.                                           *)

Dirs == 1..MaxStaged
Sources == Dirs \cup {Own}
Partial(S) == UNION {[K -> S] : K \in SUBSET Keys}

\* A transaction: per key it touched the data before and after.  The ghost
\* disturbed tells of an import during which a directory was pruned.
Transactions ==
    [changes : Partial([before : Sources \cup {None},
                        after : Sources \cup {None}]),
     disturbed : BOOLEAN]
Documents == [entries : [Keys -> Sources \cup {None}],
              undo : Seq(Transactions), redo : Seq(Transactions)]

Opened(K) == [entries |-> [k \in Keys |-> IF k \in K THEN Own ELSE None],
              undo |-> <<>>, redo |-> <<>>]
NoDocument == Opened({})
Present(doc) == {k \in Keys : doc.entries[k] # None}
\* A function that maps x to v too.
With(f, x, v) == [y \in DOMAIN f \cup {x} |-> IF y = x THEN v ELSE f[y]]
Readable(source) == source \in files \cup {Own, None}

\* EditHistory::record, without the byte limit.
Recorded(doc, t) ==
    [doc EXCEPT !.undo = LET s == Append(@, t) IN
                         IF Len(s) > MaxSteps THEN Tail(s) ELSE s,
                !.redo = <<>>]

Without(doc, K) ==
    Recorded([doc EXCEPT !.entries = [k \in Keys |-> IF k \in K THEN None ELSE @[k]]],
             [changes |-> [k \in K |-> [before |-> doc.entries[k], after |-> None]],
              disturbed |-> FALSE])

\* The directories that entries or transactions of a document name.
InTransaction(t) ==
    UNION {{t.changes[k].before, t.changes[k].after} : k \in DOMAIN t.changes}
InEntries(doc) == Range(doc.entries) \ {Own, None}
InHistory(doc) ==
    (UNION {InTransaction(t) : t \in Range(doc.undo) \cup Range(doc.redo)})
        \ {Own, None}

\* The current document of an open tab, and the tabs after a sync.
Doc(t) == IF t = shown THEN live ELSE tabs[t]
Synced == IF shown = None THEN tabs ELSE [tabs EXCEPT ![shown] = live]

----------------------------------------------------------------------------
(* Clipboard exports.                                                      *)

Refers(doc, d) == d \in InEntries(doc) \cup InHistory(doc)

IsNewest(d, exports) == \A e \in exports : e <= d

\* Mutants: histories are not looked at; the shown archive is not; the newest
\* export is not kept for the sake of the system clipboard.
KeptWithoutHistories(exports, doc, copies) ==
    {d \in exports : \/ IsNewest(d, exports) \/ d \in InEntries(doc)
                     \/ \E t \in DOMAIN copies : d \in InEntries(copies[t])}
KeptWithoutLive(exports, doc, copies) ==
    {d \in exports : \/ IsNewest(d, exports)
                     \/ \E t \in DOMAIN copies : Refers(copies[t], d)}
KeptWithoutNewest(exports, doc, copies) ==
    {d \in exports : \/ Refers(doc, d)
                     \/ \E t \in DOMAIN copies : Refers(copies[t], d)}

\* What prune_clipboard_exports keeps: the newest export, and those that the
\* shown archive, a tab's copy or a history refers to; those that only a
\* running import refers to are not kept.
Kept(exports, doc, copies) ==
    {d \in exports : \/ IsNewest(d, exports)
                     \/ Refers(doc, d)
                     \/ \E t \in DOMAIN copies : Refers(copies[t], d)}

Prune(exports, existing, doc, copies) ==
    LET gone == exports \ Kept(exports, doc, copies) IN
    /\ clips' = exports \ gone
    /\ files' = existing \ gone
    /\ batch' = IF batch # None /\ gone # {}
                THEN [batch EXCEPT !.disturbed = TRUE] ELSE batch

\* Nothing modal is open: a question of the import is.
Asked == batch # None /\ batch.question # None
Unasked == shown # None /\ ~Asked
Idle == shown # None /\ batch = None

NewDir == Len(staged) + 1
Staged(purpose, K) ==
    /\ Len(staged) < MaxStaged
    /\ staged' = Append(staged, [purpose |-> purpose, keys |-> K, from |-> shown])

\* copy_selected_to_clipboard.  A resource that cannot be read, or a failure
\* of the system clipboard, drops the new directory: no step.
Copy(K, cut) ==
    /\ Unasked /\ (cut => batch = None)
    /\ K # {} /\ K \subseteq Present(live)
    /\ \A k \in K : Readable(live.entries[k])
    /\ Staged("clipboard", K)
    /\ clipboard' = NewDir
    /\ Prune(clips \cup {NewDir}, files \cup {NewDir}, live, tabs)
    /\ live' = IF cut THEN Without(live, K) ELSE live
    /\ UNCHANGED <<shown, tabs, drags, retained>>

----------------------------------------------------------------------------
(* Importing what a directory holds: add_paths and process_add_batch.      *)

NewBatch == [queue |-> <<>>, question |-> None, policy |-> "ask",
             changes |-> <<>>, disturbed |-> FALSE]

\* add_incoming: the entry names the file.
Added(b, doc, item) ==
    LET k == item.key
        before == IF k \in DOMAIN b.changes THEN b.changes[k].before
                  ELSE doc.entries[k]
    IN  [doc   |-> [doc EXCEPT !.entries[k] = item.dir],
         batch |-> [b EXCEPT !.changes = With(@, k, [before |-> before, after |-> item.dir])]]

\* One round of the loop of process_add_batch.
Round(b, doc) ==
    LET item == Head(b.queue)
        rest == [b EXCEPT !.queue = Tail(@)]
        new  == item.key \notin Present(doc)
    IN CASE item.dir \notin files \/ (~new /\ b.policy = "skip") ->
               [batch |-> rest, doc |-> doc]
         [] item.dir \in files /\ ~new /\ b.policy = "ask" ->
               [batch |-> [rest EXCEPT !.question = item], doc |-> doc]
         [] item.dir \in files /\ (new \/ b.policy = "replace") ->
               Added(rest, doc, item)

\* The end of process_add_batch: the import goes on, or is recorded.
Continues(r) ==
    LET done == r.batch.question = None /\ r.batch.queue = <<>> IN
    /\ batch' = IF done THEN None ELSE r.batch
    /\ live' = IF done /\ DOMAIN r.batch.changes # {}
               THEN Recorded(r.doc, [changes |-> r.batch.changes,
                                     disturbed |-> r.batch.disturbed])
               ELSE r.doc

Files(d) == {[dir |-> d, key |-> k] : k \in staged[d].keys}

\* An import may have many more files than the model's: which of these it
\* gets to in the frame it starts, or goes on after an answer, is open.
AddPaths(d) ==
    \E paths \in SetToSeqs(Files(d)) :
        batch' = [IF batch = None THEN NewBatch ELSE batch
                  EXCEPT !.queue = @ \o paths]

\* paste_from_clipboard: files that are gone are filtered out.
Paste ==
    /\ Unasked
    /\ clipboard # None /\ clipboard \in files
    /\ AddPaths(clipboard)
    /\ UNCHANGED <<shown, live, tabs, staged, files, clips, clipboard, drags, retained>>

\* A frame of a running import.  How many files it takes depends on the time.
Frame ==
    /\ batch # None /\ ~Asked
    /\ Continues(Round(batch, live))
    /\ UNCHANGED <<shown, tabs, staged, files, clips, clipboard, drags, retained>>

Answer(choice) ==
    /\ Asked
    /\ LET b == [batch EXCEPT !.question = None,
                              !.policy = CASE choice = "replace all" -> "replace"
                                           [] choice = "skip all" -> "skip"
                                           [] OTHER -> @]
       IN CASE choice \in {"replace", "replace all"} ->
                  Continues(Added(b, live, batch.question))
            [] choice \in {"skip", "skip all"} ->
                  Continues([batch |-> b, doc |-> live])
            [] choice = "cancel" ->
                  Continues([batch |-> [b EXCEPT !.queue = <<>>], doc |-> live])
    /\ UNCHANGED <<shown, tabs, staged, files, clips, clipboard, drags, retained>>

----------------------------------------------------------------------------
(* Drags.                                                                  *)

\* drag_selected, and the staging of the files when a target first asks.
Drag(K) ==
    /\ Idle
    /\ K # {} /\ K \subseteq Present(live)
    /\ \A k \in K : Readable(live.entries[k])
    /\ Staged("drag", K)
    /\ files' = files \cup {NewDir}
    /\ drags' = drags \cup {NewDir}
    /\ UNCHANGED <<shown, live, tabs, clips, clipboard, retained, batch>>

\* The files of a drag are dropped on a tab, which is then shown; the
\* archive they come from ignores them (filter_same_archive_drag_paths).
\* They are taken up in a later frame, when the drag may have ended.
Drop(d, t) ==
    /\ Idle
    /\ d \in files /\ staged[d].purpose = "drag"
    /\ t \in DOMAIN tabs /\ t # staged[d].from
    /\ shown' = t
    /\ tabs' = IF t = shown THEN tabs ELSE Synced
    /\ live' = Doc(t)
    /\ AddPaths(d)
    /\ UNCHANGED <<staged, files, clips, clipboard, drags, retained>>

\* The thread of a drag ends: retain_temporary_directory, or the directory
\* goes with an error.
DragEnds(d) ==
    /\ d \in drags
    /\ drags' = drags \ {d}
    /\ LET kept == Append(retained, d) IN
       \/ /\ Len(kept) <= MaxRetained
          /\ retained' = kept /\ files' = files
       \/ /\ Len(kept) > MaxRetained
          /\ retained' = Tail(kept) /\ files' = files \ {Head(kept)}
       \/ /\ retained' = retained /\ files' = files \ {d}
    /\ UNCHANGED <<shown, live, tabs, staged, clips, clipboard, batch>>

\* The minute of the oldest export is over.
Expire ==
    /\ retained # <<>>
    /\ retained' = Tail(retained)
    /\ files' = files \ {Head(retained)}
    /\ UNCHANGED <<shown, live, tabs, staged, clips, clipboard, drags, batch>>

----------------------------------------------------------------------------
(* The other operations on tabs and archives.                              *)

Delete(K) ==
    /\ Idle
    /\ K # {} /\ K \subseteq Present(live)
    /\ live' = Without(live, K)
    /\ UNCHANGED <<shown, tabs, staged, files, clips, clipboard, drags, retained, batch>>

\* undo_edit and redo_edit.  validate_history_entry refuses to bring back
\* data that are gone: no step.
Revised(doc, data) ==
    [k \in Keys |-> IF k \in DOMAIN data THEN data[k] ELSE doc.entries[k]]

Undo ==
    /\ Idle /\ live.undo # <<>>
    /\ LET t == Last(live.undo)
           data == [k \in DOMAIN t.changes |-> t.changes[k].before] IN
       /\ \A k \in DOMAIN data : Readable(data[k])
       /\ live' = [entries |-> Revised(live, data),
                   undo |-> Front(live.undo), redo |-> Append(live.redo, t)]
    /\ UNCHANGED <<shown, tabs, staged, files, clips, clipboard, drags, retained, batch>>

Redo ==
    /\ Idle /\ live.redo # <<>>
    /\ LET t == Last(live.redo)
           data == [k \in DOMAIN t.changes |-> t.changes[k].after] IN
       /\ \A k \in DOMAIN data : Readable(data[k])
       /\ live' = [entries |-> Revised(live, data),
                   undo |-> Append(live.undo, t), redo |-> Front(live.redo)]
    /\ UNCHANGED <<shown, tabs, staged, files, clips, clipboard, drags, retained, batch>>

\* save: every resource is copied into the archive file, which fails, before
\* anything is changed, if one cannot be read.
Save ==
    /\ Unasked
    /\ \A k \in Keys : Readable(live.entries[k])
    /\ live' = Opened(Present(live))   \* slices of the new file
    /\ tabs' = [tabs EXCEPT ![shown] = live']
    /\ Prune(clips, files, live', tabs')
    /\ UNCHANGED <<shown, staged, clipboard, drags, retained>>

Open(t, K) ==
    /\ batch = None /\ t \notin DOMAIN tabs
    /\ live' = Opened(K)
    /\ tabs' = With(Synced, t, live')
    /\ shown' = t
    /\ UNCHANGED <<staged, files, clips, clipboard, drags, retained, batch>>

Switch(t) ==
    /\ Idle /\ t \in DOMAIN tabs \ {shown}
    /\ tabs' = Synced /\ live' = tabs[t] /\ shown' = t
    /\ UNCHANGED <<staged, files, clips, clipboard, drags, retained, batch>>

\* close_tab, of a saved tab or after the user discarded its changes.  Which
\* neighbour of a shown tab is shown next is left open.
Close(t) ==
    /\ Idle /\ t \in DOMAIN tabs
    /\ tabs' = Restrict(Synced, DOMAIN tabs \ {t})
    /\ shown' \in IF t # shown THEN {shown}
                  ELSE IF DOMAIN tabs = {t} THEN {None} ELSE DOMAIN tabs \ {t}
    /\ live' = IF shown' = None THEN NoDocument ELSE Synced[shown']
    /\ Prune(clips, files, live', tabs')
    /\ UNCHANGED <<staged, clipboard, drags, retained>>

Init ==
    /\ shown = None /\ live = NoDocument /\ tabs = <<>>
    /\ staged = <<>> /\ files = {} /\ clips = {} /\ clipboard = None
    /\ drags = {} /\ retained = <<>> /\ batch = None /\ turns = 0

UserActs ==
    \/ \E K \in SUBSET Keys :
          \/ \E cut \in BOOLEAN : Copy(K, cut)
          \/ Drag(K)
          \/ Delete(K)
    \/ \E t \in Tabs : Switch(t) \/ Close(t) \/ \E d \in Dirs : Drop(d, t)
    \/ Paste \/ Undo \/ Redo \/ Save

Proceeds ==
    \/ \E t \in Tabs, K \in {{}, Keys} : Open(t, K)
    \/ Frame
    \/ \E c \in {"replace", "replace all", "skip", "skip all", "cancel"} : Answer(c)
    \/ \E d \in Dirs : DragEnds(d)
    \/ Expire

Next ==
    \/ UserActs /\ turns < MaxTurns /\ turns' = turns + 1
    \/ Proceeds /\ turns' = turns

Spec == Init /\ [][Next]_vars

----------------------------------------------------------------------------
Batches ==
    [queue : Seq([dir : Dirs, key : Keys]),
     question : [dir : Dirs, key : Keys] \cup {None},
     policy : {"ask", "replace", "skip"},
     changes : Partial([before : Sources \cup {None}, after : Dirs]),
     disturbed : BOOLEAN]

\* The types; and each directory that exists is in one list.  Not among the
\* properties that are checked.
TypeOK ==
    /\ tabs \in [DOMAIN tabs -> Documents] /\ DOMAIN tabs \subseteq Tabs
    /\ live \in Documents
    /\ shown \in IF DOMAIN tabs = {} THEN {None} ELSE DOMAIN tabs
    /\ staged \in Seq([purpose : {"clipboard", "drag"}, keys : SUBSET Keys, from : Tabs])
    /\ Len(staged) <= MaxStaged
    /\ files \subseteq DOMAIN staged /\ clipboard \in DOMAIN staged \cup {None}
    /\ retained \in Seq(DOMAIN staged) /\ IsInjective(retained)
    /\ clips \cap (drags \cup Range(retained)) = {} /\ drags \cap Range(retained) = {}
    /\ files = clips \cup drags \cup Range(retained)
    /\ batch \in Batches \cup {None}
    /\ turns \in 0..MaxTurns

Exports == {d \in DOMAIN staged : staged[d].purpose = "clipboard"}

\* No open archive names a file of a clipboard export that was pruned: what
\* was pasted can be saved, however long after, whatever was copied, closed
\* or saved in between, in this tab or another.
PastedReadable ==
    \A t \in DOMAIN tabs : InEntries(Doc(t)) \cap Exports \subseteq files

\* Nor does a transaction, so that undo and redo can bring back what was
\* pasted; except one of an import during which something was pruned, for
\* what an import replaced is not looked at before it is recorded.
PastedRestorable ==
    \A t \in DOMAIN tabs :
        \A s \in Range(Doc(t).undo) \cup Range(Doc(t).redo) :
            ~s.disturbed => InTransaction(s) \cap Exports \subseteq files

\* What the system clipboard lists can be pasted, here or in a file manager.
ClipboardReadable == clipboard # None => clipboard \in files

\* Every resource of an open archive can be read (for one dropped from
\* another tab, the code keeps this for a minute only).  It is false, and not among
\* the properties that are checked: see the README.
EntriesReadable ==
    \A t \in DOMAIN tabs : InEntries(Doc(t)) \subseteq files
=============================================================================
