------------------------------- MODULE Editor -------------------------------
(***************************************************************************)
(* The tabs of the window, the import that runs over many frames, and the  *)
(* dialogs that close tabs and quit: HakEditor of main.rs.                 *)
(*                                                                         *)
(* The active tab is edited in a live copy (archive, dirty, edit_history); *)
(* its entry in tabs is refreshed by sync_current_tab only.  An import     *)
(* remembers the INDEX of its tab and the INDICES of the entries it may    *)
(* replace, and goes on in every frame until its files are used up.        *)
(* Dialogs block shortcuts, tab clicks and dropped files, but a drop on    *)
(* another tab switches to it at once, and an import without an open       *)
(* question blocks neither the menus nor the buttons below the list.  What *)
(* can go wrong then is told apart by the history variable doubt.          *)
(***************************************************************************)
EXTENDS Integers, Sequences, FiniteSets, SequencesExt

CONSTANTS
    Files,         \* paths of archives
    KeyCount,      \* resource identities are 1..KeyCount, in sorting order
    Incoming,      \* what imported files hold
    Original,      \* what the entries of the archive files hold at first
    Contents,      \* what these files may be: sorted, maybe a key twice
    NoFile,        \* the path of an archive never saved
    None,          \* no conflict, no entry
    MaxIds, MaxTabs, MaxQueue, MaxSteps   \* bounds of the model

Keys == 1..KeyCount
Entry == [key : Keys, data : Incoming \cup {Original}]

ASSUME EditorAssumption ==
    /\ KeyCount \in Nat \ {0}
    /\ {MaxIds, MaxTabs, MaxQueue, MaxSteps} \subseteq Nat \ {0}
    /\ NoFile \notin Files /\ Original \notin Incoming /\ None \notin Entry

ASSUME ContentsAssumption ==
    \A es \in Contents :
        /\ es \in Seq(Entry)
        /\ \A i, j \in DOMAIN es : i <= j => es[i].key <= es[j].key

VARIABLES
    tabs,      \* tabs: the state each tab had when it was synced last
    live,      \* the active tab's state; meaningless when active = 0
    active,    \* active_tab, or 0
    import,    \* pending_add, or NoImport
    confirm,   \* confirm_close_tab, or 0
    quitting,  \* quit_in_progress
    dropped,   \* pending_drop_files
    ended,     \* "quit" after force_quit, "panic" after an index error; or "no"
    disk,      \* what each archive file holds
    phase,     \* what this frame of an import had last: "turn", "drop", "user"
    opened,    \* history variable: how many archives were opened or created
    doubt,     \* history variable: the archives for which a clean mark may lie
    steps      \* bound: how many edits and saves were made

vars == <<tabs, live, active, import, dropped, confirm, quitting, ended, disk,
          phase, opened, doubt, steps>>

----------------------------------------------------------------------------
(* Entries and edits.                                                      *)

\* The indices of the entries with a key.
At(entries, k) == {i \in DOMAIN entries : entries[i].key = k}

\* finish_bulk_add's stable sort: the entry at i goes to its place.
Place(entries, i) ==
    Cardinality({j \in DOMAIN entries :
        \/ entries[j].key < entries[i].key
        \/ entries[j].key = entries[i].key /\ j <= i})
Sorted(entries) ==
    [n \in DOMAIN entries |->
        entries[CHOOSE i \in DOMAIN entries : Place(entries, i) = n]]

\* Whether a key is held more than once.
Doubled(entries) == \E i, j \in DOMAIN entries : i # j /\ entries[i].key = entries[j].key

\* The numbers in a set, in order.
InOrder(S) == [n \in 1..Cardinality(S) |->
                  CHOOSE i \in S : Cardinality({j \in S : j <= i}) = n]

\* apply_archive_edit of one change: a key and its entry before and after.
Apply(entries, change, target) ==
    LET at == At(entries, change.key) IN
    IF at # {}
    THEN LET i == CHOOSE i \in at : \A j \in at : i <= j IN
         IF target = None THEN RemoveAt(entries, i)
                          ELSE [entries EXCEPT ![i] = target]
    ELSE IF target = None THEN entries ELSE Append(entries, target)

\* All changes of a transaction, one after the other: the entries after n of
\* them.
Patches(entries, changes, target) ==
    LET es[n \in 0..Len(changes)] ==
            IF n = 0 THEN entries ELSE Apply(es[n - 1], changes[n], target[n])
    IN  es

\* undo_edit and redo_edit apply all changes and sort at the end.
Patched(entries, changes, target) ==
    Sorted(Patches(entries, changes, target)[Len(changes)])
Undone(entries, changes) ==
    Patched(entries, changes, [n \in DOMAIN changes |-> changes[n].before])
Redone(entries, changes) ==
    Patched(entries, changes, [n \in DOMAIN changes |-> changes[n].after])

\* EditHistory::record; its bounds are the business of module EditHistory.
Recorded(tab, changes, dirtyBefore) ==
    [tab EXCEPT !.undo = Append(@, [changes |-> changes, dirtyBefore |-> dirtyBefore]),
                !.redo = <<>>]

\* TabState::new
Tab(id, file, entries, dirty) ==
    [id |-> id, file |-> file, entries |-> entries, dirty |-> dirty,
     undo |-> <<>>, redo |-> <<>>]

----------------------------------------------------------------------------
(* Tabs: sync_current_tab, load_tab, switch_tab and close_tab, as functions *)
(* of the window's tabs, live copy and active index.                       *)

NoImport == [target |-> 0]
Pending == import # NoImport
Asking == Pending /\ import.conflict # None

Window == [tabs |-> tabs, live |-> live, active |-> active]
Becomes(w) == tabs' = w.tabs /\ live' = w.live /\ active' = w.active

Synced(w) == IF w.active = 0 THEN w.tabs ELSE [w.tabs EXCEPT ![w.active] = w.live]
LoadTab(all, i) == [tabs |-> all, live |-> all[i], active |-> i]
\* Mutant: the live copy is not written back first.
SwitchTabUnsynced(w, i) == IF i = w.active THEN w ELSE LoadTab(w.tabs, i)
SwitchTab(w, i) == IF i = w.active THEN w ELSE LoadTab(Synced(w), i)

CloseTab(w, i) ==
    LET rest == RemoveAt(Synced(w), i) IN
    IF rest = <<>>
    THEN [w EXCEPT !.tabs = rest, !.active = 0]
    ELSE LoadTab(rest, IF w.active > i THEN w.active - 1
                       ELSE IF w.active = i /\ i > Len(rest) THEN Len(rest)
                       ELSE w.active)

\* The tabs as the user sees them, and whether one has changes not on disk.
Shown == Synced(Window)
Unsaved(tab) == tab.file = NoFile \/ disk[tab.file] # Sorted(tab.entries)

----------------------------------------------------------------------------
(* The import: AddBatch::new, add_incoming and process_add_batch.          *)

\* The last entry with each key, or 0: collect keeps the last.
Lookup(entries) ==
    [k \in Keys |-> IF At(entries, k) = {} THEN 0
                    ELSE CHOOSE i \in At(entries, k) :
                            \A j \in At(entries, k) : j <= i]

NewImport(queue) ==
    [target |-> active, home |-> live.id, shifted |-> FALSE,
     queue |-> queue, conflict |-> None, policy |-> "ask", changed |-> FALSE,
     lookup |-> Lookup(live.entries), changes |-> <<>>, dirtyBefore |-> live.dirty]

\* batch.changes: the first "before" and the last "after" of each key.
Noted(changes, key, before, after) ==
    LET at == {i \in DOMAIN changes : changes[i].key = key} IN
    IF at = {} THEN Append(changes, [key |-> key, before |-> before, after |-> after])
    ELSE [changes EXCEPT ![CHOOSE i \in at : TRUE].after = after]

\* The key of an added entry is known from then on.
Learned(lookup, key, at) == [lookup EXCEPT ![key] = at]

\* Mutant: whatever is at the index is replaced.
AddAnyhow(state, entry, at) ==
    LET es     == state.tab.entries
        before == IF at = 0 THEN None ELSE es[at]
        added  == [state EXCEPT !.batch.changed = TRUE,
                                !.batch.changes = Noted(@, entry.key, before, entry)]
    IN  IF at = 0
        THEN [added EXCEPT !.tab.entries = Append(@, entry),
                           !.batch.lookup = Learned(@, entry.key, Len(es) + 1)]
        ELSE IF at \notin DOMAIN es THEN state
        ELSE [added EXCEPT !.tab.entries[at] = entry]

\* add_incoming at an index of the entries, or at 0 for a new entry.  An
\* index that no longer fits is refused and only counted as a failure.
Add(state, entry, at) ==
    LET es     == state.tab.entries
        before == IF at = 0 THEN None ELSE es[at]
        added  == [state EXCEPT !.batch.changed = TRUE,
                                !.batch.changes = Noted(@, entry.key, before, entry)]
    IN  IF at = 0
        THEN [added EXCEPT !.tab.entries = Append(@, entry),
                           !.batch.lookup = Learned(@, entry.key, Len(es) + 1)]
        ELSE IF at \notin DOMAIN es THEN state
        ELSE IF es[at].key # entry.key THEN state
        ELSE [added EXCEPT !.tab.entries[at] = entry]

\* What is done about the open question.
Answered(state, answer) ==
    LET c == state.batch.conflict
        cleared == [state EXCEPT !.batch.conflict = None]
    IN  CASE answer = "continue"   -> state
          [] answer = "replace"    -> Add(cleared, c.entry, c.at)
          [] answer = "replaceAll" ->
                Add([cleared EXCEPT !.batch.policy = "replaceAll"], c.entry, c.at)
          [] answer = "skip"       -> cleared
          [] answer = "skipAll"    -> [cleared EXCEPT !.batch.policy = "skipAll"]
          [] answer = "cancel"     -> cleared

\* The next file of the queue, if it may be taken (one in every frame); it
\* leaves the queue, readable or not.
Took(state, readable) ==
    LET b == state.batch IN
    IF b.conflict # None \/ b.queue = <<>> THEN state
    ELSE LET entry == Head(b.queue)
             at    == b.lookup[entry.key]
             rest  == [state EXCEPT !.batch.queue = Tail(@)]
         IN  IF ~readable THEN rest
             ELSE IF at = 0 THEN Add(rest, entry, 0)
             ELSE IF b.policy = "ask"
                  THEN [rest EXCEPT !.batch.conflict = [entry |-> entry, at |-> at],
                                    !.panic = at > Len(state.tab.entries)]
             ELSE IF b.policy = "replaceAll" THEN Add(rest, entry, at)
             ELSE rest

\* Mutant: the dirty flag is left to the frames before the last.
FinishedClean(tab, b) ==
    IF ~b.changed THEN tab
    ELSE Recorded([tab EXCEPT !.entries = Sorted(@)], b.changes, b.dirtyBefore)

\* record_add_batch, preceded by the sort of the new entries.
Finished(tab, b) ==
    IF ~b.changed THEN tab
    ELSE Recorded([tab EXCEPT !.entries = Sorted(@), !.dirty = TRUE],
                  b.changes, b.dirtyBefore)

\* Mutant: an import that added nothing does not end.
DoneIfChanged(b, answer) ==
    answer = "cancel" \/ (b.conflict = None /\ b.queue = <<>> /\ b.changed)

Done(b, answer) == answer = "cancel" \/ (b.conflict = None /\ b.queue = <<>>)

\* A turn of an import in the archive shown.
Carry(batch, answer, readable) ==
    LET start    == [tab |-> live, batch |-> batch, panic |-> FALSE]
        answered == Answered(start, answer)
        state    == IF answer = "cancel" THEN answered ELSE Took(answered, readable)
        b        == state.batch
        done     == Done(b, answer)
    IN  /\ live' = IF done THEN Finished(state.tab, b)
                   ELSE [state.tab EXCEPT !.dirty = @ \/ b.changed]
        /\ import' = IF done THEN NoImport ELSE b
        /\ ended' = IF state.panic THEN "panic" ELSE ended
        /\ doubt' = IF live.id = b.home THEN doubt ELSE doubt \cup {live.id, b.home}

\* Mutant: it goes on in whatever archive is shown.
ProcessAnywhere(batch, answer, readable) == Carry(batch, answer, readable)

\* process_add_batch: an import whose tab is no longer the active one is
\* dropped where it stands; one whose lookup is stale may index past the end.
ProcessBatch(batch, answer, readable) ==
    IF active = batch.target THEN Carry(batch, answer, readable)
    ELSE /\ import' = NoImport
         /\ doubt' = IF batch.changed THEN doubt \cup {batch.home} ELSE doubt
         /\ UNCHANGED <<live, ended>>

----------------------------------------------------------------------------
(* What the user can reach.  blocking_dialog_open guards the shortcuts, the *)
(* tab bar and dropped files; a modal dialog covers the menus and the       *)
(* buttons below the list, but an import without a question shows none.     *)

Quiet == ended = "no" /\ confirm = 0 /\ ~Pending
Settled == dropped = <<>> \/ ~Quiet      \* dropped files are taken first

Reachable == ended = "no" /\ Settled /\ confirm = 0 /\ ~Asking

\* A frame is the import's turn and a drop (logic), and one action of the user
\* (ui).
Frames(last) == phase' = IF (Pending /\ ~Asking)' THEN last ELSE "turn"
Turns == Frames("turn")
Drops == phase = "turn" /\ Frames("drop")
Acts == phase # "user" /\ Frames("user")

Edits == Reachable /\ active # 0 /\ steps < MaxSteps /\ steps' = steps + 1
Revises == Reachable /\ active # 0 /\ UNCHANGED steps
Queues == UNION {[1..n -> [key : Keys, data : Incoming]] : n \in 1..MaxQueue}

\* open_path: an archive that is open already is only shown, in the first tab
\* that has it.
OpenPath(f) ==
    /\ Reachable
    /\ LET has == {i \in DOMAIN tabs : tabs[i].file = f} IN
       IF has # {}
       THEN /\ Becomes(SwitchTab(Window, CHOOSE i \in has : \A j \in has : i <= j))
            /\ UNCHANGED <<opened, doubt>>
       ELSE /\ opened < MaxIds /\ Len(tabs) < MaxTabs
            /\ opened' = opened + 1
            /\ doubt' = IF Doubled(disk[f]) THEN doubt \cup {opened'} ELSE doubt
            /\ Becomes(LoadTab(Append(Synced(Window), Tab(opened', f, disk[f], FALSE)),
                               Len(tabs) + 1))
    /\ UNCHANGED <<import, dropped, confirm, quitting, ended, disk, steps>>
    /\ Acts

NewArchive ==
    /\ Reachable
    /\ opened < MaxIds /\ Len(tabs) < MaxTabs
    /\ opened' = opened + 1
    /\ Becomes(LoadTab(Append(Synced(Window), Tab(opened', NoFile, <<>>, TRUE)),
                       Len(tabs) + 1))
    /\ UNCHANGED <<import, dropped, confirm, quitting, ended, disk, doubt, steps>>
    /\ Acts

ClickTab(i) ==
    /\ Quiet /\ Settled
    /\ Becomes(SwitchTab(Window, i))
    /\ UNCHANGED <<import, dropped, confirm, quitting, ended, disk, opened, doubt, steps>>
    /\ Acts

\* A drop: onto another tab it switches at once, whatever is going on; the
\* files wait until no dialog is open.
Drop(i, entry) ==
    /\ ended = "no" /\ active # 0 /\ Settled
    /\ steps < MaxSteps /\ steps' = steps + 1
    /\ Len(dropped) < MaxQueue
    /\ dropped' = Append(dropped, entry)
    /\ Becomes(SwitchTab(Window, i))
    /\ UNCHANGED <<import, confirm, quitting, ended, disk, opened, doubt>>
    /\ Drops

\* add_paths for the files that waited.
TakeDropped(readable) ==
    /\ Quiet /\ dropped # <<>>
    /\ dropped' = <<>>
    /\ IF active = 0 THEN UNCHANGED <<live, import, ended, doubt>>
                     ELSE ProcessBatch(NewImport(dropped), "continue", readable)
    /\ UNCHANGED <<tabs, active, confirm, quitting, disk, opened, steps>>
    /\ Frames("drop")

\* add_files, add_directory, paste: add_paths
AddPaths(queue, readable) ==
    /\ Edits
    /\ IF ~Pending
       THEN /\ ProcessBatch(NewImport(queue), "continue", readable)
            /\ UNCHANGED dropped
       ELSE IF active = import.target
       THEN /\ import' = [import EXCEPT !.queue = @ \o queue]
            /\ UNCHANGED <<live, dropped, ended, doubt>>
       ELSE /\ dropped' = dropped \o queue
            /\ UNCHANGED <<live, import, ended, doubt>>
    /\ UNCHANGED <<tabs, active, confirm, quitting, disk, opened>>
    /\ Acts

\* The frame (logic) carries an import on that has no question open ...
ContinueImport(readable) ==
    /\ ended = "no" /\ Pending /\ ~Asking
    /\ ProcessBatch(import, "continue", readable)
    /\ UNCHANGED <<tabs, active, dropped, confirm, quitting, disk, opened, steps>>
    /\ Turns

\* ... and the conflict dialog one that has.
AnswerConflict(answer, readable) ==
    /\ ended = "no" /\ Asking
    /\ ProcessBatch(import, answer, readable)
    /\ UNCHANGED <<tabs, active, dropped, confirm, quitting, disk, opened, steps>>
    /\ Acts

----------------------------------------------------------------------------
(* Edits, Undo, Redo and saving.                                           *)

Frame == UNCHANGED <<tabs, active, import, dropped, confirm, quitting, ended, opened>>

\* An archive that is edited or saved while it is imported into: what the
\* import knows of its entries, and of its mark, is out of date.
Disturbs == doubt' = IF Pending /\ live.id = import.home THEN doubt \cup {live.id} ELSE doubt

\* delete_selected: the selected entries, by index.
Delete(selected) ==
    /\ Edits
    /\ selected # {}
    /\ LET gone == InOrder(selected)
           kept == InOrder(DOMAIN live.entries \ selected)
           change(i) == [key |-> live.entries[i].key,
                         before |-> live.entries[i], after |-> None]
       IN  live' = Recorded([live EXCEPT !.entries = [n \in DOMAIN kept |-> @[kept[n]]],
                                         !.dirty = TRUE],
                            [n \in DOMAIN gone |-> change(gone[n])], live.dirty)
    /\ UNCHANGED disk /\ Frame
    /\ Disturbs /\ Acts

Undo ==
    /\ Revises
    /\ live.undo # <<>>
    /\ LET t == Last(live.undo) IN
       live' = [live EXCEPT !.entries = Undone(@, t.changes),
                            !.dirty = t.dirtyBefore,
                            !.undo = Front(@), !.redo = Append(@, t)]
    /\ UNCHANGED disk /\ Frame
    /\ Disturbs /\ Acts

Redo ==
    /\ Revises
    /\ live.redo # <<>>
    /\ LET t == Last(live.redo) IN
       live' = [live EXCEPT !.entries = Redone(@, t.changes),
                            !.dirty = TRUE,
                            !.redo = Front(@), !.undo = Append(@, t)]
    /\ UNCHANGED disk /\ Frame
    /\ Disturbs /\ Acts

\* save of an archive to f: its own path, or any chosen in the dialog, which
\* Save As asks for always.  It settles the doubt about the archive, unless it
\* is imported into or holds a key twice, and casts one on every other tab of f.
Saved(tab, f) == Tab(tab.id, f, Sorted(tab.entries), FALSE)
Targets(tab) == IF tab.file # NoFile THEN {tab.file} ELSE Files
Overwrites(tab, f) ==
    /\ disk' = [disk EXCEPT ![f] = Sorted(tab.entries)]
    /\ doubt' = LET same == {i \in DOMAIN Shown : Shown[i].file = f /\ Shown[i].id # tab.id}
                    kept == Doubled(tab.entries) \/ (Pending /\ tab.id = import.home)
                IN  (doubt \ {tab.id}) \cup {Shown[i].id : i \in same}
                    \cup (IF kept THEN {tab.id} ELSE {})

Save(f) ==
    /\ Edits
    /\ Overwrites(live, f)
    /\ live' = Saved(live, f)
    /\ tabs' = [tabs EXCEPT ![active] = live']
    /\ UNCHANGED <<active, import, dropped, confirm, quitting, ended, opened>>
    /\ Acts

----------------------------------------------------------------------------
(* Closing tabs and quitting.                                              *)

\* What becomes of an import when a tab is closed: nothing, but the index of
\* its tab may now be that of another.
Shifts == import' = IF Pending THEN [import EXCEPT !.shifted = TRUE] ELSE import

\* Close tab of the menu (the active tab) and the tab bar's buttons.
RequestClose(i) ==
    /\ Reachable /\ (i = active \/ Quiet)
    /\ IF Shown[i].dirty
       THEN confirm' = i /\ UNCHANGED <<tabs, live, active, import>>
       ELSE Becomes(CloseTab(Window, i)) /\ Shifts /\ UNCHANGED confirm
    /\ UNCHANGED <<dropped, quitting, ended, disk, opened, doubt, steps>>
    /\ Acts

\* Mutant: the tabs are looked at without syncing the live one.
ContinueQuitStale(w) ==
    LET dirty == {i \in DOMAIN w.tabs : w.tabs[i].dirty}
        ask   == IF w.active \in dirty THEN w.active
                 ELSE CHOOSE i \in dirty : \A j \in dirty : i <= j
    IN  IF dirty # {}
        THEN /\ quitting' = TRUE /\ confirm' = ask
             /\ Becomes(SwitchTab(w, ask))
             /\ UNCHANGED ended
        ELSE /\ quitting' = FALSE /\ confirm' = 0
             /\ Becomes(w)
             /\ ended' = "quit"

\* continue_quit: asks about the active tab, then about the first other one.
ContinueQuit(w) ==
    LET all   == Synced(w)
        dirty == {i \in DOMAIN all : all[i].dirty}
        ask   == IF w.active \in dirty THEN w.active
                 ELSE CHOOSE i \in dirty : \A j \in dirty : i <= j
    IN  IF dirty # {}
        THEN /\ quitting' = TRUE /\ confirm' = ask
             /\ Becomes(SwitchTab([w EXCEPT !.tabs = all], ask))
             /\ UNCHANGED ended
        ELSE /\ quitting' = FALSE /\ confirm' = 0
             /\ Becomes([w EXCEPT !.tabs = all])
             /\ ended' = "quit"

\* request_quit, at any time: it ends an import first, in whatever tab is shown.
RequestQuit ==
    /\ ended = "no"
    /\ Pending \/ ~quitting
    /\ import' = NoImport
    /\ LET w == [Window EXCEPT !.live = IF Pending THEN Finished(live, import) ELSE live]
       IN  IF quitting THEN Becomes(w) /\ UNCHANGED <<quitting, confirm, ended>>
                       ELSE ContinueQuit(w)
    /\ doubt' = IF Pending /\ import.changed /\ live.id # import.home
                THEN doubt \cup {live.id, import.home} ELSE doubt
    /\ UNCHANGED <<dropped, disk, opened, steps>>
    /\ Acts

\* The unsaved-changes dialog: what follows a saved or discarded tab.
Closes(w) ==
    IF quitting THEN ContinueQuit(w)
    ELSE /\ Becomes(w) /\ confirm' = 0
         /\ UNCHANGED <<quitting, ended>>

AnswerSave(f) ==
    /\ ended = "no" /\ confirm # 0
    /\ LET w == SwitchTab(Window, confirm)
           s == Saved(w.live, f)
           v == [w EXCEPT !.live = s, !.tabs[confirm] = s]
       IN  /\ f \in Targets(w.live)
           /\ Overwrites(w.live, f)
           /\ Closes(IF quitting THEN v ELSE CloseTab(v, confirm))
    /\ IF quitting THEN UNCHANGED import ELSE Shifts
    /\ UNCHANGED <<dropped, opened, steps>>
    /\ Acts

AnswerDiscard ==
    /\ ended = "no" /\ confirm # 0
    /\ Closes(CloseTab(Window, confirm))
    /\ Shifts
    /\ UNCHANGED <<dropped, disk, opened, doubt, steps>>
    /\ Acts

AnswerCancel ==
    /\ ended = "no" /\ confirm # 0
    /\ confirm' = 0 /\ quitting' = FALSE
    /\ UNCHANGED <<tabs, live, active, import, dropped, ended, disk, opened, doubt, steps>>
    /\ Acts

----------------------------------------------------------------------------
\* The program starts without tabs.
Init ==
    /\ tabs = <<>> /\ active = 0
    /\ live = Tab(0, NoFile, <<>>, FALSE)
    /\ import = NoImport /\ dropped = <<>>
    /\ confirm = 0 /\ quitting = FALSE /\ ended = "no"
    /\ disk \in [Files -> Contents]
    /\ phase = "turn" /\ opened = 0 /\ doubt = {} /\ steps = 0

Answers == {"replace", "replaceAll", "skip", "skipAll", "cancel"}

Next ==
    \/ \E f \in Files : OpenPath(f) \/ Save(f) \/ AnswerSave(f)
    \/ NewArchive
    \/ \E i \in DOMAIN tabs :
          \/ ClickTab(i) \/ RequestClose(i)
          \/ \E e \in [key : Keys, data : Incoming] : Drop(i, e)
    \/ \E ok \in BOOLEAN :
          \/ TakeDropped(ok) \/ ContinueImport(ok)
          \/ \E queue \in Queues : AddPaths(queue, ok)
          \/ \E answer \in Answers : AnswerConflict(answer, ok)
    \/ \E selected \in SUBSET DOMAIN live.entries : Delete(selected)
    \/ Undo \/ Redo
    \/ RequestQuit \/ AnswerDiscard \/ AnswerCancel

Spec == Init /\ [][Next]_vars

\* logic asks for the next frame while an import has no question open.
FairSpec == Spec /\ WF_vars(\E ok \in BOOLEAN : ContinueImport(ok))

----------------------------------------------------------------------------
\* The types of the window's state; a tab's index always names a tab; not among
\* the properties that are checked.
Changes == Seq([key : Keys, before : Entry \cup {None}, after : Entry \cup {None}])
IsTab(t) ==
    /\ t.id \in 0..MaxIds /\ t.file \in Files \cup {NoFile}
    /\ t.entries \in Seq(Entry) /\ t.dirty \in BOOLEAN
    /\ \A history \in {t.undo, t.redo} : \A n \in DOMAIN history :
          history[n].changes \in Changes /\ history[n].dirtyBefore \in BOOLEAN

TypeOK ==
    /\ \A i \in DOMAIN tabs : IsTab(tabs[i])
    /\ IsTab(live)
    /\ active \in 0..Len(tabs) /\ (active = 0 <=> tabs = <<>>)
    /\ confirm \in 0..Len(tabs)
    /\ quitting => confirm # 0 /\ ~Pending
    /\ phase \in {"turn", "drop", "user"} /\ (phase # "turn" => Pending)
    /\ ended \in {"no", "quit", "panic"}
    /\ doubt \subseteq 0..MaxIds

\* A tab without the dirty mark, shown or not, holds what its file holds, so
\* that it may be closed without a question.  Save, load_tab, undo_edit and
\* process_add_batch see to that but for the archives in doubt: edited or saved
\* during their import (main.rs:1859), left by an import that was dropped or
\* went on elsewhere (1787-1793), overwritten from another tab (1660-1669), or
\* opened from a file that holds a resource twice.
CleanIsSaved ==
    \A i \in DOMAIN tabs :
        ~Shown[i].dirty /\ Shown[i].id \notin doubt => ~Unsaved(Shown[i])

\* The same of every tab.  False, and not checked: each of those is a way.
CleanIsAlwaysSaved == \A i \in DOMAIN tabs : ~Shown[i].dirty => ~Unsaved(Shown[i])

\* A turn of an import that goes on.
Turn == \E ok \in BOOLEAN :
            ContinueImport(ok) \/ \E answer \in Answers : AnswerConflict(answer, ok)

\* A turn changes no archive but the one the import was started for.
StaysHome ==
    Turn => \A i \in DOMAIN tabs : Shown[i].id # import.home =>
               \E j \in DOMAIN tabs' : /\ Shown'[j].id = Shown[i].id
                                       /\ Shown'[j].entries = Shown[i].entries

\* An import goes on in its own archive although it remembers only the index of
\* a tab: whatever tabs are opened, shown or saved meanwhile, process_add_batch
\* adds nothing to another one.  A tab closed meanwhile is the exception.
ImportStaysHome == [][Pending /\ ~import.shifted => StaysHome]_vars

\* The same with no exception.  False, and not checked: once a tab was closed,
\* another archive may have the index (main.rs:1794).
ImportNeverStrays == [][StaysHome]_vars

\* What an import brings in its next turn.
Brought == {import.queue[n].key : n \in DOMAIN import.queue}
           \cup (IF Asking THEN {import.conflict.entry.key} ELSE {})
Untouched(entries, keys) == {e \in Range(entries) : e.key \notin keys}

\* An import replaces and adds resources of the names of its files only, however
\* the entries were moved, removed or restored since it looked them up by index:
\* add_prepared_entry_unsorted refuses an index that is out of date.
ImportSparesOthers ==
    [][Turn => Untouched(live'.entries, Brought) = Untouched(live.entries, Brought)]_vars

\* An import never takes the program down, however stale its indices are.
\* False, and not checked: one past the end does (main.rs:1859).
NoPanic == ended # "panic"

\* A save of this step has put the tab into a file.
Stored(tab) ==
    \E f \in IF tab.file = NoFile THEN Files ELSE {tab.file} :
        disk'[f] = Sorted(tab.entries)
AllSaved == \A i \in DOMAIN tabs : Unsaved(Shown[i]) => Shown[i].id \in doubt

\* What no step may do: close_tab, continue_quit and the dialogs remove a tab
\* only if it is saved or was discarded in the dialog that asked about it, and
\* the program ends only when all are saved; a mark in doubt is believed.
LosesNothing ==
    /\ \A i \in DOMAIN tabs :
          \/ \E j \in DOMAIN tabs' : Shown'[j].id = Shown[i].id
          \/ Stored(Shown[i])
          \/ AnswerDiscard /\ i = confirm
          \/ ~Shown[i].dirty /\ Shown[i].id \in doubt
    /\ ended = "no" /\ ended' = "quit" => AllSaved'

\* Every tab that disappears, by closing or quitting, is saved or was
\* discarded in the dialog that asked about this very tab, unless its clean
\* mark was in doubt.
NothingLost == [][LosesNothing]_vars

\* The documents of the open archives, as the user sees them.
Documents ==
    LET all == Shown
    IN  [id \in {all[i].id : i \in DOMAIN all} |->
           LET t == all[CHOOSE i \in DOMAIN all : all[i].id = id]
           IN  [text |-> Range(t.entries), dirty |-> t.dirty]]

Promise == INSTANCE Workspace WITH
    Ids <- 1..MaxIds,
    None <- 0,
    docs <- Documents,
    shown <- IF active = 0 THEN 0 ELSE live.id
\* The tabs keep the promise of a workspace: showing, opening and closing
\* never changes a document, however its copies travel.
KeepsPromise == Promise!Spec

\* An import that is left alone comes to its end, or to a question.
ImportEnds == Pending ~> (~Pending \/ Asking \/ ended # "no")
=============================================================================
