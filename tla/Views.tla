-------------------------------- MODULE Views --------------------------------
(***************************************************************************)
(* What the window shows of the active archive (main.rs): the rows of the  *)
(* resource list, which are cached, the selection, which is a set of       *)
(* indices, and the previews in the details pane, which are cached too.    *)
(* All three speak of entries that commands, imports, undo and saves       *)
(* change, move and remove.                                                *)
(*                                                                         *)
(* A frame is drawn in steps: commands, the resource view, the resource    *)
(* tree and the details pane, the rows.  The filter text, which narrows    *)
(* the rows as a category does, and the column that is sorted by are left  *)
(* out, and so are redo and the depth of the history (EditHistory), what   *)
(* menus and drops do during an import (Editor), and the textures of       *)
(* models.                                                                 *)
(***************************************************************************)
EXTENDS Naturals, Sequences, FiniteSets, SequencesExt, FiniteSetsExt

CONSTANTS
    Names,       \* the resources, numbered in the order of their names
    KindOf,      \* "image" or "model"
    Versions,    \* the contents a resource may have, all of one size
    Files,       \* the archives that may be opened; one may hold a name twice
    None,
    Categories,  \* bound: the categories that are clicked
    Incoming,    \* bound: the entries an import may bring
    MaxTabs, MaxOpens, MaxChanges, MaxClicks    \* bounds

Entry == [name : Names, version : Versions]
\* Why the selection may not be the user's any more: an empty archive was
\* merged, or the end of an import forgot what was selected meanwhile.
Reasons == {"no", "merge", "import"}
\* What was under a name before an edit, and what undo returns to.
Change == [name : Names, before : Entry \cup {None}]
PastSet ==
    [changes : Seq(Change), keys : SUBSET Names, category : Categories \cup {None},
     meant : SUBSET Names, astray : Reasons]
\* An import: its undo, whether it changed anything, and where its names were.
Pending == [past : PastSet, changed : BOOLEAN, lookup : [Names -> Nat]]

ASSUME ViewsAssumption ==
    /\ Names \subseteq Nat \ {0} /\ KindOf \in [Names -> {"image", "model"}]
    /\ Files \subseteq Seq(Entry) /\ Incoming \subseteq Entry
    /\ Categories \subseteq {"image", "model"} /\ None \notin Pending /\ None \notin Entry
    /\ {MaxTabs, MaxOpens, MaxChanges, MaxClicks} \subseteq Nat

VARIABLES
    tabs,       \* the open archives, with what is selected and shown of each
    active,     \* the index of the active one, 0 if none is open
    opened,     \* how many identities were given to archives
    changes,    \* how many edits there were
    clicks,     \* how many clicks and keys there were
    import,     \* pending_add
    cache,      \* resource_view_cache
    image,      \* image_preview
    model,      \* model_preview
    shown,      \* selected_entry: the index of the entry in the details pane
    removed,    \* the details pane removed resources in this frame
    pc          \* where the frame is

vars == <<tabs, active, opened, changes, clicks, import, cache, image, model, shown, removed, pc>>

live == tabs[active]
KeysOf(t, indices) == {t.entries[i].name : i \in indices \cap DOMAIN t.entries}
Lowest(set) == IF set = {} THEN 0 ELSE Min(set)
Highest(set) == IF set = {} THEN 0 ELSE Max(set)

\* The numbers in a set, in an order of them: each where as many precede it.
Ranked(S, order) ==
    [n \in 1..Cardinality(S) |->
        CHOOSE i \in S : Cardinality({j \in S : <<j, i>> \in order}) = n - 1]
\* The order of indices, and a stable sort's of the entries at them.
ByIndex(S) == {p \in S \X S : p[1] < p[2]}
ByName(entries, S) ==
    {p \in S \X S :
        LET a == entries[p[1]].name
            b == entries[p[2]].name
        IN  a < b \/ (a = b /\ p[1] < p[2])}
Picked(entries, indices) == [n \in DOMAIN indices |-> entries[indices[n]]]

Sorted(entries) ==
    LET all == DOMAIN entries IN Picked(entries, Ranked(all, ByName(entries, all)))
\* The first entry under the name is replaced, or one is added at the end.
With(entries, e) ==
    LET at == {i \in DOMAIN entries : entries[i].name = e.name} IN
    IF at = {} THEN Append(entries, e) ELSE [entries EXCEPT ![Min(at)] = e]
\* The entries after n of those to be merged.
Merged(entries, more) ==
    LET all[n \in 0..Len(more)] == IF n = 0 THEN entries ELSE With(all[n - 1], more[n])
    IN  all

\* The first entry under a name, as it was before an edit.
Before(entries, name) ==
    LET at == {i \in DOMAIN entries : entries[i].name = name} IN
    [name |-> name, before |-> IF at = {} THEN None ELSE entries[Min(at)]]
\* One change is taken back (apply_archive_edit), and all of them.
TakenBack(entries, change) ==
    LET at == {i \in DOMAIN entries : entries[i].name = change.name} IN
    CASE change.before # None -> With(entries, change.before)
      [] change.before = None /\ at # {} -> RemoveAt(entries, Min(at))
      [] change.before = None /\ at = {} -> entries
Reverted(entries, undone) ==
    LET all[n \in 0..Len(undone)] ==
            IF n = 0 THEN entries ELSE TakenBack(all[n - 1], undone[n])
    IN  all

\* Mutant: the selection is left where it was.
RestoredNothing(t, keys) == t

\* restore_selection_by_keys
Restored(t, keys) ==
    LET s == {i \in DOMAIN t.entries : t.entries[i].name \in keys} IN
    [t EXCEPT !.selected = s, !.anchor = Lowest(s), !.cursor = Highest(s)]

\* After an import, a merge or undo, which sort the entries.  What the user
\* meant is not what is restored: only resources that are gone leave it.
Resorted(t, keys) ==
    Restored([t EXCEPT !.entries = Sorted(@), !.rev = @ + 1, !.resorted = FALSE,
                       !.meant = @ \cap KeysOf(t, DOMAIN t.entries)], keys)

\* What undo returns to.
Past(t, undone) ==
    [changes |-> undone, keys |-> KeysOf(t, t.selected), category |-> t.category,
     meant |-> t.meant, astray |-> t.astray]

\* What is clicked is what the user means.
Selects(t, selected, anchor, cursor) ==
    [t EXCEPT !.selected = selected, !.anchor = anchor, !.cursor = cursor,
              !.meant = KeysOf(t, selected), !.astray = "no"]

NewTab(entries, id) ==
    [entries |-> entries, id |-> id, rev |-> 0, selected |-> {}, anchor |-> 0, cursor |-> 0,
     category |-> None, up |-> TRUE, past |-> None, meant |-> {}, astray |-> "no",
     resorted |-> FALSE]

Doubtful(preview) == IF preview = None THEN None ELSE [preview EXCEPT !.doubt = TRUE]

----------------------------------------------------------------------------
(* Commands, one in a frame at most, before anything is drawn.             *)

\* A frame begins when rows were drawn, and clicked or not.
Begins == pc \in {"input", "rows"}
Command == Begins /\ pc' = "view"
Draw == UNCHANGED <<clicks, cache, shown, removed>>

\* load_tab drops the image and keeps the model, whose key has the tab's index.
OpenPath(f) ==
    /\ Command /\ import = None /\ Len(tabs) < MaxTabs /\ opened < MaxOpens
    /\ opened' = opened + 1
    /\ tabs' = Append(tabs, NewTab(f, opened')) /\ active' = Len(tabs')
    /\ image' = None
    /\ Draw /\ UNCHANGED <<changes, import, model>>

SwitchTab(i) ==
    /\ Command /\ import = None /\ i # active /\ active' = i /\ image' = None
    /\ Draw /\ UNCHANGED <<tabs, opened, changes, import, model>>

CloseTab(i) ==
    /\ Command /\ import = None
    /\ tabs' = RemoveAt(tabs, i)
    /\ active' = IF active > i \/ active = Len(tabs) THEN active - 1 ELSE active
    /\ image' = IF tabs' = <<>> THEN image ELSE None
    /\ model' = Doubtful(model)
    /\ Draw /\ UNCHANGED <<opened, changes, import>>

Edits == Command /\ active # 0 /\ Draw /\ UNCHANGED <<active, opened>>
Changes == changes < MaxChanges /\ changes' = changes + 1

\* An import takes several frames.  It looks its names up once, the last of
\* those held twice, among the entries there are when it starts.
ImportStart ==
    /\ Edits /\ import = None /\ Changes
    /\ import' = [past |-> Past(live, <<>>), changed |-> FALSE,
                  lookup |-> [name \in Names |->
                      Highest({i \in DOMAIN live.entries : live.entries[i].name = name})]]
    /\ UNCHANGED <<tabs, image, model>>

\* add_incoming: the entry that was looked up is replaced, unless it is not
\* there any more, or one is added, and will be found there.  What was there
\* first is kept for undo.  (Where a stale index makes the window panic, see
\* Editor.)
At(e) == import.lookup[e.name]
Accepts(e) ==
    e # None /\ (At(e) # 0 => At(e) \in DOMAIN live.entries /\ live.entries[At(e)].name = e.name)
Brought(e) ==
    IF At(e) = 0 THEN Append(live.entries, e) ELSE [live.entries EXCEPT ![At(e)] = e]
Noted(undone, e) ==
    IF \E n \in DOMAIN undone : undone[n].name = e.name THEN undone
    ELSE Append(undone, [name |-> e.name,
                         before |-> IF At(e) = 0 THEN None ELSE live.entries[At(e)]])
Learned(e) ==
    [import EXCEPT !.past.changes = Noted(@, e), !.changed = TRUE,
                   !.lookup[e.name] = IF At(e) = 0 THEN Len(live.entries) + 1 ELSE At(e)]
\* A file that is taken, or one that is skipped, refused or fails.
Took(e) == IF Accepts(e) THEN [live EXCEPT !.entries = Brought(e)] ELSE live
Batch(e) == IF Accepts(e) THEN Learned(e) ELSE import

\* At the end the entries are sorted, there is a new revision, and what was
\* selected at the start is restored, whatever the user has selected since.
Finished(t, past) ==
    Resorted([t EXCEPT !.past = past,
                       !.astray = IF t.meant # past.meant THEN "import" ELSE past.astray],
             past.keys)
\* Mutant: the image is kept until the end.
ImportRoundKeeping(e, last) ==
    /\ Edits /\ import # None /\ UNCHANGED changes
    /\ LET batch == Batch(e) IN
       /\ tabs' = [tabs EXCEPT ![active] =
            IF last /\ batch.changed THEN Finished(Took(e), batch.past) ELSE Took(e)]
       /\ import' = IF last THEN None ELSE batch
       /\ image' = IF batch.changed /\ last THEN None ELSE image
    /\ model' = IF Accepts(e) THEN Doubtful(model) ELSE model
ImportRound(e, last) ==
    /\ Edits /\ import # None /\ UNCHANGED changes
    /\ LET batch == Batch(e) IN
       /\ tabs' = [tabs EXCEPT ![active] =
            IF last /\ batch.changed THEN Finished(Took(e), batch.past) ELSE Took(e)]
       /\ import' = IF last THEN None ELSE batch
       /\ image' = IF batch.changed THEN None ELSE image
    /\ model' = IF Accepts(e) THEN Doubtful(model) ELSE model

\* merge: the changes are in the order of the names.  An archive without
\* resources to merge sorts the entries all the same, without a new revision
\* and without the selection being restored.
Overwritten(entries, more) ==
    LET names == {more[n].name : n \in DOMAIN more}
        order == Ranked(names, ByIndex(names))
    IN  [n \in DOMAIN order |-> Before(entries, order[n])]
MergedNothing(t) ==
    IF Sorted(t.entries) = t.entries THEN t
    ELSE [t EXCEPT !.entries = Sorted(@), !.resorted = TRUE, !.astray = "merge"]
MergedIn(t, more) ==
    Resorted([t EXCEPT !.entries = Merged(@, more)[Len(more)],
                       !.past = Past(t, Overwritten(t.entries, more))], KeysOf(t, t.selected))
Merge(entries) ==
    /\ Edits /\ import = None /\ Changes /\ UNCHANGED import
    /\ tabs' = [tabs EXCEPT ![active] =
                  IF entries = <<>> THEN MergedNothing(live) ELSE MergedIn(live, entries)]
    /\ IF entries # <<>> THEN image' = None /\ model' = Doubtful(model) ELSE UNCHANGED <<image, model>>

\* What is selected, in the order of the indices, for undo.
Selection(t) ==
    LET chosen == t.selected \cap DOMAIN t.entries
        order == Ranked(chosen, ByIndex(chosen))
    IN  [n \in DOMAIN order |->
            [name |-> t.entries[order[n]].name, before |-> t.entries[order[n]]]]
\* Mutant: a deletion makes no new revision.
DeletedSilently(t) ==
    LET kept == DOMAIN t.entries \ t.selected IN
    [Selects(t, {}, 0, 0) EXCEPT
        !.entries = Picked(t.entries, Ranked(kept, ByIndex(kept))),
        !.resorted = FALSE, !.category = None, !.past = Past(t, Selection(t))]

\* delete_selected; the previews are kept.
Deleted(t) ==
    LET kept == DOMAIN t.entries \ t.selected IN
    [Selects(t, {}, 0, 0) EXCEPT
        !.entries = Picked(t.entries, Ranked(kept, ByIndex(kept))), !.rev = @ + 1,
        !.resorted = FALSE, !.category = None, !.past = Past(t, Selection(t))]
Deletes ==
    /\ live.selected # {} /\ Changes
    /\ tabs' = [tabs EXCEPT ![active] = Deleted(live)]
\* The key; the buttons, below, are there during an import too.
Delete == Edits /\ import = None /\ Deletes /\ UNCHANGED <<import, image, model>>

Undone(t) ==
    Resorted([t EXCEPT !.entries = Reverted(@, t.past.changes)[Len(t.past.changes)],
                       !.category = t.past.category, !.meant = t.past.meant,
                       !.astray = t.past.astray, !.past = None], t.past.keys)
Undo ==
    /\ Command /\ active # 0 /\ import = None /\ live.past # None
    /\ tabs' = [tabs EXCEPT ![active] = Undone(live)]
    /\ cache' = None /\ image' = None /\ model' = None
    /\ UNCHANGED <<active, opened, changes, clicks, import, shown, removed>>

\* The archive is opened again, with its entries in the order they have, and
\* has a new identity.
Save ==
    /\ Command /\ active # 0 /\ import = None /\ opened < MaxOpens
    /\ opened' = opened + 1
    /\ tabs' = [tabs EXCEPT ![active].id = opened', ![active].rev = 0, ![active].past = None]
    /\ Draw /\ UNCHANGED <<active, changes, import, image, model>>

----------------------------------------------------------------------------
(* The rows, the tree and the details pane.                                *)

Matches(entries, category) ==
    {i \in DOMAIN entries : category = None \/ KindOf[entries[i].name] = category}
Rows(entries, category, up) ==
    LET all == Matches(entries, category)
        order == Ranked(all, ByName(entries, all))
    IN  IF up THEN order ELSE Reverse(order)
KeyOf(t) == [id |-> t.id, rev |-> t.rev, category |-> t.category, up |-> t.up]

\* resource_view, and selected_entry.
View ==
    /\ Begins \/ pc = "view"
    /\ cache' = IF active = 0 \/ (cache # None /\ cache.key = KeyOf(live)) THEN cache
                ELSE [key |-> KeyOf(live), rows |-> Rows(live.entries, live.category, live.up)]
    /\ shown' = IF active = 0 THEN 0 ELSE Lowest(live.selected \cap DOMAIN live.entries)
    /\ pc' = IF active = 0 THEN "input" ELSE "details"
    /\ removed' = FALSE
    /\ UNCHANGED <<tabs, active, opened, changes, clicks, import, image, model>>

Clicked == clicks < MaxClicks /\ clicks' = clicks + 1

\* A category of the tree; all of them but the whole archive drop the selection.
ClickCategory(category) ==
    /\ pc = "details" /\ category # live.category /\ Clicked
    /\ tabs' = [tabs EXCEPT ![active] =
         [(IF category = None THEN @ ELSE Selects(@, {}, 0, 0)) EXCEPT !.category = category]]
    /\ UNCHANGED <<active, opened, changes, import, cache, image, model, shown, removed, pc>>

\* show_image_preview and show_model_preview read what they show when the key
\* is another one: the index of the tab, name, type and size.  It does not tell
\* two entries of one name apart.
PreviewKey(i) == <<active, live.entries[i].name>>
Twice(i) == \E n \in DOMAIN live.entries \ {i} : live.entries[n].name = live.entries[i].name
Shows(preview) ==
    IF preview # None /\ preview.key = PreviewKey(shown) THEN preview
    ELSE [key |-> PreviewKey(shown), shows |-> live.entries[shown].version, doubt |-> Twice(shown)]
Preview ==
    LET kind == IF shown = 0 THEN "none" ELSE KindOf[live.entries[shown].name] IN
    /\ image' = IF kind = "image" THEN Shows(image) ELSE image
    /\ model' = IF kind = "model" THEN Shows(model) ELSE model
    /\ shown' = 0

Details ==
    /\ pc = "details" /\ pc' = "rows" /\ Preview
    /\ UNCHANGED <<tabs, active, opened, changes, clicks, import, cache, removed>>
\* "Remove from archive", below the preview.
DetailsRemove ==
    /\ pc = "details" /\ pc' = "rows" /\ Preview /\ shown # 0 /\ Deletes
    /\ removed' = TRUE /\ UNCHANGED <<active, opened, clicks, import, cache>>

----------------------------------------------------------------------------
(* The rows are drawn, and clicked.                                        *)

rows == cache.rows
Position(i) == Lowest({n \in DOMAIN rows : rows[n] = i})
Between(m, n) == {rows[k] : k \in IF m <= n THEN m..n ELSE n..m}
Exist == \A n \in DOMAIN rows : rows[n] \in DOMAIN live.entries

\* A row that is drawn indexes the entries without asking whether it may.
Panic ==
    /\ pc = "rows" /\ ~Exist /\ pc' = "panicked"
    /\ UNCHANGED <<tabs, active, opened, changes, clicks, import, cache, image, model, shown, removed>>

Drawn == pc = "rows" /\ pc' = "input"
Chooses(selected, anchor, cursor) ==
    /\ Drawn /\ ~removed /\ Clicked
    /\ tabs' = [tabs EXCEPT ![active] = Selects(@, selected, anchor, cursor)]
    /\ UNCHANGED <<active, opened, changes, import, cache, image, model, shown, removed>>

SelectAll ==
    LET first == IF rows = <<>> THEN 0 ELSE rows[1] IN
    Chooses({rows[n] : n \in DOMAIN rows}, first, first)

\* capture_typeahead: letters are typed, and the first row they begin is chosen.
Jump(n) == Chooses({rows[n]}, rows[n], rows[n])
\* A plain click, and a right click or a drag of a row that is not selected.
Click(n) == Chooses({rows[n]}, rows[n], rows[n])
CtrlClick(n) ==
    LET i == rows[n] IN
    Chooses(IF i \in live.selected THEN live.selected \ {i} ELSE live.selected \cup {i}, i, i)
ShiftClick(n, additive) ==
    LET i == rows[n]
        before == IF additive THEN live.selected ELSE {}
        from == Position(live.anchor) IN
    Chooses(before \cup (IF from = 0 THEN {i} ELSE Between(from, n)),
            IF live.anchor = 0 THEN i ELSE live.anchor, i)

\* The arrow keys, from the cursor, the anchor or the first selected row.
Current ==
    Position(CASE live.cursor # 0 -> live.cursor
               [] live.cursor = 0 /\ live.anchor # 0 -> live.anchor
               [] live.cursor = 0 /\ live.anchor = 0 -> Lowest(live.selected))
Target(down) ==
    CASE Current = 0 -> IF down THEN 1 ELSE Len(rows)
      [] Current # 0 /\ down -> Min({Current + 1, Len(rows)})
      [] Current # 0 /\ ~down -> Max({Current - 1, 1})
Arrow(down, extend, additive) ==
    /\ pc = "rows" /\ rows # <<>>
    /\ LET n == Target(down)
           i == rows[n]
           before == IF additive THEN live.selected ELSE {}
           from == IF Position(live.anchor) # 0 THEN Position(live.anchor)
                   ELSE IF Position(live.cursor) # 0 THEN Position(live.cursor) ELSE n
           anchor == IF Position(live.anchor) # 0 THEN live.anchor ELSE rows[from] IN
       IF extend THEN Chooses(before \cup Between(from, n), anchor, i)
       ELSE Chooses(before \cup {i}, IF additive /\ live.anchor # 0 THEN live.anchor ELSE i, i)

\* A click on the head of the column, and Delete below the list.
SetSort ==
    /\ Drawn /\ ~removed /\ Clicked /\ tabs' = [tabs EXCEPT ![active].up = ~@]
    /\ UNCHANGED <<active, opened, changes, import, cache, image, model, shown, removed>>
DeleteButton ==
    /\ Drawn /\ ~removed /\ Deletes
    /\ UNCHANGED <<active, opened, clicks, import, cache, image, model, shown, removed>>

Init ==
    /\ tabs = <<>> /\ active = 0 /\ opened = 0 /\ changes = 0 /\ clicks = 0 /\ import = None
    /\ cache = None /\ image = None /\ model = None /\ shown = 0 /\ removed = FALSE
    /\ pc = "input"

Next ==
    \/ Delete \/ Undo \/ Save \/ ImportStart
    \/ \E f \in Files : OpenPath(f)
    \/ \E i \in DOMAIN tabs : SwitchTab(i) \/ CloseTab(i)
    \/ \E e \in Incoming \cup {None}, last \in BOOLEAN : ImportRound(e, last)
    \/ \E f \in Files \cup {<<>>} : Merge(f)
    \/ View \/ \E category \in Categories \cup {None} : ClickCategory(category)
    \/ Details \/ DetailsRemove
    \/ Panic \/ SelectAll \/ SetSort \/ DeleteButton
    \/ pc = "rows" /\ \E n \in DOMAIN rows : Jump(n) \/ Click(n) \/ CtrlClick(n)
    \/ pc = "rows" /\ \E n \in DOMAIN rows, additive \in BOOLEAN : ShiftClick(n, additive)
    \/ \E down, extend, additive \in BOOLEAN : Arrow(down, extend, additive)

Spec == Init /\ [][Next]_vars

----------------------------------------------------------------------------
(* Properties.  The first is not among the properties that are checked.    *)

TypeOK ==
    /\ active \in 0..Len(tabs) /\ (active = 0 <=> tabs = <<>>)
    /\ \A i \in DOMAIN tabs :
         /\ \A n \in DOMAIN tabs[i].entries : tabs[i].entries[n] \in Entry
         /\ tabs[i].anchor \in 0..Len(tabs[i].entries) /\ tabs[i].cursor \in 0..Len(tabs[i].entries)
    /\ pc \in {"input", "view", "details", "rows", "panicked"}

\* A cached view that would be used is what it would be if it were computed
\* now, whatever was imported, merged, deleted, undone, saved, opened or closed
\* since; and rows are only drawn of entries that exist, which nothing but
\* "Remove from archive" can break (resource_view, mark_resources_changed).
\* During an import the rows of the archive before it are shown.
ViewCurrent ==
    /\ active # 0 /\ cache # None /\ cache.key = KeyOf(live) /\ import = None /\ ~live.resorted
         => cache.rows = Rows(live.entries, live.category, live.up)
    /\ pc = "rows" /\ ~removed => Exist

\* The selected indices are those of the resources the user selected, also
\* after resources were sorted, replaced, added, removed or brought back
\* (restore_selection_by_keys): but for two cases, in which the user has to
\* select again.
Meant(t) ==
    t.selected \subseteq DOMAIN t.entries /\ KeysOf(t, t.selected) = t.meant
SelectionMeant == \A i \in DOMAIN tabs : tabs[i].astray = "no" => Meant(tabs[i])

\* It survives the end of an import too, even if it was made during the import.
\* False, and not checked: that of the start is restored (main.rs:1912-1915).
SelectionSurvivesImport == \A i \in DOMAIN tabs : tabs[i].astray # "merge" => Meant(tabs[i])

\* It survives the merge of an archive without resources to merge.  False, and
\* not checked: the entries are sorted all the same (archive.rs:650-655).
SelectionSurvivesMerge == \A i \in DOMAIN tabs : tabs[i].astray # "import" => Meant(tabs[i])

\* A cached preview that would be shown is that of the contents the resource
\* has now: versions have the same size, and the key cannot tell them apart.
\* A model is excused once something was imported or merged, or a tab closed,
\* under it: those drop the image only; and so is the preview of a resource the
\* archive holds twice (show_image_preview, show_model_preview).
PreviewFresh ==
    \A preview \in {image, model} : preview # None /\ active # 0 =>
        \A i \in DOMAIN live.entries :
            preview.key = PreviewKey(i) => preview.shows = live.entries[i].version \/ preview.doubt

\* Rows are drawn of entries that exist.
RowsExist == pc = "rows" => Exist
=============================================================================
