# A verification project for Aurora Hak Explorer

Aurora Hak Explorer (AHE) edits the archives of the Aurora game engine (ERF, HAK, MOD,
NWM, SAV): one window with tabs, one archive per tab, resources that are added, replaced,
merged, deleted, exported and dragged, and an archive file that is rewritten on every save.
The modules in this directory model the parts of `src/src/*.rs` in which an order of
events, a failure or a crash decides whether the user's data survive. TLC checks them on
small instances; TLAPS proves the results that hold for every value of the constants.

Paths below are relative to the repository, `main.rs` is `src/main.rs` and so on.

## 1. The system

| Part | State it keeps | Operations | What makes it correct |
|---|---|---|---|
| **Archive** (`archive.rs`) | path, description, entries; an entry's data are a slice of a file, a whole outside file, or memory (`EntryData`) | `open`, `add_prepared_entry_unsorted`, `finish_bulk_add`, `merge_entries`, `save`, `write_to` | every entry reads the bytes the user put there; the layout written is the layout read |
| **Save and recovery** (`Archive::save`, `save_cleanup.rs`, `drag_cleanup.rs`) | a temporary file beside the archive, a recovery record in the temporary directory, a helper process that is told of records | create, journal, write, sync, rename, sync the directory, drop; recovery at launch; cleaning by the helper | the archive file is always one whole version; partial saves do not stay behind |
| **Parallel export** (`export_entries_parallel`) | a shared counter, a flag, a mutex with the first error, up to eight threads | sequential and threaded path | each file written by one thread, success only if all are whole |
| **Edit history** (`EditHistory`, `undo_edit`, `redo_edit`, `save` of `main.rs`) | two stacks of transactions, a byte estimate, the dirty flag | record, expire, undo, redo, clear | undo and redo move along one time line of what is shown; a tab without the mark is what its file holds |
| **Tabs and dialogs** (`HakEditor` of `main.rs`) | `tabs`, a live copy of the active one, `active_tab`, `pending_add`, `confirm_close_tab`, `quit_in_progress`, `pending_drop_files` | open, switch, close, quit, import over frames, conflict, save and discard | no document is lost or changed without the user's doing; an import stays in its archive |
| **Launch routing** (`single_instance.rs`) | a socket name in the file system, a listener thread, a channel to the window | connect, write, remove, bind, receive, poll | the paths of every launch are opened, once, in one window |
| **Drag source** (`drag_out.rs`, `dnd_extract.rs`) | per drag a thread with its window, the believed target, its answer, incremental transfers; one selection and one extraction service for all | motion, status, release, requests, property deletions, finish, timeout | a target gets a whole list of files that exist; a drop goes to a target that agreed |
| **Cleanup of directories** (`drag_cleanup.rs`, `retain_temporary_directory` of `drag_out.rs`) | deadlines told to a helper process, the worker's list of retained directories, plans of later launches | register, extend, retain, expire, recover, sweep | no directory outlives its use, none is removed in use |
| **Model compilation** (`main.rs`, `game_resources.rs`) | a job: worker thread, cancel flag, channel, report, workspace; the supermodels staged so far | start, cancel, close, poll; prepare, stage, compile, collect, finish | each model is exported or reported; a supermodel is there before the compiler runs; a cancel ends the job |
| **Clipboard** (`main.rs`) | staged directories, what refers to them | copy, paste, prune | no file is removed that an archive, a history or an import refers to |
| **View, selection and previews** (`main.rs`) | category, sorting, cached rows, selected indices with anchor and cursor, two cached previews | `resource_view`, clicks and keys, `restore_selection_by_keys`, details pane | rows, selection and preview speak of the entries there are now |
| **Readers** (`mdl.rs`, `resource_types.rs`, decoding and drawing) | none | parsing, drawing | pure computation |

How they interact: `HakEditor` owns everything and is single-threaded; each frame calls
`logic` (messages of later launches, drops, one file of a running import, polling of jobs)
and then `ui`, whose widgets call the operations. Threads exist in the parallel export, the
compile worker, the listener of the routing and the helper process; they communicate by
channels, atomics and files. A drop, a forwarded launch and a paste all end in
`pending_drop_files` or `add_paths`. `save` clears the history that `record` filled, and
replaces the file that the slices of *any* tab may point into.

What is hard: (a) an import that spans frames and remembers a tab and entries **by index**
while the user can still act; (b) a dirty flag that is restored from a transaction, never
computed; (c) slices into files that other tabs rewrite; (d) steps of a save, of recovery and
of the helper with a death or a power loss in between; (e) launches that race for a name in
the file system; (f) threads that stop at different times for different reasons; (g) a
conversation with windows that answer late or never, over one shared selection; (h) a
directory that four parties may remove, each by a clock of its own; (i) caches and
selections that name entries by index while the entries move. The hazards, with the lines
where they bite, are listed in `PROJECT.json`.

## 2. Modules

### EditHistory, LinearHistory, EditHistoryProofs, MCEditHistory

`EditHistory` models one tab between operations. Entries are sorted by key with a stable
sort whenever an operation has ended, so the entry list is, per key, the run of entries with
that key (`runs`). One action per operation: `Import` (a whole batch, as recorded by
`record_add_batch`), `Merge`, `Delete`, `Describe`, `Undo`, `Redo`, `Save`, and
`SaveFailsLate`, a save that replaced the file and then failed (`archive.rs`, after
`persist`) so that `main.rs` believes nothing was saved. `Record` with `Expired` is
`EditHistory::record` with its loop; `Patched` is `apply_archive_edit`. `Undo` restores the
dirty flag from the transaction, as the code does. The ghosts `past` and `future` hold what
the documents the stacks stand for showed; `failedLate` remembers a failed save until the next
good one.

A file may hold a key several times (`Twice`, `MaxCopies`), and a description that is not UTF-8
or is missing (`Foreign`): the function `Read` says as which text `Archive::description` reads
each, and `Describe` records, and `Undo` writes, that text. So undo does not return to the very
document; `Shown` is the part it returns to, the entries under keys that the file does not hold
twice and the description as it is read. The properties that hold speak of `Shown`, and
`CleanIsExact`, which speaks of the whole document, is false (section 4).

`LinearHistory` is the abstract specification: a time line of documents, and a clean mark
that is only allowed when the file holds the document. `KeepsPromise` is the refinement.

### ParallelExport, BatchExport, ArchiveProofs, MCParallelExport

One label per shared access of a worker: look at the flag, take the next index, create,
write, set the flag, lock and report. All atomics are relaxed: the counter still gives out
each value once, but a thread may read the flag late, which `Check` allows. The sequential
path (one processor, or fewer resources than the threshold) has actions of its own, and the
number of resources and of threads that start is chosen in `Init`. `BatchExport` promises:
each resource once, `ok` only if all are written, an error only of one that failed.

### Editor, Workspace, EditorProofs, MCEditor

`Editor` is the window: the tabs as last synced, the live copy of the active one, the import
(`AddBatch`: target index, lookup of entry indices, queue, policy, recorded changes), the
conflict, save and unsaved-changes dialogs, dropped files, quitting. `sync_current_tab`,
`load_tab`, `switch_tab` and `close_tab` are functions of the window, `process_add_batch` is
`ProcessBatch`, one file per frame. Which action is reachable follows the code: shortcuts,
tab clicks and window drops ask `blocking_dialog_open`; the menus and the lower buttons are
only covered by a modal dialog, and an import without an open question shows none; a drop on
another tab switches to it unconditionally, also while the unsaved-changes dialog is open. So
between two turns of an import the user may open, create, close and save archives, delete, undo,
redo and quit, in any tab. A frame is a turn of the import, then a drop, then one action of the
user (`phase`), so that an import advances between them. A save may be to any file (`Save As`,
and the first save of a new archive), that of another tab included, and files may hold a key
twice.

Two ghosts tell what follows from that. `doubt` is the set of archives whose clean mark may lie:
edited or saved during their own import, left by an import that was dropped or went on in
another archive, or that archive itself, overwritten from another tab, or opened from a file
that holds a resource twice. A save of the archive ends it. `shifted` of an import says that a
tab was closed since it started. `Workspace` is the abstract specification: each open
archive has one document, only the shown one changes, showing and closing change none.

### SaveCommit, FilesProofs, MCSaveCommit

Each step of `Archive::save` and `create_save_file` is an action: temporary file, record,
journal entry (write, sync, directory sync, telling the helper), writing in pieces, sync,
rename, directory sync, reopening; and each failing step with the drops that follow, in
Rust's order. `Start`, `Recover`, `Ready` are `recover_abandoned` at a launch;
`HelperCleans` is the helper after the end of its input. `Die` is the end of a process, at
any step; `PowerLoss` keeps what was synced and chooses, for the rest, among what the file
system may have kept. Two instances may overlap, because launches that race can both become
windows (`OneWindow` of `SingleInstance` excepts them). Its specification is called `SaveSpec`,
so that `FilesProofs` can hold the proofs of this module and of `Staging`, the two about files
that are written and removed again.

### SingleInstance, ProcessProofs, MCSingleInstance

`route` step by step: connect, write, remove the name, bind, and the second chance when bind
finds a name; the listener thread (`Receive`), the window's polling of the channel (`Frame`)
and a death at any step, which closes sockets and leaves the name. A launch stands for its
paths. A message with more than 1,024 paths is a launch in `TooMany`. Its specification is
called `RouteSpec`, so that `ProcessProofs` can hold the proofs of this module and of
`TempCleanup`, the two about several processes of the program.

### ArchiveData, ArchiveProofs, MCArchiveData

Where bytes are: entries are slices (path and place) or outside files, and reading is
`copy_to` in the file that is there *now*. Open, new, close, add, delete, merge, undo, save,
save as, and the save that fails late. Directory and data places of a file take one unit
per entry, which is enough for the layout to change whenever a key comes or goes.

### Staging, FilesProofs, MCStaging

Exports that the program makes for the clipboard (`clipboard_exports`, here a set: directories
are numbered as they are made, so the last of the list is the largest) and for drags, and
everything that names files in them: entries added by a paste or a drop are `ExternalFile`s
until the archive is saved, transactions keep them, a running import has them in its queue.
`Prune` is `prune_clipboard_exports`, called by `Copy`, `Save` and `Close` where the code calls
it; `DragEnds` and `Expire` are the worker of `retain_temporary_directory`. `Round`,
`Continues` and `Answer` are the import, `Undo` and `Redo` with `validate_history_entry`. The
ghost `disturbed` marks an import, and then its transaction, during which something was pruned.

### DragSource, DragSourceProofs, MCDragSource

Each drag is the thread of `run` and `finish_drag`, which reads the events of its window in
order (`queue`): `Motion`, `Status`, `Release`, `ServeList`, `ServeOffer`, `Advance`,
`Finished` and `Ignore` are the arms of its two loops, `Timeout` their deadline,
`StagingFails` the error on which the thread ends. `GoesOn` is the test after each event,
which waits for `target_finished` and for the transfers under way. Files are written when
the list is first asked for (`staged`). A list that does not fit one property goes out in
parts, one per deletion of the property. The targets are other programs: they answer a
position (`Reply`), ask (`Ask`, also again in place of a transfer they gave up), read
(`Receive`, `Take`, `Extract`) and finish (`Finish`) when they like, or never. All drags
share the pointer, the selection (`owner`, given up by whichever drag ends first) and the
extraction service. The ghost of a drag records that its drop was sent, that it timed out,
that it took another target's answer for the current one's, that a second drag ran, and
which targets agreed since they were entered.

### TempCleanup, ProcessProofs, MCTempCleanup

Who removes the directories of drags, clipboard and compilation. `StartDrag`, `Stage`,
`EndDrag`, `Done`, `Copy`, `Compile` are a directory's life; `Expire` is the worker of
`retain_temporary_directory`, which holds four (`MaxRetained`) and drops the oldest for a
fifth; `Told` and `Register` are `register` of `drag_cleanup.rs`, a line for the helper, which
is started when it does not run; `Help` is the helper, which acts once its input has ended;
`Launch` is `recover_abandoned` with `schedule_in_process`, whose thread is `Planned`; the
sweep of ancient directories, retained ones of a running program too, is part of the first
`StartDrag` of a program. Programs `Quit` or
`Die`, helpers die alone (`HelperDies`). `now` is a clock that may stand still between any two
steps, so that whoever has a deadline may be late. Saves use the same helper; that side of it
is in `SaveCommit`.

### CompileJob, CompileJobProofs, MCCompileJob

The window's part (`Start`, `Cancel`, `CloseRequest`, `Poll`) and the worker thread
(`compile_models_worker`) with a program counter: per model `NextModel`, `ReadModel` or
`ReadFails`, then `StageSuper`, `StageFails` along the chain of supermodels and `WriteInput` or
`WriteFails`; per batch `Spawn`, `Wait`, `Collect`; `Finish` and `Return` at the end. `Record`
writes the failure report and is itself fatal when that fails. Resolving a supermodel asks the
archives, HAKs beside them, loose files and the game in that order; `Answers` says what each
place may come to, and which failures pass on to the next place, for which the relevant
functions of `game_resources.rs` are read. `CompilerExits` is the child process, which may
also never end. `Panic` is the slice of `compiler_diagnostics`, see section 4.

### Views, ViewsProofs, MCViews

What the window shows of the active archive. A frame is drawn in steps (`pc`): a command that
changes tabs or entries, the resource view (`View`, which computes rows or takes the cached
ones, and the entry for the details pane), the tree and the details pane (`ClickCategory`,
`Details`, `DetailsRemove`), then the rows, which are clicked (`Click`, `CtrlClick`,
`ShiftClick`, `Arrow`, `Jump`, `SelectAll`, `SetSort`, `DeleteButton`). A tab has its entries in
file order, an identity and a revision, which with category and sorting are the key of the
cache; the selection is a set of indices with anchor and cursor. Imports change the entries over
several frames and sort them at the end, merging, undo and saving at once. The two previews
are cached under tab index, name, type and size. An import remembers the last index of
each name at its start (`lookup`), undo the first entry under each name before the edit. Delete
in the details pane and below the list works during an import too. The ghost `meant` of a tab
holds the names of the resources the user selected: it is set by clicks and keys only (`Selects`)
and never by `Restored`, but loses resources that are gone. `astray` says that the code is known
to have lost the selection, by merging an archive without resources or at the end of an import
during which something else was selected, until the user selects again. `Sorted` and `Rows` are stable sorts, written as what they
amount to: each index at the rank (`Ranked`) that its entry's name and then the index give it.

## 3. Runs

With two workers `edit_history`, `temp_cleanup`, `staging` and `drag_source` need up to three
minutes, `editor` and `views` one; the others end within half a minute.

| Run | Question | Bounds and why they are enough |
|---|---|---|
| `edit_history` | Do undo, redo and save keep the promise of a linear history, with a truthful mark and exact bounds? | two keys, one of which the file may hold twice, two contents (a change can be told from none), two texts and a missing description that is read as one of them, two steps, three bytes, sizes 2 of resources and 1 and 4 of a description: one edit alone too large, two that overflow the bytes together, one of each kind that fit, three small ones that overflow the steps. The proofs have the histories of several edits of resources |
| `parallel_export` | Is every batch whole, or its error real, and does the caller get an answer? | three threads, up to four resources, threshold two: fewer, as many and more resources than threads, both paths, any set of failures |
| `editor` | Can a document be lost, changed in another tab's name, or be wrongly clean; what may an import do to other archives and resources, and does it end? | two tabs, two files that hold one of two keys, or a new archive, queues of two, two edits, drops or saves, any undos and redos, closing and quitting: enough for an import with a conflict that meets a deletion and an undo, a closed tab, a drop, or a save over the other tab's file. Files that hold a key twice are left to the proofs, which have them |
| `save_commit` | Is the archive file whole and a finished save lasting, and what is left behind? | two instances, two saves, two crashes, errors of all kinds: a crash during the recovery from a crash, or two saves of overlapping instances |
| `single_instance` | Are paths opened once, in one window, and all of them? | four launches, one of them too long, one death: enough for a taken-over name, a race of two and a bystander |
| `archive_data` | Does every entry read what the user put there? | two tabs, two files, two keys, six steps |
| `staging` | Is a staged file ever removed that an archive, a history or the clipboard needs? | two tabs, two keys, histories of one step, one retained drag export, two directories, five operations of the user, any number of frames, answers and expiries: enough to paste, cut or copy again, and save, undo or close in the other tab |
| `drag_source` | Does a target get a whole list, the drop only if it agreed, and never a leave too few? | two drags, two targets, lists in one property or in one part and its end, two movements, two requests: enough to leave a target for another with an answer under way, to ask again in the middle of a transfer, for two transfers of one drag, and for a second drag while the first is served |
| `temp_cleanup` | Is a directory there as long as it is needed, and removed at last? | two launches, both busy, two directories, one retained, retention of one instant, two until a directory counts as abandoned, five instants, one dead helper: enough for a recovery beside a running program, an eviction, a directory that survives its program and its helper |
| `compile_job` | Is each model exported or reported, its supermodels there, and does a cancel end the job? | up to four models in batches of two: a full and a partial batch, two models with one supermodel, supermodels that name each other, one that only the game has |
| `views` | Are the rows, the selection and the preview those of the entries there are now? | two tabs, two files whose entries are not sorted and share a name, one of which holds a name twice, three names, two contents of one size, an imported file that one of them has and that goes before all others in the other one, two edits, two clicks: an import and an undo, or a merge and a save, after a selection of more than one row |
| `views_remove` (violation) | Are rows only drawn of entries that exist? | the same |

What the properties say:

* `CleanIsSaved` (both modules): a tab without the dirty mark, shown or not, holds what its
  file holds. In `EditHistory` that is what is shown of it (section 2), and it is suspended
  between a save that failed late and the next save; in `Editor` saves either succeed or do
  nothing, and archives in `doubt` are excepted.
* `StepsBounded`, `BytesBounded`: both stacks together respect `MAX_UNDO_STEPS` and
  `MAX_UNDO_BYTES`, and the running estimate is exactly the sum over the stacks.
* `UndoReturns`, `KeepsPromise`: undo and redo move along the time line of what is shown.
* `OneWriter`, `OkIsComplete`, `Returns`, `KeepsPromise` for the export. `Accounted`,
  `FailureSurvives`, `StopsForReason`, `ErrorIsReal` and `TypeOK` are parts of its inductive
  invariant: they are proved, and no run needs to check them any more.
* `ImportStaysHome`: a turn of an import changes no archive but its own, whatever is opened,
  shown, edited or saved meanwhile, as long as no tab is closed. `ImportSparesOthers`: and no
  resource of another name, however stale its indices are, also in a wrong archive.
  `NothingLost`: a tab disappears only saved, discarded in the dialog that asked about it, or
  clean and in doubt, and the program ends only when all others are saved. `KeepsPromise`:
  showing, opening and closing archives changes no document. `ImportEnds`: an import that is
  left alone comes to its end or to a question.
* `OutputIntact`: the archive file is one whole version whatever stops when. `SavedSurvives`:
  a save reported as done with its directory synced is never undone. `LeftoversRemoved`: once
  a lone instance has recovered, partial files are left only of saves one of whose steps
  failed or that overlapped another instance. `RecoverySparesLive`: recovery and helper remove
  no file of a save in progress, unless another instance ran beside it.
* `OpenedOnce`: however launches race and whatever dies, nobody's paths are in two places.
  `OneWindow`: without a race there is one window. `EveryLaunchOpens`: without a death, the
  paths of every launch (but one that is too long) are opened.
* `EntriesReadBack`: each entry reads the intended bytes, as long as no other tab replaced a
  file the tab reads and no own save failed late.
* `PastedReadable`, `ClipboardReadable`: no directory is pruned while an open archive names
  files in it, or while the system clipboard lists them, as CHANGELOG.md:11-12 promises.
  `PastedRestorable`: nor while a transaction does, but for one exception that the code has: an
  import that replaced a pasted entry is not in the history before it ends, and a Copy or Save
  in the menu prunes meanwhile. The undo of that import is then refused.
* `GetsWhole`: what a target has got is one drag's list, each part once and in order, of files
  that were written, also after it gave a transfer up and asked again. `NoneCutOff`: a drag
  that was dropped ends only with its target's answer and all its transfers. `DropWanted`: a
  drop goes to a target that agreed since it was last entered. `NoneLeftHovering`: every
  target that was entered is left, or dropped on, however the drag ends short of an error.
* `KeptWhileNeeded`: no worker, helper, thread or recovery removes a directory that a running
  program uses or that a drop target has been promised. `NoneForgotten`: somebody who still
  runs is charged with every directory there is. `Removed`: and removes it.
* `EachAccounted`: a job that is said to be done has exported each model whole or has it in
  the report, not both; the window speaks of a worker that stopped only if it did.
  `ChainStaged`: whatever order the models came in, the compiler finds the whole chain of
  supermodels, up to one that cannot be had. `CancelEnds`: a canceled job ends even if the
  compiler would run for ever, and a window that was to close goes on to close.
* `ViewCurrent`: a cache that would be used is what would be computed now. `SelectionMeant`:
  the selected indices are those of the resources the user selected, unless the selection went
  `astray`. `PreviewFresh`: a cached preview that would be shown shows the contents there are,
  unless it is in doubt: a model after an import, a merge or a closed tab, or a resource that
  the archive holds twice.

## 4. What the code does against expectation

One run is there for a violation. **`views_remove`**: the rows of a frame are computed
(`main.rs:3606`) before the details pane is drawn, whose "Remove from archive" deletes the
selected entries at once (`main.rs:3812`); the rows drawn after it in the same frame index
entries that are gone (`main.rs:4052`), and the window panics, when one of the last rows is
visible. The other ways to delete come before the rows are computed or after they are drawn.

These statements are in the modules too and false of the code, each beside the property that
makes an exception for it; TLC refutes each within seconds when it is added to the `.cfg` named.

* `NoPanic` (`Editor.cfg`): an import indexes the entries with what it looked up at its start
  (`main.rs:1859`). Remove, undo or save during it leave the index past the end, and the window
  panics. An index that is wrong but exists is refused when it comes to replacing
  (`archive.rs:563-571`), which is what `ImportSparesOthers` shows.
* `ImportNeverStrays` (`Editor.cfg`): Close tab in the menu during an import moves another archive to the
  remembered index (`main.rs:1794`), and the import goes on there, although CHANGELOG.md:178
  promises to "keep imports tied to their originating tab".
* `CleanIsAlwaysSaved` (`Editor.cfg`): a new archive, or Save As, may take the file of another tab
  (`main.rs:1660-1669`), which stays clean although its document is in no file any more.
* `CleanIsExact` (`EditHistory.cfg`): `Archive::open` accepts a file that holds a key twice.
  Undoing the deletion of one copy overwrites the first entry with the key (`main.rs:5801`), and
  restores the clean mark. And undoing a description edit writes back the description as it was
  read (`archive.rs:232-248`): other bytes if it was not UTF-8, an empty one if there was none,
  under the clean mark of before. Either tab is then closed without the question of README.md:17.
* `SelectionSurvivesImport` (`Views.cfg`): the end of an import restores the selection of its start
  (`main.rs:1912-1915`), and drops one that was made while it ran; CHANGELOG.md:178 promises to
  "preserve selections when resources are re-sorted".
* `SelectionSurvivesMerge` (`Views.cfg`): merging an archive without resources sorts the entries
  (`archive.rs:650-655`), but neither raises the revision nor restores the selection: rows and
  selection name other entries of an archive that was not sorted.

The other deviations are visible in the models, as constants, ghosts and exceptions of the
properties; dropping an exception shows them.

| What happens | Where | How the models have it |
|---|---|---|
| A drop on another tab leaves an import behind; quitting then records it in the active tab's history, whose undo restores the other tab's clean mark. | `main.rs:1538` | `doubt` in `Editor` |
| Slices taken over by a merge are stale once the merged archive is saved in its own tab. | `archive.rs:134` | `EntriesReadBack` of `ArchiveData` excepts tabs whose files were replaced (`disturbed`); `AllReadBack` does not, and is false |
| A resource dragged to another tab names a file in the drag's directory, which is removed a minute later: it cannot be read, nor the archive saved. | `drag_out.rs:199` | `PastedReadable` of `Staging` is about clipboard exports; `EntriesReadable`, about all, is false |
| A save that fails after its rename leaves the clean mark of older transactions untrue and the tab with stale slices. | `archive.rs:690` | `failedLate` in `EditHistory`, `LateFailure` in `ArchiveData` |
| A save that fails drops its recovery record before its temporary file; a death in between leaves a file that no launch knows of. | `archive.rs:684` | `troubled` in `SaveCommit` |
| A launch removes the name another has just bound, and the next launch finds no window; a message with more than 1,024 paths is reported as forwarded and then dropped. | `single_instance.rs:28`, `:80` | `raced` and `TooMany` in `SingleInstance` |
| The late answer of a window the pointer has left is taken for the current target's: the drop goes to one that did not agree, or is withheld. | `drag_out.rs:393` | `misled` in `DragSource` |
| Two drags that overlap answer for each other: the first to end gives up the selection the second owns, and both may write parts to one property. | `drag_out.rs:431` | `overlap` in `DragSource` |
| A fifth drag removes the directory of the first before its minute is over. | `drag_out.rs:184` | `evicted` in `TempCleanup` |
| A launch removes directories of running instances that have not been modified for long enough. | `drag_cleanup.rs:73` | `taken` in `TempCleanup` |
| What a helper that died was told is not told to its successor; clipboard exports are told to none. | `drag_cleanup.rs:138` | `excused` in `TempCleanup` |
| A supermodel that could not be staged fails the first model that names it; the next ones are compiled without it, although CHANGELOG.md:49-51 says that available supermodels are staged and validated. | `main.rs:5229` | `broken` in `CompileJob`: `ChainStaged` ends at such a name |
| Diagnostics of the compiler are cut at 4,000 bytes, within a character if it falls so: the worker panics, the batch is lost and the window says that the job stopped. | `main.rs:5662` | `Panic` in `CompileJob` |
| Imports, merges and closed tabs drop the image preview but not the model preview, whose key cannot tell contents of one size, or two tabs that had one index, apart. | `main.rs:740` | `doubt` in `Views` |
| Of an archive with a resource twice, the key of a preview does not tell one copy from the other if they have one size. | `main.rs:740` | `doubt` in `Views` |
| A compiler that hangs is waited for without a timeout, until the user cancels: its directory stays as long as the program does. | `main.rs:5592` | `Removed` of `TempCleanup` is about directories not in use; `CompileJob` has the hanging compiler |

### Fairness of the runs

* `ParallelExport`: weak fairness of the caller and of each thread. Threads of a scope run
  until they end, the caller joins them.
* `Editor`: weak fairness of `ContinueImport` only. `logic` asks for a repaint as long as an
  import is pending, so that a frame follows; nothing is assumed of the user.
* `SingleInstance`: weak fairness of a launch's route, of the listener thread and of the
  window's frame, which is requested at least every 200 ms. Nothing forces a death or a start.
* `TempCleanup`: weak fairness of the clock, of the worker, of the threads of
  `schedule_in_process` and of the helper, which all wait for a deadline and then act. None of
  the end of a drag, which the user may hold, nor of a compilation, which has no timeout; none of
  a death, a launch or a quit. `Removed` therefore speaks of directories that are in use no more.
* `CompileJob`: weak fairness of the worker thread as a whole, and of the window's poll, for
  which a frame is requested every 50 ms while there is a job. None of the compiler, which may
  hang: `CancelEnds` must not rely on it.

The other modules are checked for safety only.

## 5. Proofs

All proofs are for arbitrary constants that satisfy the assumptions of the modules, and use
nothing else; no result is assumed.

**`EditHistoryProofs`** (`Keys`, `Data`, bounds and sizes arbitrary).

* `TypeCorrect`, `StepsStayBounded`: the invariant is `TypeInv`, types and `StepsBounded`
  together; `RecordType` and `ExpiredRange` say what one `record` does to the stacks.
  `TypeOK` says that no run outgrows
  the longest that a file may hold, and keys outside `Twice` stay single.
* `UndoIsExact`: the inductive invariant adds `Linked`: each transaction leads from the ghost
  state on its one side to that on its other side and back. `EditStep` shows this for the
  transaction of each operation, `UndoShape`, `RedoShape` and `EditShape` that the stacks only
  shift. `PatchedShown` is what makes this hold of archives with doubled keys and foreign
  descriptions: what a transaction makes of what is shown does not depend on what is not.
* `CleanTabIsSaved`: `CleanLinked` adds that a transaction that would mark the tab clean leads
  back to what is on disk, as it is shown. `CleanIsSaved` alone is not inductive, since Undo
  copies the flag from the stack.
* `BytesStayBounded`: the stack is never estimated to take more than the code allows. The sum
  over a stack is a recursive function, so what it does is shown by induction: `Induct` is
  induction over a set of numbers, from the least counterexample that well-foundedness of the
  naturals gives. `SumsAgree`, `AppendBytes`, `SuffixBytes` and `FrontBytes` say what appending
  and dropping do to a sum, and `ExpiredEnough` that `record` drops as many as it must. The
  counter of bytes equals the sum, so that its saturating subtraction never saturates.
* `HistoryIsLinear`: every step is a step of `LinearHistory` over what is shown, or invisible.

The theorems hold of any number of copies of the keys in `Twice`; what is not shown is where TLC
refutes them (section 4).

**`ArchiveProofs`** holds the proofs of the two modules about `Archive`. For `ParallelExport`
(any finite non-empty set of threads, any number of resources, any threshold) the inductive
invariant is the conjunction of all the module's safety properties: `Accounted` (a taken
resource is finished, failed or held), `FailureSurvives` (a failure is on its way to the mutex
until it is there) and `StopsForReason` carry the others. From it follow `ExportTypeCorrect`,
`ExclusiveWriting`, `SuccessIsComplete`, `NoErrorIsLost` and the refinement `ExportIsBatch`.

For `ArchiveData` (any files, keys and contents, any tabs) the theorems are `DataReadBack`
and `ArchiveTypeCorrect`. `EntriesReadBack` speaks of what tabs hold; an undo brings back
entries that no tab held for a while, so the invariant says of those too that each is at its
place in the file it names (`Matched`, `Right`). `SliceReads` is about the file a save writes:
places are ranks of keys, different for different entries (`Placing`), so that every entry is
read at the place it is given. `OthersKept` says what a save does not touch. A save to a file
that another tab reads from is the exception, `disturbed`, that the property makes.

**`EditorProofs`** (any files, that hold any key any number of times, any number of keys, tabs,
steps and files of a queue; histories of any length). The theorems have no hypothesis: menus,
buttons and drops work during an import, and any file may be saved over.

None of the properties is inductive. `undo_edit` takes entries and mark from the stack, a switch
of tabs takes both from a copy, and an import records at its end what it changed over many
frames. So the proof looks at documents, the functions from keys to data that entry lists stand
for (`Doc`; a list with unique keys is sorted into one list only, `SameDoc`). Its invariant
`EditorInv` says:

* of each archive that is not in doubt (`TabOK`) that its tab is sound (`SoundTab`): its undo and
  redo stacks are chains of documents (`Chain`), each transaction leads from the one before to the
  one after it, and one that would mark the tab clean leads to what the file holds; or, if an
  import is at home there, that it is `Midway` between the document it had and the one it will
  have: the changes to be recorded lead from the one to the other, and the lookup is that of the
  entries. Archives in doubt have types only (`RawSet`);
* of the copies, that all but the active tab's are the tabs the user sees (`Arranged`), each with
  an identity of its own;
* of a running import (`ImportOK`), that the tab at its index is that of its archive unless a tab
  was closed.

Every lemma about an operation is there twice: those that end in `Sound` show what it keeps of a
tab that is not in doubt, those that end in `Raw` what it keeps of any. `AddRaw` is where
`ImportSparesOthers` comes from: whatever the lookup says, what is replaced has the name of the
file, or nothing is. Those that end in `Good` show what an operation of the window keeps. The
effects of steps on the tabs as the user sees them (`Rearranged`, `Edited`, `Kept`, `Added`,
`Removed`, summed up in `Effect`) carry the properties of steps. Theorems: `EditorInvariant`,
`CleanSaved`, `KeepsHome`, `SparesOthers`, `KeepsEverything` (no step loses a document) and
`PromiseKept` (every step is a step of `Workspace` or invisible).

**`FilesProofs`**, on saving (any instances, any number of saves and crashes, any failing steps,
overlap or not). `SavedSurvives` speaks of the order in which versions were renamed, and
nothing in it says that a rename comes after a sync; so the invariant is built from the steps:

* `JobsOwn` and `HelpersOwn`: an attempt belongs to one instance, and a helper knows only of
  attempts of its own, or of nobody's; without this a step of one instance could touch the
  file of another.
* `SyncedWhole`: what is about to be renamed is whole and synced, and so is everything that
  a power loss may leave under the archive's name; this carries `OutputIntact`.
* `StepsTold`, `Charged`: from the first byte on, the temporary file has a record that lasts,
  and when its instance is gone every launch that runs has that record still to read. They
  carry `RecoverySparesLive` and, once a launch is past its recovery, `LeftoversRemoved`.
* `RenamesOnce`, `OnlyHeld`, `InOrder`: a version is renamed once, only such versions are ever
  in the file, and what is about to be reported is no older than what may be left of the file.

The theorems are `SaveTypesCorrect`, `OutputStaysIntact`, `SavedStaySaved`, `LiveSavesSpared` and
`LeftoversGo`. `TogetherTroubled` says that whoever saves while another instance runs is in
`troubled`, the exception the properties make.

**`ProcessProofs`** holds the proofs of the two modules about several processes. For
`SingleInstance` (any launches, deaths and races) `Placed` says where the paths of a
launch may be: nowhere while it is routed (`Unplaced`), then in one place (`Sole`), once
(`NoRepeats`); `PathsOpenedOnce` is its conclusion in cardinalities. `OneAtATime` is for launches
that have not raced and messages that are not too long: whoever is past asking the endpoint
has found no window, and the only window is the listener. It gives `OneWindowOnly`; the whole
invariant is `RouteInvariance`, the types are `RouteTypesCorrect`.

For `TempCleanup` (any programs, directories, delays, and any capacity of the worker)
`KeptWhileNeeded` is not inductive: a helper's deadline, a plan, or an entry of the worker's
list may have been wrong all along and act only later. The invariant says of each that it is
right when it is made: `LateEnough` (the helper of a directory's program has no deadline before
the promise ends), `OthersPlanned` (threads of `schedule_in_process` watch directories of other
programs only), `Held` (the worker's list holds dropped exports of its program, each once, none
promised beyond its deadline), `HeldIfPromised`, `SweptFirst` and `Made`. `NoneForgotten` follows
from `Covered`, which asks for a helper even while the program runs, since the program may die
at any time. Theorems: `NeededAreKept`, `NoneIsForgotten`, `TypeCorrect`.

**`CompileJobProofs`** (any finite number of models, any supermodels, any size of a batch; that
the selected models are finitely many is part of the module's assumption). `EachAccounted`
speaks of the end of the job; the invariant says for every program counter of the worker what
has been counted so far (`Accounts`), that no model is twice in a batch and no exported one in
it (`Batches`), what each outcome says of the program counter (`Stages`, `SaysSo`), and that the
supermodel of whatever is staged is dealt with or the next to be staged (`Chains`). Theorems:
`ModelsAccounted`, `ChainsStaged`, `TypeCorrect`.

**`DragSourceProofs`** (any drags, targets, movements, requests and sizes). `NoTargetLeft` and
`NoTransferCut` are inductive with the types; `DropsWanted` needs `AgreedHere`, the same for a
drag that is not dropped yet, and `NotYet`. `Goes` shows once, for all handlers, that after an
event a drag goes on or ends with its transfers complete.

`ListsArriveWhole` (`GetsWhole`) is about drags that do not overlap: `Calm` implies `OneAlive`,
and windows that are gone have nothing waiting (`Resting`). Within that, `Serving(t)` follows a
transfer to a target from the request to the last part. It rests on the order of a queue:
nothing of a target that matters comes after its request (`Turn`), a target that has not asked
has no request waiting, and one that is served has deleted nothing since (`InOrder`), so that
the deletion which a drag reads is the one of the part it sent last (`OneDeletion`, `Reading`).
This is why a request that replaces a transfer under way is harmless: by the time it is served
no deletion of the old transfer is left to be taken for one of the new. Most handlers leave a
target alone (`Untouched`); the others have a lemma each.

**`FilesProofs`**, on staged files (any tabs, any finite number of names, any directories and history lengths).
`PastedReadable` is not inductive: an undo brings data back from a transaction, an import ends in
one, and a switch shows a tab's copy. `Lost` is the set of exports that were pruned; the invariant
says of everything that may become current that it names none of them: `AllSound` of the shown
document and of the copies of all other tabs, entries and transactions (the shown tab's own copy
may be stale until `sync_current_tab` replaces it), `Importing` of the
changes a running import has still to record and of the file it asks about, unless `disturbed`.
`NotPruned` is the step of the argument that all users of `prune_clipboard_exports` share: what
nothing refers to is in no document. The queue of an import needs no such clause, since `Round`
looks again whether a file is there. `Listed` says that the clipboard exports on disk are those
in `clips`, so that drags and their expiry lose none, and `Newest` that the clipboard lists the
last of them. The theorems are `TypeCorrect`, `PastedStaysReadable`, `PastedStaysRestorable` and
`ClipboardStaysReadable`.

**`ViewsProofs`** (any archives of any length, any tabs, opens, edits and clicks). None of the
three properties is inductive: a tab that is not shown must be fit to be shown, rows computed of
it included, and undo brings back entries that no tab holds. The invariant says

* of every open archive (`SoundTab`) that what is selected exists and is what the user selected,
  unless it went `astray`, that the same is true of what undo would restore (`PastOK`), and that
  its identity is its own (`TabsOK`); of a running import (`ImportOK`), of what its end would;
* of the cache (`CacheOK`) that for *every* archive whose identity its key has, it `Fits`: its
  revision is not newer, and if it is the same, the rows index entries and are those that
  would be computed now, unless an import is `Busy` or the entries were `resorted`. `Keeps` is
  what a change of the active archive has to respect for that (`FitsIs`): a new revision, or
  no index lost and rows the same. A save leaves nothing of it to prove, because identities are
  never given twice (`NewIdentity`);
* of the frame (`FrameOK`) that from `View` to the drawn rows nothing but "Remove from archive"
  takes entries away, so that rows and the entry in the details pane exist;
* of the image (`ImageOK`) that it is true of the archive that is shown, and of the model
  (`ModelOK`) that it is true of every archive at whose index it might be taken for its own,
  or in doubt. `From` is what makes sorting, deleting and saving harmless to both.

The lemmas below are about the operators: ranks under a linear order list a set without
repetition (`RankedIs`, a counting argument on the sets that precede), so that sorting
neither drops nor doubles an entry (`SortedIs`) and rows index entries (`RowsIs`); what is added leaves the
others where they are (`WithIs`), and a merge is such additions one after the other
(`MergedIs`); taking changes back makes a list of entries (`RevertedIs`); what is restored by keys is what had them (`RestoredIs`). `ResortedIs` is the step
that carries `SelectionIsTheUsers`: the keys that are restored come from what was selected when
the edit began, `meant` from the clicks, and that both agree is a hypothesis that each edit has
to establish, not a consequence of the restore. The theorems are `TypesCorrect`,
`RowsAreCurrent`, `SelectionIsTheUsers` and `PreviewsAreFresh`, all without assumptions about the
archives.

TLC has checked each inductive invariant on the instance of the module's run, `IInv` of
`TempCleanup` also with a worker that holds nothing; `EditorInv` alone asks for sequences of
documents, which TLC cannot enumerate. The types of `SingleInstance`, `CompileJob`,
`DragSource`, `TempCleanup` and `Staging` are stated in full for the proofs: queues as sequences
of their messages, histories of their transactions, deadlines as functions into the naturals.
Each proof module has one lemma per part of its invariant, with one step per action; operators
such as `Ending`, `Launching`, `Removing` or `Onward` sum up what an action does before the parts
are proved.

Every invariant and action property that a passing run checks is so stated by a theorem. Only model-checked is liveness under
fairness (`Returns`, `ImportEnds`, `EveryLaunchOpens`, `Removed`, `CancelEnds`), which is beyond the
prover.

## 6. Abstractions

* Keys, contents, paths and launches are model values; formats, names and messages are not
  modelled. Byte estimates of edits are an arbitrary choice from `Sizes` and `TextSizes`.
* `EditHistory`: an import is one action here and many frames in `Editor`; there, the
  history is unbounded, here it is bounded and one tab is considered. A transaction whose
  files are gone is refused by the code and no step here.
* `Editor`: saves succeed or change nothing, save failures are in `SaveCommit` and
  `ArchiveData`. Merging, the description and the selection are left out; deleting takes any
  entries.
* `SaveCommit`: what was synced stays; a created or renamed name whose directory was not
  synced may be lost; a removal is final; names of temporary files are never used twice. The
  file system removes and renames atomically.
* `SingleInstance`: only the Unix half; a connection is accepted as long as the listener lives;
  paths are not resolved, so that working directories are not told apart.
* `Staging`: an opened archive holds all keys or none, and the queue of an import is an excerpt
  of a longer one, so that any number of its files may be left for the next frames. During an
  import the user only copies, pastes and saves (the rest is in `Editor`). Tabs are told apart
  by name, as if a drag remembered its source tab and not its index. What other programs put on
  the clipboard, and read-only BIF tabs, are left out.
* `ArchiveData`: places instead of byte offsets, and what is read at a place that holds no
  single resource is `Garbage`. Redo is left out; in-memory data behave like outside files.

* `DragSource`: a message to a target changes at once what the target knows; that it is read
  late shows in the answers. Parts of a list are numbers, and `Sizes` how many there are. The
  cursor, its shapes and the versions of the protocol are left out. Movements and requests are
  bounded.
* `TempCleanup`: a directory's name is used once, and a directory is removed at once and as a
  whole. `Done` stands for every reason for which the program drops a directory. Instants stand
  for the durations: only their order matters, and they keep the order of the code (a minute is
  shorter than what makes a directory abandoned).
* `CompileJob`: one job, since the window has one at a time and the next shares only the path
  of the compiler with it. Progress events change only what the dialog shows and are left out,
  and so is decompilation, a loop without state. A name that is staged is not looked at again,
  whichever place had it.
* `Views`: one column to sort by and one filter, since type, size and the filter text are
  further parts of the same key. Undo goes one step back and redo is left out (`EditHistory`
  has them); the menus and drops during an import are in `Editor`, and so is where a stale index
  of an import panics. Textures of models are left out.
* `CompileJob` ends a job when the compiler has exited; that the worker then joins the threads
  which read its output (`main.rs:5604-5609`), and so waits for programs that inherited it, is
  left out.

## 7. Not modelled, and the plan

Not modelled, for reasons that stay:

* the layout of ERF and BIF files in bytes, with its 32-bit checks and outside files that
  change between `size` and `copy_to`: sequential code over bytes, whose questions are about
  numbers beyond TLC's small instances; the file that changes is listed as a hazard without
  a property;
* which of several game installations is preferred, and the reading of KEY and BIF files:
  lookups; that a drag remembers its source tab by index: no model has both drags and indices;
* decoding and drawing of models, images and audio, resource types: pure computation, tables;
* drags on Windows: one modal call of the system;
* the model compiler: a program of its own with vendored libraries, run as a child process;
* packaging.

Worth doing next: redo and a longer history in `Views` and `ArchiveData`, whose proofs need of
undo only that what it returns to is sound (`PastOK`, `Matched`).

Order in which the modules were written: `EditHistory` and `ParallelExport` first, as the
ones with the strongest promises, then `Editor`, `SaveCommit`, `SingleInstance`, `ArchiveData`
and `Staging`, which share files and tabs, then `DragSource`, `TempCleanup`, `CompileJob` and
`Views`, the threads and caches around them.
