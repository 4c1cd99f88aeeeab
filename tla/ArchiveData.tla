---------------------------- MODULE ArchiveData ----------------------------
(***************************************************************************)
(* Where the bytes of a resource are.  An opened archive holds no data:    *)
(* each entry is a slice of a file, by path and offset, or a whole file    *)
(* outside (EntryData).  Merging copies the slices of another archive, and *)
(* saving copies every slice into a new file, whose layout is another, and *)
(* reads it back.  Nothing tells the holder of a slice that its file was   *)
(* replaced.                                                               *)
(*                                                                         *)
(* A directory entry and a resource take one place of a file each, so that *)
(* the data of an archive of n resources begin at place n + 1.             *)
(***************************************************************************)
EXTENDS Naturals, FiniteSets, Sequences, SequencesExt, Functions

CONSTANTS
    Tabs,
    Paths,        \* archive files
    KeyCount,     \* resource keys are numbers, in the order entries are sorted
    Outside,      \* contents of files that are not archives
    NoPath,       \* the path of a new archive
    Garbage,      \* what is read at a place that holds no single resource
    LateFailure,  \* whether a save may fail after the rename
    OverOpen,     \* whether the user picks, for Save As, files other tabs read
    MaxSteps      \* changes of tabs and files, at most

ASSUME DataAssumption ==
    /\ KeyCount \in Nat \ {0} /\ MaxSteps \in Nat
    /\ NoPath \notin Paths /\ Garbage \notin Outside
    /\ LateFailure \in BOOLEAN /\ OverOpen \in BOOLEAN

Keys == 1..KeyCount
Contents == Outside \cup {Garbage} \cup (Paths \X Keys)   \* the last: original data
Sources ==
    [kind : {"slice"}, path : Paths, place : 1..(2 * KeyCount)]
        \cup [kind : {"file"}, content : Outside]

\* Functions from some of the keys.
Partial(S) == UNION {[K -> S] : K \in SUBSET Keys}

VARIABLES
    file,       \* per path the archive there: its keys and their contents
    path,       \* per open tab archive.path
    entries,    \* per open tab archive.entries: where each resource's data are
    past,       \* per open tab the entries undo would bring back, latest last
    intended,   \* history variable: the contents the user chose for each key
    wanted,     \* history variable: intended, for each element of past
    disturbed,  \* history variable: tabs one of whose files changed under them
    steps

tabs == <<path, entries, past, intended, wanted>>
dataVars == <<file, tabs, disturbed, steps>>

Open == DOMAIN path

----------------------------------------------------------------------------
(* Layout.                                                                 *)

Size(contents) == Cardinality(DOMAIN contents)
Rank(K, k) == Cardinality({j \in K : j <= k})

\* The resource's offset in the list that write_to and open go through.
Slice(p, contents, k) ==
    [kind |-> "slice", path |-> p,
     place |-> Size(contents) + Rank(DOMAIN contents, k)]

Slices(p, contents) == [k \in DOMAIN contents |-> Slice(p, contents, k)]

\* copy_to
Read(source) ==
    IF source.kind = "file" THEN source.content
    ELSE LET contents == file[source.path]
             here == {k \in DOMAIN contents :
                        Slice(source.path, contents, k).place = source.place}
         IN IF here = {} THEN Garbage ELSE contents[CHOOSE k \in here : TRUE]

\* Whether a slice ends within its file, which may be another file now.
Fits(source) ==
    source.kind = "slice" => source.place <= 2 * Size(file[source.path])

HoldsSlice(held, p) ==
    \E k \in DOMAIN held : held[k].kind = "slice" /\ held[k].path = p

\* Whether a tab could still read a slice of p, at once or after undo.
Needs(t, p) ==
    \/ HoldsSlice(entries[t], p)
    \/ \E i \in DOMAIN past[t] : HoldsSlice(past[t][i], p)

----------------------------------------------------------------------------
(* Tabs.                                                                   *)

Step == steps < MaxSteps /\ steps' = steps + 1

Extend(f, t, value) == [u \in DOMAIN f \cup {t} |-> IF u = t THEN value ELSE f[u]]

AddTab(t, p, held, contents) ==
    /\ path' = Extend(path, t, p)
    /\ entries' = Extend(entries, t, held)
    /\ past' = Extend(past, t, <<>>)
    /\ intended' = Extend(intended, t, contents)
    /\ wanted' = Extend(wanted, t, <<>>)

\* open_path: a path that has a tab is shown, not opened again.
OpenPath(t, p) ==
    /\ Step
    /\ t \notin Open /\ \A u \in Open : path[u] # p
    /\ AddTab(t, p, Slices(p, file[p]), file[p])
    /\ UNCHANGED <<file, disturbed>>

\* new_archive
NewArchive(t) ==
    /\ Step
    /\ t \notin Open
    /\ AddTab(t, NoPath, <<>>, <<>>)
    /\ UNCHANGED <<file, disturbed>>

\* close_tab
CloseTab(t) ==
    /\ Step
    /\ path' = Restrict(path, Open \ {t})
    /\ entries' = Restrict(entries, Open \ {t})
    /\ past' = Restrict(past, Open \ {t})
    /\ intended' = Restrict(intended, Open \ {t})
    /\ wanted' = Restrict(wanted, Open \ {t})
    /\ disturbed' = disturbed \ {t}
    /\ UNCHANGED file

\* An edit, recorded for undo; contents are what the user means it to bring.
Edit(t, held, contents) ==
    /\ Step
    /\ entries' = [entries EXCEPT ![t] = held]
    /\ past' = [past EXCEPT ![t] = Append(@, entries[t])]
    /\ intended' = [intended EXCEPT ![t] = contents]
    /\ wanted' = [wanted EXCEPT ![t] = Append(@, intended[t])]
    /\ UNCHANGED <<file, path, disturbed>>

With(new, old) ==
    [k \in DOMAIN new \cup DOMAIN old |-> IF k \in DOMAIN new THEN new[k] ELSE old[k]]

\* add_paths, an import that adds or replaces one resource
Add(t, k, content) ==
    Edit(t, With([j \in {k} |-> [kind |-> "file", content |-> content]], entries[t]),
            With([j \in {k} |-> content], intended[t]))

\* delete_selected, of one resource
Delete(t, k) ==
    /\ k \in DOMAIN entries[t]
    /\ Edit(t, Restrict(entries[t], DOMAIN entries[t] \ {k}),
               Restrict(intended[t], DOMAIN intended[t] \ {k}))

\* merge: the file is opened and its entries, slices, are taken over.
Merge(t, p) ==
    /\ DOMAIN file[p] # {}
    /\ Edit(t, With(Slices(p, file[p]), entries[t]), With(file[p], intended[t]))

\* undo_edit; validate_history_entry refuses what does not fit its file.
Undo(t) ==
    /\ Step
    /\ past[t] # <<>>
    /\ LET before == Last(past[t]) IN
       \A k \in DOMAIN before :
          \/ k \in DOMAIN entries[t] /\ entries[t][k] = before[k]
          \/ Fits(before[k])
    /\ entries' = [entries EXCEPT ![t] = Last(past[t])]
    /\ past' = [past EXCEPT ![t] = Front(@)]
    /\ intended' = [intended EXCEPT ![t] = Last(wanted[t])]
    /\ wanted' = [wanted EXCEPT ![t] = Front(@)]
    /\ UNCHANGED <<file, path, disturbed>>

----------------------------------------------------------------------------
(* Saving.                                                                 *)

Written(t) == [k \in DOMAIN entries[t] |-> Read(entries[t][k])]

\* Archive::save puts a new file in place of the old: every slice of it is
\* stale now, whoever holds it, but for the tab that reads the file back.
Replace(t, p) == file' = [file EXCEPT ![p] = Written(t)]

Holders(p) == {u \in Open : Needs(u, p)}

\* Mutant: what can be undone is not cleared.
SaveKeepingPast(t, p) ==
    /\ Step
    /\ Replace(t, p)
    /\ path' = [path EXCEPT ![t] = p]
    /\ entries' = [entries EXCEPT ![t] = Slices(p, Written(t))]
    /\ disturbed' = disturbed \cup (Holders(p) \ {t})
    /\ UNCHANGED <<past, intended, wanted>>

\* save and Archive::save: the archive is read back, the history cleared.
Saved(t, p) ==
    /\ Step
    /\ Replace(t, p)
    /\ path' = [path EXCEPT ![t] = p]
    /\ entries' = [entries EXCEPT ![t] = Slices(p, Written(t))]
    /\ past' = [past EXCEPT ![t] = <<>>]
    /\ wanted' = [wanted EXCEPT ![t] = <<>>]
    /\ disturbed' = disturbed \cup (Holders(p) \ {t})
    /\ UNCHANGED intended

\* The permissions cannot be set or the file not be read back: the error
\* leaves the archive as it was, with slices of a file that is gone.
FailedLate(t, p) ==
    /\ LateFailure
    /\ Step
    /\ Replace(t, p)
    /\ disturbed' = disturbed \cup Holders(p)
    /\ UNCHANGED tabs

SaveTo(t, p) == Saved(t, p) \/ FailedLate(t, p)

\* Save, for an archive that has a path.
Save(t) == path[t] # NoPath /\ SaveTo(t, path[t])

\* Save As, to any path the user picks.
SaveAs(t, p) ==
    /\ OverOpen \/ Holders(p) \subseteq {t}
    /\ SaveTo(t, p)

----------------------------------------------------------------------------
DataInit ==
    /\ file = [p \in Paths |-> [k \in Keys |-> <<p, k>>]]
    /\ path = <<>> /\ entries = <<>> /\ past = <<>>
    /\ intended = <<>> /\ wanted = <<>>
    /\ disturbed = {}
    /\ steps = 0

DataNext ==
    \/ \E t \in Tabs : NewArchive(t) \/ \E p \in Paths : OpenPath(t, p)
    \/ \E t \in Open :
          \/ CloseTab(t) \/ Undo(t) \/ Save(t)
          \/ \E p \in Paths : Merge(t, p) \/ SaveAs(t, p)
          \/ \E k \in Keys : Delete(t, k) \/ \E c \in Outside : Add(t, k, c)

DataSpec == DataInit /\ [][DataNext]_dataVars

----------------------------------------------------------------------------
(* Properties.                                                             *)

\* Every variable has its type; the tabs' parts have the same tabs and keys;
\* not among the properties that are checked.
DataTypeOK ==
    /\ file \in [Paths -> Partial(Contents)]
    /\ Open \subseteq Tabs /\ \A t \in Open : path[t] \in Paths \cup {NoPath}
    /\ DOMAIN entries = Open /\ DOMAIN past = Open
    /\ DOMAIN intended = Open /\ DOMAIN wanted = Open
    /\ \A t \in Open :
          /\ \A k \in DOMAIN entries[t] : k \in Keys /\ entries[t][k] \in Sources
          /\ DOMAIN intended[t] = DOMAIN entries[t]
          /\ Len(wanted[t]) = Len(past[t])
    /\ disturbed \subseteq Open /\ steps \in 0..MaxSteps

ReadsBack(t) == \A k \in DOMAIN entries[t] : Read(entries[t][k]) = intended[t][k]

\* Through edits, undo and its own saves, each entry of a tab reads the data
\* the user put there, as long as no other tab replaced a file the tab reads
\* and no save of the tab failed late.
EntriesReadBack == \A t \in Open \ disturbed : ReadsBack(t)

\* Each entry of every tab reads the data the user put there: what merging
\* archives and saving them (README.md:13, README.md:16) are for.
\* It is false, and not among the properties that are checked: see the README.
AllReadBack == \A t \in Open : ReadsBack(t)
=============================================================================
