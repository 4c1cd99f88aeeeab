---------------------------- MODULE TempCleanup ----------------------------
(***************************************************************************)
(* Who removes the temporary directories of drags, of the clipboard and of *)
(* model compilation (drag_cleanup.rs, and retain_temporary_directory of   *)
(* drag_out.rs).  The program removes them when it is done with them.  For *)
(* the case that it ends first it hands deadlines to a helper process,     *)
(* which acts when its input ends, that is after the program.  For the     *)
(* case that the helper ends too, the next launch looks for leftovers.     *)
(*                                                                         *)
(* Time is a clock that may stand still between any two steps: whoever has *)
(* a deadline may act late, never early.                                   *)
(***************************************************************************)
EXTENDS Naturals, Sequences, FiniteSets, Functions

CONSTANTS
    Programs,      \* 1..n, in the order in which they are launched
    Dirs,          \* 1..n, in the order in which they are made
    None,          \* no program
    Grace,         \* drag_retention, RETENTION
    Unconfirmed,   \* UNCONFIRMED_DRAG_RETENTION
    Abandoned,     \* ABANDONED_DRAG_RETENTION
    Ancient,       \* MINIMUM_AGE of cleanup_abandoned_drag_directories
    MaxRetained,   \* MAX_RETAINED_EXPORTS
    Busy,          \* bound: the programs whose users make directories
    MaxDeaths,     \* bound: helpers that are dead at a time
    MaxTime        \* bound: the last instant

ASSUME CleanupAssumption ==
    /\ Programs \subseteq Nat \ {0} /\ Dirs \subseteq Nat \ {0} /\ None \notin Programs
    /\ {Grace, Unconfirmed, Abandoned, Ancient, MaxRetained, MaxDeaths, MaxTime} \subseteq Nat

VARIABLES
    now,
    prog,       \* of each program: "none", "running", "ended"
    helper,     \* of each program, its helper: "none", "alive", "dead"
    known,      \* per helper: the deadline of each directory it was told of
    planned,    \* per program: what schedule_in_process will remove, and when
    kept,       \* per program: retained of the worker, oldest first
    swept,      \* the programs that have looked for ancient directories
    owner,      \* of each directory: the program that made it, or None
    use,        \* "none", "drag", "kept", "clipboard", "work" or "over"
    present,    \* the directories that exist
    changed,    \* of each directory: the time it was last modified
    promised,   \* ghost: until when a drop target may go on reading it
    taken,      \* ghost: the program whose launch, or whose helper,
                \* removed it while it was needed
    evicted,    \* ghost: directories the worker had no room for
    excused     \* ghost: directories whose helper failed or was never told

vars == <<now, prog, helper, known, planned, kept, swept, owner, use, present,
          changed, promised, taken, evicted, excused>>

Empty == [d \in {} |-> 0]
With(f, d, value) == [e \in DOMAIN f \cup {d} |-> IF e = d THEN value ELSE f[e]]
Age(d) == now - changed[d]
Running(p) == prog[p] = "running"

\* Of use: to a program that runs, or to a drop target in its minute.
Needed(d) ==
    \/ use[d] \in {"drag", "clipboard", "work"} /\ owner[d] # None /\ Running(owner[d])
    \/ promised[d] > now

\* Directories are removed.  A deadline of one that is gone has no effect any
\* more, names being used once: it is not kept in the model.
Without(plans, gone) == [p \in Programs |-> Restrict(plans[p], DOMAIN plans[p] \ gone)]
RemoveDirs(gone) ==
    /\ present' = present \ gone
    /\ changed' = [d \in Dirs |-> IF d \in gone THEN 0 ELSE changed[d]]
    /\ excused' = excused \ gone
\* By a later program, or by a helper, be it too early.
Take(p, gone) ==
    taken' = [d \in Dirs |-> IF d \in gone \cap present /\ Needed(d) THEN p ELSE taken[d]]

\* Mutant: the helper keeps the first deadline it is told.
FirstRecorded(records, d, deadline) == IF d \in DOMAIN records THEN records ELSE With(records, d, deadline)

\* process_records: a later line for the same path replaces an earlier one.
Recorded(records, d, deadline) == With(records, d, deadline)

\* Mutant: a deadline that has come is not worth a line.
ToldLater(p, d, delay) ==
    IF delay = 0 THEN known
    ELSE [known EXCEPT ![p] = Recorded(IF helper[p] = "alive" THEN @ ELSE Empty, d, now + delay)]

\* register: a line for the helper, which is started when it does not run.
\* What a helper that is gone was told is not told again.  One that cannot
\* be started is one that dies at once.
Told(p, d, delay) ==
    [known EXCEPT ![p] = Recorded(IF helper[p] = "alive" THEN @ ELSE Empty, d, now + delay)]
Register(p) == helper' = [helper EXCEPT ![p] = "alive"]

----------------------------------------------------------------------------
(* The program.                                                            *)

Remaining(d) == IF Age(d) >= Abandoned THEN 0 ELSE Abandoned - Age(d)

\* A launch that was not handed over to a running window (see SingleInstance),
\* be it the only one or one that could not reach the other: recover_abandoned
\* and schedule_in_process.
Launch(p) ==
    /\ prog[p] = "none" /\ \A q \in Programs : q < p => prog[q] # "none"
    /\ prog' = [prog EXCEPT ![p] = "running"]
    /\ LET old == {d \in present : Remaining(d) = 0}
           young == present \ old
           plan == [d \in young |-> now + Remaining(d)] IN
       /\ present' = present \ old
       /\ changed' = [d \in Dirs |-> IF d \in old THEN 0 ELSE changed[d]]
       /\ Take(p, old)
       /\ planned' = [Without(planned, old) EXCEPT ![p] = plan]
       /\ known' = [Without(known, old) EXCEPT ![p] = plan]
       /\ helper' = [helper EXCEPT ![p] = IF young = {} THEN "none" ELSE "alive"]
    /\ excused' = {}
    /\ UNCHANGED <<now, kept, swept, owner, use, promised, evicted>>

\* A new directory.  Its deadlines have to come before MaxTime.
Make(p, d, purpose) ==
    /\ Running(p) /\ p \in Busy /\ owner[d] = None /\ \A e \in Dirs : e < d => owner[e] # None
    /\ now + Unconfirmed + Grace <= MaxTime
    /\ owner' = [owner EXCEPT ![d] = p] /\ use' = [use EXCEPT ![d] = purpose]

\* drag_selected, and drag_out::start, which in the first drag of a program
\* looks for directories of drags, retained or not, that are half a day old.
StartDrag(p, d) ==
    /\ Make(p, d, "drag") /\ Register(p)
    /\ LET ancient == {e \in present : p \notin swept /\ use[e] \in {"drag", "kept"} /\ Age(e) >= Ancient} IN
       /\ present' = (present \ ancient) \cup {d}
       /\ changed' = [e \in Dirs |-> IF e = d THEN now ELSE IF e \in ancient THEN 0 ELSE changed[e]]
       /\ Take(p, ancient) /\ excused' = excused \ ancient
    /\ known' = Told(p, d, Unconfirmed) /\ swept' = swept \cup {p}
    /\ UNCHANGED <<now, prog, planned, kept, promised, evicted>>

\* The files are written into it when they are first asked for.
Stage(p, d) ==
    /\ Running(p) /\ owner[d] = p /\ use[d] = "drag" /\ d \in present
    /\ changed[d] < now /\ now + Abandoned <= MaxTime
    /\ changed' = [changed EXCEPT ![d] = now]
    /\ UNCHANGED <<now, prog, helper, known, planned, kept, swept, owner, use, present,
                   promised, taken, evicted, excused>>

\* retain_temporary_directory: the worker holds what was dropped for a while,
\* and so many directories at most.  Its deadline has to come before MaxTime.
EndDrag(p, d) ==
    /\ Running(p) /\ owner[d] = p /\ use[d] = "drag" /\ now + Grace <= MaxTime
    /\ Register(p) /\ promised' = [promised EXCEPT ![d] = now + Grace]
    /\ LET all == Append(kept[p], [dir |-> d, until |-> now + Grace])
           most == IF Len(all) > MaxRetained THEN Tail(all) ELSE all
           out == IF Len(all) > MaxRetained THEN {Head(all).dir} ELSE {} IN
       /\ kept' = [kept EXCEPT ![p] = most]
       /\ use' = [e \in Dirs |-> IF e \in out THEN "over" ELSE IF e = d THEN "kept" ELSE use[e]]
       /\ RemoveDirs(out) /\ evicted' = evicted \cup {e \in out : Needed(e)}
       /\ known' = [Told(p, d, Grace) EXCEPT ![p] = Restrict(@, DOMAIN @ \cap (present \ out))]
       /\ planned' = Without(planned, out)
    /\ UNCHANGED <<now, prog, swept, owner, taken>>

\* The program is done with a directory and drops it: a drag that failed, a
\* clipboard export nothing refers to, a compilation that is over.
Done(p, d) ==
    /\ Running(p) /\ owner[d] = p /\ use[d] \in {"drag", "clipboard", "work"}
    /\ use' = [use EXCEPT ![d] = "over"] /\ RemoveDirs({d})
    /\ known' = Without(known, {d}) /\ planned' = Without(planned, {d})
    /\ UNCHANGED <<now, prog, helper, kept, swept, owner, promised, taken, evicted>>

\* Mutant: the worker waits for the next drag, not for the deadline.
ExpireLate(p) ==
    /\ Running(p) /\ Len(kept[p]) > 1 /\ Head(kept[p]).until <= now
    /\ LET d == Head(kept[p]).dir IN
       /\ use' = [use EXCEPT ![d] = "over"] /\ RemoveDirs({d})
       /\ known' = Without(known, {d}) /\ planned' = Without(planned, {d})
    /\ kept' = [kept EXCEPT ![p] = Tail(@)]
    /\ UNCHANGED <<now, prog, helper, swept, owner, promised, taken, evicted>>

\* The worker, when the deadline of the oldest has come.
Expire(p) ==
    /\ Running(p) /\ kept[p] # <<>> /\ Head(kept[p]).until <= now
    /\ LET d == Head(kept[p]).dir IN
       /\ use' = [use EXCEPT ![d] = "over"] /\ RemoveDirs({d})
       /\ known' = Without(known, {d}) /\ planned' = Without(planned, {d})
    /\ kept' = [kept EXCEPT ![p] = Tail(@)]
    /\ UNCHANGED <<now, prog, helper, swept, owner, promised, taken, evicted>>

\* copy_selected_to_clipboard: no deadline is handed to the helper.
Copy(p, d) ==
    /\ Make(p, d, "clipboard")
    /\ present' = present \cup {d} /\ changed' = [changed EXCEPT ![d] = now]
    /\ UNCHANGED <<now, prog, helper, known, planned, kept, swept, promised, taken, evicted, excused>>

\* compile_models_worker, for its workspace.
Compile(p, d) ==
    /\ Make(p, d, "work") /\ Register(p) /\ known' = Told(p, d, 0)
    /\ present' = present \cup {d} /\ changed' = [changed EXCEPT ![d] = now]
    /\ UNCHANGED <<now, prog, planned, kept, swept, promised, taken, evicted, excused>>

\* The thread of schedule_in_process.
Planned(p) ==
    \E d \in DOMAIN planned[p] :
        /\ Running(p) /\ planned[p][d] <= now
        /\ RemoveDirs({d}) /\ Take(p, {d})
        /\ known' = Without(known, {d}) /\ planned' = Without(planned, {d})
        /\ UNCHANGED <<now, prog, helper, kept, swept, owner, use, promised, evicted>>

\* The program ends, and with it its threads: the directories they held stay.
Ended(p) ==
    /\ prog' = [prog EXCEPT ![p] = "ended"]
    /\ kept' = [kept EXCEPT ![p] = <<>>]

\* The window is closed, when no compilation runs: its state is dropped.
Quit(p) ==
    /\ Running(p) /\ \A d \in Dirs : owner[d] = p => use[d] # "work"
    /\ Ended(p)
    /\ LET clips == {d \in Dirs : owner[d] = p /\ use[d] = "clipboard"} IN
       /\ RemoveDirs(clips) /\ known' = Without(known, clips)
       /\ planned' = [Without(planned, clips) EXCEPT ![p] = Empty]
       /\ use' = [d \in Dirs |-> IF d \in clips THEN "over"
                                 ELSE IF owner[d] = p /\ use[d] = "kept" THEN "drag" ELSE use[d]]
    /\ UNCHANGED <<now, helper, swept, owner, promised, taken, evicted>>

\* The program is killed, or crashes.
Die(p) ==
    /\ Running(p) /\ Ended(p)
    /\ planned' = [planned EXCEPT ![p] = Empty]
    /\ use' = [d \in Dirs |-> IF owner[d] = p /\ use[d] = "kept" THEN "drag" ELSE use[d]]
    /\ excused' = excused \cup {d \in present : owner[d] = p /\ use[d] = "clipboard"}
    /\ UNCHANGED <<now, helper, known, swept, owner, present, changed, promised, taken, evicted>>

----------------------------------------------------------------------------
(* The helper, which reads until the program has ended.                    *)

Help(p) ==
    \E d \in DOMAIN known[p] :
        /\ helper[p] = "alive" /\ prog[p] = "ended" /\ known[p][d] <= now
        /\ RemoveDirs({d}) /\ Take(p, {d})
        /\ known' = Without(known, {d}) /\ planned' = Without(planned, {d})
        /\ UNCHANGED <<now, prog, helper, kept, swept, owner, use, promised, evicted>>

\* It is killed, with the session or alone.
HelperDies(p) ==
    /\ helper[p] = "alive" /\ Cardinality({q \in Programs : helper[q] = "dead"}) < MaxDeaths
    /\ helper' = [helper EXCEPT ![p] = "dead"] /\ known' = [known EXCEPT ![p] = Empty]
    /\ excused' = excused \cup DOMAIN known[p]
    /\ UNCHANGED <<now, prog, planned, kept, swept, owner, use, present, changed,
                   promised, taken, evicted>>

\* Time passes.  MaxTime bounds the clock.
Tick ==
    /\ now < MaxTime /\ now' = now + 1
    /\ promised' = [d \in Dirs |-> IF promised[d] > now' THEN promised[d] ELSE 0]
    /\ UNCHANGED <<prog, helper, known, planned, kept, swept, owner, use, present, changed,
                   taken, evicted, excused>>

----------------------------------------------------------------------------
Init ==
    /\ now = 0 /\ prog = [p \in Programs |-> "none"] /\ helper = [p \in Programs |-> "none"]
    /\ known = [p \in Programs |-> Empty] /\ planned = [p \in Programs |-> Empty]
    /\ kept = [p \in Programs |-> <<>>] /\ swept = {}
    /\ owner = [d \in Dirs |-> None] /\ use = [d \in Dirs |-> "none"] /\ present = {}
    /\ changed = [d \in Dirs |-> 0] /\ promised = [d \in Dirs |-> 0]
    /\ taken = [d \in Dirs |-> None] /\ evicted = {} /\ excused = {}

Next ==
    \/ \E p \in Programs :
          \/ Launch(p) \/ Expire(p) \/ Planned(p) \/ Quit(p) \/ Die(p) \/ Help(p) \/ HelperDies(p)
          \/ \E d \in Dirs : \/ StartDrag(p, d) \/ Stage(p, d) \/ EndDrag(p, d) \/ Done(p, d)
                             \/ Copy(p, d) \/ Compile(p, d)
    \/ Tick

Spec == Init /\ [][Next]_vars

\* Time passes, and threads and helpers act when it is time.  Nothing makes a
\* user end a drag, quit or launch the program, nor a compiler end.
Fairness ==
    /\ WF_vars(Tick)
    /\ \A p \in Programs : WF_vars(Expire(p)) /\ WF_vars(Planned(p)) /\ WF_vars(Help(p))

FairSpec == Spec /\ Fairness

----------------------------------------------------------------------------
\* The types; not among the properties that are checked.
Plans(plans) ==
    /\ DOMAIN plans = Programs
    /\ \A p \in Programs : /\ DOMAIN plans[p] \subseteq Dirs
                           /\ \A d \in DOMAIN plans[p] : plans[p][d] \in Nat
TypeOK ==
    /\ now \in 0..MaxTime /\ prog \in [Programs -> {"none", "running", "ended"}]
    /\ helper \in [Programs -> {"none", "alive", "dead"}] /\ Plans(known) /\ Plans(planned)
    /\ kept \in [Programs -> Seq([dir : Dirs, until : Nat])]
    /\ \A p \in Programs : Len(kept[p]) <= MaxRetained
    /\ owner \in [Dirs -> Programs \cup {None}] /\ present \subseteq Dirs /\ swept \subseteq Programs
    /\ use \in [Dirs -> {"none", "drag", "kept", "clipboard", "work", "over"}]
    /\ changed \in [Dirs -> Nat] /\ promised \in [Dirs -> Nat]
    /\ taken \in [Dirs -> Programs \cup {None}] /\ evicted \subseteq Dirs /\ excused \subseteq Dirs

\* A directory exists as long as it is of use, whatever helpers, workers and
\* recoveries do, with two exceptions the code makes: the worker holds only so
\* many, and a program launched later takes what has not been modified for
\* Abandoned for a leftover, even if its owner runs.
KeptWhileNeeded ==
    \A d \in Dirs : Needed(d) /\ d \notin present =>
        d \in evicted \/ taken[d] \in Programs \ {owner[d]}

\* Somebody is to remove it: the program, a helper, or a thread of a later
\* program.
Assigned(d) == \E p \in Programs :
    \/ Running(p) /\ (owner[d] = p \/ d \in DOMAIN planned[p])
    \/ helper[p] = "alive" /\ d \in DOMAIN known[p]

\* No directory is forgotten, unless its helper failed, or it is one of the
\* clipboard and its program died.
NoneForgotten == \A d \in present : Assigned(d) \/ d \in excused

\* The directory of a drag, of the clipboard or of a compilation that goes on.
InUse(d) == use[d] \in {"drag", "clipboard", "work"} /\ Running(owner[d])

\* What is in use no more, because it was retained long enough or because its
\* program ended, is removed at last, or nobody is left to remove it before the
\* next launch.  A compiler that hangs keeps its directory as long as the
\* program runs.
Removed == \A d \in Dirs : d \in present /\ ~InUse(d) ~> d \notin present \/ ~Assigned(d)
=============================================================================
