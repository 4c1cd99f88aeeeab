----------------------------- MODULE CompileJob -----------------------------
(***************************************************************************)
(* Compiling the selected models (main.rs): the window starts a worker     *)
(* thread, which prepares the models one by one, with the supermodels they *)
(* are derived from, runs the model compiler on batches of them, exports   *)
(* what it made and reports what it did not make.  The window may cancel   *)
(* the job, or be closed during it, at any time.                           *)
(*                                                                         *)
(* Left out: progress events, which only change what the dialog shows; the *)
(* wording of errors; the removal of files in the workspace, which is      *)
(* removed as a whole.  One job is modelled: the window has one at a time  *)
(* and the next one shares nothing with it but the path of the compiler.   *)
(***************************************************************************)
EXTENDS Naturals, Sequences, FiniteSets

CONSTANTS
    Models,      \* 1..n, the models of the archive in order
    Supers,      \* the names of supermodels
    None,        \* no supermodel, or a name that is "null"
    SuperOf,     \* what setsupermodel names in a model and in a supermodel; a
                 \* compiled supermodel is not looked into and has None
    Holds,       \* per place, the supermodels it has
    BatchSize    \* BATCH_SIZE

\* The places in the order in which they are asked.
Places == <<"archives", "siblings", "loose", "game">>

ASSUME CompileAssumption ==
    /\ IsFiniteSet(Models) /\ Models = 1..Cardinality(Models) /\ Models # {}
    /\ None \notin Supers
    /\ SuperOf \in [Models \cup Supers -> Supers \cup {None}]
    /\ DOMAIN Holds = {Places[i] : i \in DOMAIN Places}
    /\ \A place \in DOMAIN Holds : Holds[place] \subseteq Supers
    /\ BatchSize \in Nat \ {0}

VARIABLES
    job,        \* the window has a job: its dialog is open
    cancel,     \* the flag the window and the worker share
    quit,       \* quit_after_model_compile
    quitting,   \* request_quit was called
    told,       \* what the window says of the last job
    compiler,   \* model_compiler: "unset", "found" or "missing"
    total,      \* the models of the job are 1..total
    pc,         \* where the worker is
    at,         \* the model it is at
    visited,    \* how many it has counted
    wanted,     \* the supermodel to be staged next
    named,      \* staged_dependencies: the supermodels seen so far
    staged,     \* those that are in the workspace
    absent,     \* those found nowhere
    broken,     \* those found, but not read or not written
    batch,      \* the models that wait for the compiler
    child,      \* the compiler: "none", "running", "exited"
    made,       \* what it made of a model: "none", "valid" or "invalid"
    target,     \* where a model is exported to: "old", "part" or "model"
    exported,   \* of the outcome
    skipped,    \* of the outcome
    report,     \* the models in the failure report, once it is created
    fatal,      \* of the outcome
    canceled,   \* of the outcome
    sent,       \* Finished is in the channel
    hungup      \* the worker has dropped its end of the channel

window == <<job, cancel, quit, quitting, told, compiler>>
loop == <<total, at, visited, wanted>>
supers == <<named, staged, absent, broken>>
outcome == <<exported, skipped, report, fatal, canceled>>
work == <<batch, child, made, target>>
channel == <<sent, hungup>>
vars == <<window, loop, supers, outcome, work, channel, pc>>

Set(s) == {s[i] : i \in DOMAIN s}
Single == total = 1    \* single_path: a file was chosen, not a directory

----------------------------------------------------------------------------
(* The window.                                                             *)

\* model_compiler: the program beside this one, or the one that is configured.
Lookup == {"found", "missing"}

\* Of the selected models that are not compiled yet, the first n.  The path
\* of the compiler is looked up once and kept, be it an error.
Start(n) ==
    /\ ~job /\ pc = "idle" /\ ~quitting
    /\ \E found \in IF compiler = "unset" THEN Lookup ELSE {compiler} :
         /\ compiler' = found
         /\ job' = (found = "found")
         /\ told' = IF found = "found" THEN "compiling" ELSE "failed"
         /\ total' = IF found = "found" THEN n ELSE total
         /\ pc' = IF found = "found" THEN "open" ELSE pc
    /\ UNCHANGED <<cancel, quit, quitting, at, visited, wanted, supers, outcome, work, channel>>

Cancel ==
    /\ job /\ ~cancel /\ cancel' = TRUE
    /\ UNCHANGED <<job, quit, quitting, told, compiler, loop, supers, outcome, work, channel, pc>>

CloseRequest ==
    /\ ~quitting /\ ~quit
    /\ cancel' = (cancel \/ job) /\ quit' = (quit \/ job) /\ quitting' = ~job
    /\ UNCHANGED <<job, told, compiler, loop, supers, outcome, work, channel, pc>>

Told ==
    CASE fatal -> "failed"
      [] ~fatal /\ canceled -> "canceled"
      [] ~fatal /\ ~canceled -> "done"

\* The job is over: a window that was to be closed goes on with that.
Over(message) ==
    /\ job' = FALSE /\ told' = message
    /\ quitting' = (quitting \/ quit) /\ quit' = FALSE

\* All events that are there are handled before the end of the channel is.
Poll ==
    /\ job /\ (sent \/ hungup)
    /\ Over(IF sent THEN Told ELSE "stopped")
    /\ UNCHANGED <<cancel, compiler, loop, supers, outcome, work, channel, pc>>

----------------------------------------------------------------------------
(* The worker: preparing.                                                  *)

Leave == wanted' = None
Fatal == fatal' = TRUE /\ pc' = "flush"

OpenWorkspace ==
    /\ pc = "open"
    /\ \/ pc' = "next" /\ UNCHANGED fatal
       \/ Fatal
    /\ UNCHANGED <<window, loop, supers, exported, skipped, report, canceled, work, channel>>

\* The cancel flag is read before each model, and not after the last one.
NextModel ==
    /\ pc = "next"
    /\ IF at = total THEN pc' = "flush" /\ UNCHANGED <<at, wanted, canceled>>
       ELSE IF cancel THEN pc' = "flush" /\ canceled' = TRUE /\ UNCHANGED <<at, wanted>>
       ELSE at' = at + 1 /\ pc' = "read" /\ UNCHANGED <<wanted, canceled>>
    /\ UNCHANGED <<window, total, visited, supers, exported, skipped, report, fatal, work, channel>>

\* Mutant: a model that could not be prepared is not counted.
CountPrepared(prepared) == IF prepared THEN visited + 1 ELSE visited

Count(prepared) == visited + 1

\* The compiler runs when the batch is full, and on what is left at the end.
AfterModel(prepared, models) ==
    /\ visited' = Count(prepared)
    /\ pc' = IF models # <<>> /\ (Len(models) = BatchSize \/ Count(prepared) = total) THEN "spawn"
             ELSE "next"

\* record_model_compilation_failure: one line in the report, which is created
\* with its first line; without a directory for one the failure is fatal, and
\* so is a report that cannot be created or written.
Record(m) ==
    \/ /\ ~Single /\ skipped' = skipped \cup {m}
       /\ report' = report \cup {m} /\ UNCHANGED fatal
    \/ /\ skipped' = IF Single THEN skipped ELSE skipped \cup {m}
       /\ fatal' = TRUE /\ UNCHANGED report

\* Reading the model, resolving or writing a supermodel, or writing the model
\* into the workspace failed.
NotPrepared ==
    /\ Record(at) /\ Leave
    /\ IF fatal' THEN pc' = "flush" /\ UNCHANGED visited ELSE AfterModel(FALSE, batch)
    /\ UNCHANGED <<window, total, at, exported, canceled, work, channel>>

\* A name that no file may have, a size over the limit, or a read error.
ReadFails == pc = "read" /\ NotPrepared /\ UNCHANGED supers
ReadModel ==
    /\ pc = "read" /\ pc' = "stage" /\ wanted' = SuperOf[at]
    /\ UNCHANGED <<window, total, at, visited, supers, outcome, work, channel>>

\* What asking a place for a supermodel it has may come to.  An archive, or a
\* supermodel that is too large or cannot be read, decides.
FromArchives == {"found", "error"}
\* A HAK beside the archives that does not open is passed over, and so is a
\* directory of loose files that cannot be listed.
FromSiblings == {"found", "error", "passed"}
FromLoose == {"found", "error", "passed"}
\* A KEY file of the game that is broken lists nothing, or less; a BIF that
\* does not have what a KEY file lists is passed over.
IndexKey == {"listed", "passed"}
LoadBif == {"found", "passed"}
FromGame == LoadBif \cup (IndexKey \ {"listed"})
Answers(place) ==
    CASE place = "archives" -> FromArchives
      [] place = "siblings" -> FromSiblings
      [] place = "loose" -> FromLoose
      [] place = "game" -> FromGame

\* The first place that has it and is not passed over decides.  The cache of
\* the resolver never answers, since a name is asked for once.
Having(s) == {i \in DOMAIN Places : s \in Holds[Places[i]]}
Passed(s, i) == \A j \in Having(s) : j < i => "passed" \in Answers(Places[j])
Resolutions(s) ==
    {answer \in {"found", "error"} :
        \E i \in Having(s) : Passed(s, i) /\ answer \in Answers(Places[i])}
    \cup (IF Passed(s, Len(Places) + 1) THEN {"absent"} ELSE {})

\* Mutant: a supermodel is staged without those it is derived from.
StageSuperOnly ==
    /\ pc = "stage" /\ wanted # None /\ wanted \notin named
    /\ named' = named \cup {wanted}
    /\ \/ /\ "found" \in Resolutions(wanted) /\ Leave
          /\ staged' = staged \cup {wanted} /\ UNCHANGED <<absent, broken>>
       \/ "absent" \in Resolutions(wanted) /\ absent' = absent \cup {wanted} /\ Leave /\ UNCHANGED <<staged, broken>>
    /\ UNCHANGED <<window, total, at, visited, outcome, work, channel, pc>>

\* stage_model_dependencies_inner: a name is marked before it is resolved, and
\* one that is marked is not asked for again, whatever came of it.
StageSuper ==
    /\ pc = "stage" /\ wanted # None /\ wanted \notin named
    /\ named' = named \cup {wanted}
    /\ \/ /\ "found" \in Resolutions(wanted) /\ wanted' = SuperOf[wanted]
          /\ staged' = staged \cup {wanted} /\ UNCHANGED <<absent, broken>>
       \/ /\ "absent" \in Resolutions(wanted) /\ Leave
          /\ absent' = absent \cup {wanted} /\ UNCHANGED <<staged, broken>>
    /\ UNCHANGED <<window, total, at, visited, outcome, work, channel, pc>>

\* It cannot be read, is too large, or cannot be written.
StageFails ==
    /\ pc = "stage" /\ wanted # None /\ wanted \notin named
    /\ Resolutions(wanted) # {"absent"}
    /\ named' = named \cup {wanted} /\ broken' = broken \cup {wanted}
    /\ NotPrepared /\ UNCHANGED <<staged, absent>>

\* The chain has come to its end, or to a name that was seen before.
WriteInput ==
    /\ pc = "stage" /\ (wanted = None \/ wanted \in named)
    /\ batch' = Append(batch, at) /\ Leave /\ AfterModel(TRUE, batch')
    /\ UNCHANGED <<window, total, at, supers, outcome, child, made, target, channel>>
WriteFails ==
    /\ pc = "stage" /\ (wanted = None \/ wanted \in named)
    /\ NotPrepared /\ UNCHANGED supers

----------------------------------------------------------------------------
(* The worker: compiling a batch.                                          *)

Spawn ==
    /\ pc = "spawn"
    /\ \/ child' = "running" /\ pc' = "wait" /\ UNCHANGED fatal
       \/ Fatal /\ UNCHANGED child
    /\ UNCHANGED <<window, loop, supers, exported, skipped, report, canceled, batch, made,
                   target, channel>>

\* The compiler makes of each model a model, something else, or nothing; it
\* may as well never end.
CompilerExits ==
    /\ child = "running" /\ child' = "exited"
    /\ \E result \in [Set(batch) -> {"none", "valid", "invalid"}] :
         made' = [m \in Models |-> IF m \in Set(batch) THEN result[m] ELSE made[m]]
    /\ UNCHANGED <<window, loop, supers, outcome, batch, target, channel, pc>>

\* Mutant: the flag is only read between models.
WaitUncanceled ==
    /\ pc = "wait" /\ child = "exited"
    /\ pc' = "collect" /\ child' = "none" /\ UNCHANGED <<canceled, fatal>>
    /\ UNCHANGED <<window, loop, supers, exported, skipped, report, batch, made, target, channel>>

\* Every 25 ms: the cancel flag first, which kills the compiler, then whether
\* it has ended.  A compiler that cannot be watched is left running.
Wait ==
    /\ pc = "wait"
    /\ \/ cancel /\ canceled' = TRUE /\ child' = "none" /\ pc' = "flush" /\ UNCHANGED fatal
       \/ ~cancel /\ child = "exited" /\ pc' = "collect" /\ child' = "none" /\ UNCHANGED <<canceled, fatal>>
       \/ ~cancel /\ Fatal /\ UNCHANGED <<child, canceled>>
    /\ UNCHANGED <<window, loop, supers, exported, skipped, report, batch, made, target, channel>>

\* compiler_diagnostics cuts the text of the compiler at 4000 bytes, and
\* panics when that is within a character: the report, the workspace and the
\* channel are dropped, and no outcome is sent.
Panic ==
    /\ pc = "wait" /\ ~cancel /\ child = "exited"
    /\ pc' = "panicked" /\ child' = "none" /\ hungup' = TRUE
    /\ UNCHANGED <<window, loop, supers, outcome, batch, made, target, sent>>

\* The models of the batch, one by one.  A copy that fails has begun.
Collect ==
    /\ pc = "collect" /\ batch # <<>>
    /\ LET m == Head(batch) IN
       /\ batch' = Tail(batch)
       /\ \/ /\ made[m] = "valid" /\ target' = [target EXCEPT ![m] = "model"]
             /\ exported' = exported \cup {m} /\ UNCHANGED <<skipped, report, fatal>>
          \/ /\ made[m] = "valid" /\ target' = [target EXCEPT ![m] = "part"]
             /\ Record(m) /\ UNCHANGED exported
          \/ made[m] # "valid" /\ Record(m) /\ UNCHANGED <<exported, target>>
    /\ pc' = IF fatal' THEN "flush" ELSE IF batch' = <<>> THEN "next" ELSE "collect"
    /\ UNCHANGED <<window, loop, supers, canceled, child, made, channel>>

\* The report, if there is one, is flushed, and the outcome sent.
Finish ==
    /\ pc = "flush" /\ pc' = "close" /\ sent' = TRUE
    /\ \/ UNCHANGED fatal
       \/ report # {} /\ fatal' = TRUE
    /\ UNCHANGED <<window, loop, supers, exported, skipped, report, canceled, work, hungup>>

\* The workspace goes, then the sender.
Return ==
    /\ pc = "close" /\ pc' = "returned" /\ hungup' = TRUE
    /\ UNCHANGED <<window, loop, supers, outcome, work, sent>>

Work ==
    \/ OpenWorkspace \/ NextModel \/ ReadModel \/ ReadFails \/ StageSuper \/ StageFails
    \/ WriteInput \/ WriteFails \/ Spawn \/ Wait \/ Panic \/ Collect \/ Finish \/ Return

Init ==
    /\ job = FALSE /\ cancel = FALSE /\ quit = FALSE /\ quitting = FALSE
    /\ told = "nothing" /\ compiler = "unset"
    /\ total = 0 /\ pc = "idle" /\ at = 0 /\ visited = 0 /\ wanted = None
    /\ named = {} /\ staged = {} /\ absent = {} /\ broken = {}
    /\ batch = <<>> /\ child = "none"
    /\ made = [m \in Models |-> "none"] /\ target = [m \in Models |-> "old"]
    /\ exported = {} /\ skipped = {} /\ report = {}
    /\ fatal = FALSE /\ canceled = FALSE /\ sent = FALSE /\ hungup = FALSE

Next ==
    \/ \E n \in Models : Start(n)
    \/ Cancel \/ CloseRequest \/ Poll
    \/ Work \/ CompilerExits

Spec == Init /\ [][Next]_vars
\* The thread of the worker runs, and the window polls it in every frame and
\* asks for one every 50 ms while it has a job.  The compiler may hang, and
\* the user need not do anything.
FairSpec == Spec /\ WF_vars(Work) /\ WF_vars(Poll)

----------------------------------------------------------------------------
(* Properties.  The first is not among the properties that are checked.    *)

TypeOK ==
    /\ {job, cancel, quit, quitting, fatal, canceled, sent, hungup} \subseteq BOOLEAN
    /\ total \in Models \cup {0} /\ at \in 0..total /\ visited \in 0..at
    /\ wanted \in Supers \cup {None} /\ named = staged \cup absent \cup broken
    /\ batch \in Seq(Models) /\ Len(batch) <= BatchSize
    /\ child \in {"none", "running", "exited"}
    /\ made \in [Models -> {"none", "valid", "invalid"}]
    /\ target \in [Models -> {"old", "part", "model"}]
    /\ exported \cup skipped \subseteq 1..total /\ report \subseteq skipped

\* A job of which the window says that it is done has dealt with every
\* selected model: it is whole where it was to be exported, or it is in the
\* failure report, and never both; and the window speaks of a worker that
\* stopped only if it did (compile_models_worker, poll_model_compile_job).
EachAccounted ==
    /\ told = "done" =>
         /\ exported \cup skipped = 1..total /\ exported \cap skipped = {}
         /\ report = skipped
         /\ \A m \in exported : target[m] = "model"
    /\ told = "stopped" => pc = "panicked"

\* When the compiler runs, the supermodel of every model of its batch, the
\* supermodel of that one and so on are in the workspace, up to one that was
\* found nowhere or could not be staged, be it for another model: the names
\* are marked for all models of the job (stage_model_dependencies).
ChainStaged ==
    pc = "wait" => \A f \in Set(batch) \cup staged :
        SuperOf[f] \in staged \cup absent \cup broken \cup {None}

\* A job that is canceled ends, however long the compiler would run, and a
\* window that was to be closed during a job goes on to close.
CancelEnds == (cancel ~> ~job) /\ (quit ~> quitting)
=============================================================================
