----------------------------- MODULE SaveCommit -----------------------------
(***************************************************************************)
(* How Archive::save replaces an archive file, with the journal of         *)
(* save_cleanup.rs and the helper process of drag_cleanup.rs: a temporary  *)
(* file beside the archive, a recovery record in the system's temporary    *)
(* directory, the rename, and what a failure, the death of the program or  *)
(* a power loss leaves between any two of these steps.                     *)
(*                                                                         *)
(* Each save makes an attempt of its own, with names nobody used before.   *)
(* The file system keeps what was synced; a name that was created or       *)
(* renamed but whose directory was not synced may be lost by a power loss, *)
(* and a removal is final.                                                 *)
(***************************************************************************)
EXTENDS Naturals, FiniteSets, Sequences, SequencesExt

CONSTANTS
    Instances,    \* runs of the program
    MaxAttempts,  \* saves, at most
    MaxCrashes,   \* deaths and power losses, at most
    Errors,       \* what may fail: a subset of {"io", "dirsync", "helper"}
    Overlap       \* whether two instances may run at once (single_instance.rs
                  \* means to prevent it and cannot always)

ASSUME SaveAssumption ==
    /\ MaxAttempts \in Nat /\ MaxCrashes \in Nat
    /\ Errors \subseteq {"io", "dirsync", "helper"} /\ Overlap \in BOOLEAN

Attempts == 1..MaxAttempts
Versions == 0..MaxAttempts     \* 0: the file before the first save

VARIABLES
    pc,        \* where each instance is in save, "off" if it does not run
    todo,      \* the records recover_abandoned has still to read
    job,       \* each instance's attempt in progress, or 0
    attempts,  \* attempts made so far
    temp,      \* per attempt the temporary file: absent, empty, partial, whole
    synced,    \* the attempts whose data are on disk
    record,    \* per attempt the recovery record: absent, empty, written
    recorded,  \* the attempts whose record would survive a power loss
    output,    \* the version the archive file holds
    durable,   \* the versions it may hold after a power loss
    intact,    \* whether it holds that version completely
    helper,    \* per instance the attempts its helper knows of
    cleaning,  \* the attempts known to helpers whose instance has ended
    crashes,
    renames,   \* history variable: the versions in the order of their renames
    promised,  \* history variable: saves reported as done, directory synced
    troubled   \* history variable: the attempts one of whose steps failed, or
               \* during which a second instance ran

fs   == <<temp, synced, record, recorded, output, durable, intact>>
ghosts == <<renames, promised, troubled>>
saveVars == <<pc, todo, job, attempts, fs, helper, cleaning, crashes, ghosts>>

Goto(p, label) == pc' = [pc EXCEPT ![p] = label]
Running(p) == pc[p] # "off"
MayFail(kind) == kind \in Errors
Troubles(p) == troubled' = troubled \cup {job[p]}
Alone(p) == \A q \in Instances \ {p} : ~Running(q)

----------------------------------------------------------------------------
(* Starting: recover_abandoned and recover_record.                         *)

\* Mutant: the recovery removes the record and forgets the file it names.
RecoverRecordOnly(i) ==
    /\ record' = [record EXCEPT ![i] = "absent"]
    /\ UNCHANGED temp

\* A record names its temporary file only once it is written.
RecoverRecord(i) ==
    /\ temp' = IF record[i] = "written" THEN [temp EXCEPT ![i] = "absent"] ELSE temp
    /\ record' = [record EXCEPT ![i] = "absent"]

Start(p) ==
    /\ pc[p] = "off"
    /\ Overlap \/ Alone(p)
    /\ troubled' = troubled \cup {job[q] : q \in {r \in Instances : job[r] # 0}}
    /\ todo' = [todo EXCEPT ![p] = {i \in Attempts : record[i] # "absent"}]
    /\ Goto(p, "recover")
    /\ UNCHANGED <<job, attempts, fs, helper, cleaning, crashes, renames, promised>>

Recover(p) ==
    /\ pc[p] = "recover"
    /\ \E i \in todo[p] :
          /\ RecoverRecord(i)
          /\ todo' = [todo EXCEPT ![p] = @ \ {i}]
    /\ UNCHANGED <<pc, job, attempts, synced, recorded, output, durable, intact,
                   helper, cleaning, crashes, ghosts>>

Ready(p) ==
    /\ pc[p] = "recover" /\ todo[p] = {}
    /\ Goto(p, "idle")
    /\ UNCHANGED <<todo, job, attempts, fs, helper, cleaning, crashes, ghosts>>

----------------------------------------------------------------------------
(* create_save_file.                                                       *)

CreateTemp(p) ==
    /\ pc[p] = "idle" /\ attempts < MaxAttempts
    /\ attempts' = attempts + 1
    /\ job' = [job EXCEPT ![p] = attempts']
    /\ temp' = [temp EXCEPT ![attempts'] = "empty"]
    /\ Goto(p, "record")
    /\ troubled' = IF Alone(p) THEN troubled ELSE troubled \cup {attempts'}
    /\ UNCHANGED <<todo, synced, record, recorded, output, durable, intact,
                   helper, cleaning, crashes, renames, promised>>

CreateRecord(p) ==
    /\ pc[p] = "record"
    /\ record' = [record EXCEPT ![job[p]] = "empty"]
    /\ Goto(p, "journal")
    /\ UNCHANGED <<todo, job, attempts, temp, synced, recorded, output, durable,
                   intact, helper, cleaning, crashes, ghosts>>

\* The record is written and synced; the sync of its directory is ignored if
\* it fails; the helper is told, a new one if the old is gone, if any.
Journal(p) ==
    LET i == job[p] IN
    /\ pc[p] = "journal"
    /\ record' = [record EXCEPT ![i] = "written"]
    /\ \/ recorded' = recorded \cup {i} /\ UNCHANGED troubled
       \/ MayFail("dirsync") /\ UNCHANGED recorded /\ Troubles(p)
    /\ \/ helper' = [helper EXCEPT ![p] = @ \cup {i}]
       \/ /\ MayFail("helper")
          /\ \E known \in SUBSET {i} : helper' = [helper EXCEPT ![p] = known]
    /\ Goto(p, "write")
    /\ UNCHANGED <<todo, job, attempts, temp, synced, output, durable, intact,
                   cleaning, crashes, renames, promised>>

----------------------------------------------------------------------------
(* The rest of save.                                                       *)

Exists(i) == temp[i] # "absent"

\* write_to; the name may be gone meanwhile, the open file is not.
Write(p, extent) ==
    LET i == job[p] IN
    /\ pc[p] = "write" /\ extent \in {"partial", "whole"}
    /\ temp' = IF Exists(i) THEN [temp EXCEPT ![i] = extent] ELSE temp
    /\ Goto(p, IF extent = "whole" THEN "sync" ELSE "write")
    /\ UNCHANGED <<todo, job, attempts, synced, record, recorded, output, durable,
                   intact, helper, cleaning, crashes, ghosts>>

\* Mutant: the data are flushed and not synced.
SyncSkipped(p) ==
    /\ pc[p] = "sync"
    /\ Goto(p, "rename")
    /\ UNCHANGED <<todo, job, attempts, fs, helper, cleaning, crashes, ghosts>>

\* sync_all
Sync(p) ==
    /\ pc[p] = "sync"
    /\ synced' = synced \cup {job[p]}
    /\ Goto(p, "rename")
    /\ UNCHANGED <<todo, job, attempts, temp, record, recorded, output, durable,
                   intact, helper, cleaning, crashes, ghosts>>

\* persist
Rename(p) ==
    LET i == job[p] IN
    /\ pc[p] = "rename" /\ Exists(i)
    /\ output' = i /\ durable' = durable \cup {i} /\ intact' = (temp[i] = "whole")
    /\ temp' = [temp EXCEPT ![i] = "absent"]
    /\ renames' = Append(renames, i)
    /\ Goto(p, "syncdir")
    /\ UNCHANGED <<todo, job, attempts, synced, record, recorded, helper, cleaning,
                   crashes, promised, troubled>>

\* Mutant: the directory is not synced.
SyncDirectorySkipped(p) ==
    /\ pc[p] = "syncdir"
    /\ Goto(p, "reopen")
    /\ UNCHANGED <<todo, job, attempts, fs, helper, cleaning, crashes, ghosts>>

\* sync_directory, whose failure is ignored.
SyncDirectory(p) ==
    /\ pc[p] = "syncdir"
    /\ \/ durable' = {output} /\ Goto(p, "reopen")
       \/ MayFail("dirsync") /\ UNCHANGED durable /\ Goto(p, "reopenUnsynced")
    /\ UNCHANGED <<todo, job, attempts, temp, synced, record, recorded, output,
                   intact, helper, cleaning, crashes, ghosts>>

\* The permissions are set and the archive reopened, or one of both fails;
\* the record is dropped either way.
Finish(p) ==
    /\ pc[p] \in {"reopen", "reopenUnsynced"}
    /\ record' = [record EXCEPT ![job[p]] = "absent"]
    /\ \/ promised' = IF pc[p] = "reopen" THEN promised \cup {job[p]} ELSE promised
       \/ MayFail("io") /\ UNCHANGED promised
    /\ job' = [job EXCEPT ![p] = 0]
    /\ Goto(p, "idle")
    /\ UNCHANGED <<todo, attempts, temp, synced, recorded, output, durable, intact,
                   helper, cleaning, crashes, renames, troubled>>

\* A step that fails.  The two values of one pattern are dropped in reverse
\* order: the record first.
Fail(p) ==
    /\ pc[p] \in {"record", "journal", "write", "sync"} /\ MayFail("io")
    /\ Goto(p, IF pc[p] = "record" THEN "dropTemp" ELSE "dropRecord")
    /\ Troubles(p)
    /\ UNCHANGED <<todo, job, attempts, fs, helper, cleaning, crashes, renames, promised>>

\* persist gives the temporary file back with its error: it is dropped first.
RenameFails(p) ==
    /\ pc[p] = "rename" /\ (MayFail("io") \/ ~Exists(job[p]))
    /\ temp' = [temp EXCEPT ![job[p]] = "absent"]
    /\ Goto(p, "dropRecord")
    /\ Troubles(p)
    /\ UNCHANGED <<todo, job, attempts, synced, record, recorded, output, durable,
                   intact, helper, cleaning, crashes, renames, promised>>

DropRecord(p) ==
    /\ pc[p] = "dropRecord"
    /\ record' = [record EXCEPT ![job[p]] = "absent"]
    /\ Goto(p, "dropTemp")
    /\ UNCHANGED <<todo, job, attempts, temp, synced, recorded, output, durable,
                   intact, helper, cleaning, crashes, ghosts>>

DropTemp(p) ==
    /\ pc[p] = "dropTemp"
    /\ temp' = [temp EXCEPT ![job[p]] = "absent"]
    /\ job' = [job EXCEPT ![p] = 0]
    /\ Goto(p, "idle")
    /\ UNCHANGED <<todo, attempts, synced, record, recorded, output, durable,
                   intact, helper, cleaning, crashes, ghosts>>

----------------------------------------------------------------------------
(* Crashes, and the helper that outlives its instance.                     *)

\* The instance ends or is killed; its helper sees the end of its input.
Die(p) ==
    /\ Running(p)
    /\ pc[p] # "idle" => crashes < MaxCrashes
    /\ crashes' = IF pc[p] = "idle" THEN crashes ELSE crashes + 1
    /\ Goto(p, "off")
    /\ job' = [job EXCEPT ![p] = 0]
    /\ todo' = [todo EXCEPT ![p] = {}]
    /\ helper' = [helper EXCEPT ![p] = {}]
    /\ cleaning' = cleaning \cup helper[p]
    /\ UNCHANGED <<attempts, fs, ghosts>>

\* Mutant: a record's deadline, which is past, is obeyed as soon as it is read.
HelperCleansEarly(i) ==
    /\ \E p \in Instances : i \in helper[p]
    /\ RecoverRecord(i)
    /\ helper' = [p \in Instances |-> helper[p] \ {i}]
    /\ UNCHANGED <<pc, todo, job, attempts, synced, recorded, output, durable,
                   intact, cleaning, crashes, ghosts>>

\* process_records, which cleans nothing before the end of its input.
HelperCleans(i) ==
    /\ i \in cleaning
    /\ RecoverRecord(i)
    /\ cleaning' = cleaning \ {i}
    /\ UNCHANGED <<pc, todo, job, attempts, synced, recorded, output, durable,
                   intact, helper, crashes, ghosts>>

\* What a power loss may leave of attempt i's files.
TempsLeft(i) ==
    IF temp[i] = "absent" THEN {"absent"}
    ELSE IF i \in synced THEN {"absent", temp[i]}
    ELSE IF temp[i] = "empty" THEN {"absent", "empty"}
    ELSE {"absent", "empty", "partial"}

RecordsLeft(i) ==
    IF record[i] = "absent" THEN {"absent"}
    ELSE IF i \in recorded THEN {"written"}
    ELSE {"absent", "empty", record[i]}

PowerLoss ==
    /\ crashes < MaxCrashes
    /\ crashes' = crashes + 1
    /\ pc' = [p \in Instances |-> "off"]
    /\ job' = [p \in Instances |-> 0]
    /\ todo' = [p \in Instances |-> {}]
    /\ helper' = [p \in Instances |-> {}]
    /\ cleaning' = {}
    /\ temp' \in {f \in [Attempts -> {"absent", "empty", "partial", "whole"}] :
                    \A i \in Attempts : f[i] \in TempsLeft(i)}
    /\ record' \in {f \in [Attempts -> {"absent", "empty", "written"}] :
                    \A i \in Attempts : f[i] \in RecordsLeft(i)}
    /\ recorded' = {i \in Attempts : record'[i] = "written"}
    /\ output' \in durable
    /\ durable' = {output'}
    /\ intact' \in IF output' = output THEN {intact /\ (output \in synced)}
                   ELSE {output' \in synced}
    /\ UNCHANGED <<attempts, synced, ghosts>>

----------------------------------------------------------------------------
SaveInit ==
    /\ pc = [p \in Instances |-> "off"]
    /\ todo = [p \in Instances |-> {}]
    /\ job = [p \in Instances |-> 0]
    /\ attempts = 0
    /\ temp = [i \in Attempts |-> "absent"]
    /\ synced = {0}
    /\ record = [i \in Attempts |-> "absent"]
    /\ recorded = {}
    /\ output = 0 /\ durable = {0} /\ intact = TRUE
    /\ helper = [p \in Instances |-> {}] /\ cleaning = {}
    /\ crashes = 0
    /\ renames = <<>> /\ promised = {} /\ troubled = {}

SaveStep(p) ==
    \/ CreateTemp(p) \/ CreateRecord(p) \/ Journal(p)
    \/ \E extent \in {"partial", "whole"} : Write(p, extent)
    \/ Sync(p) \/ Rename(p) \/ SyncDirectory(p) \/ Finish(p)
    \/ Fail(p) \/ RenameFails(p) \/ DropRecord(p) \/ DropTemp(p)

SaveNext ==
    \/ \E p \in Instances : Start(p) \/ Recover(p) \/ Ready(p) \/ SaveStep(p) \/ Die(p)
    \/ \E i \in Attempts : HelperCleans(i)
    \/ PowerLoss

SaveSpec == SaveInit /\ [][SaveNext]_saveVars

----------------------------------------------------------------------------
(* Properties.                                                             *)

\* Every variable has its type; not among the properties that
\* are checked.
SaveTypeOK ==
    /\ pc \in [Instances -> {"off", "recover", "idle", "record", "journal", "write",
                             "sync", "rename", "syncdir", "reopen", "reopenUnsynced",
                             "dropRecord", "dropTemp"}]
    /\ todo \in [Instances -> SUBSET Attempts]
    /\ job \in [Instances -> Versions] /\ attempts \in Versions
    /\ \A p \in Instances : job[p] = 0 <=> pc[p] \in {"off", "recover", "idle"}
    /\ temp \in [Attempts -> {"absent", "empty", "partial", "whole"}]
    /\ record \in [Attempts -> {"absent", "empty", "written"}]
    /\ synced \subseteq Versions /\ recorded \subseteq Attempts
    /\ output \in Versions /\ durable \subseteq Versions /\ intact \in BOOLEAN
    /\ helper \in [Instances -> SUBSET Attempts] /\ cleaning \subseteq Attempts
    /\ crashes \in 0..MaxCrashes
    /\ renames \in Seq(Attempts) /\ promised \subseteq Attempts
    /\ troubled \subseteq Attempts

\* Whatever fails, and wherever the program or the machine stops, the archive
\* file holds one whole version: the one before a save or the one it wrote.
OutputIntact == intact

\* The place of a version among those the archive file has held.
Age(i) == IF i = 0 THEN 0 ELSE CHOOSE k \in DOMAIN renames : renames[k] = i

\* A save that returned after its directory was synced is never undone: the
\* file holds it, or a version renamed over it later, even after a power loss.
SavedSurvives ==
    \A i \in promised, j \in durable \cup {output} : Age(i) <= Age(j)

\* What a save left beside an archive: a temporary file with data in it.
Leftovers == {i \in Attempts : temp[i] \notin {"absent", "empty"}}
Quiet == \E p \in Instances : pc[p] = "idle" /\ Alone(p)

\* When the only running instance has done its recovery and has no save in
\* progress, no partial save is left, wherever the program or the machine
\* stopped, but of attempts one of whose steps failed or that overlapped
\* another instance.
LeftoversRemoved == Quiet => Leftovers \subseteq troubled

\* Neither a launch's recovery nor a helper removes the temporary file of a
\* save that is still in progress while no second instance runs.
RecoverySparesLive ==
    \A p \in Instances :
        pc[p] \in {"write", "sync", "rename"} /\ temp[job[p]] = "absent"
            => job[p] \in troubled
=============================================================================
