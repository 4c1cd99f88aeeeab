----------------------------- MODULE FilesProofs ----------------------------
(***************************************************************************)
(* Proofs about the components that write files and remove them again:     *)
(* about SaveCommit, for any instances, saves, crashes and failing steps,  *)
(* and about Staging, for any tabs, names, directories and histories.      *)
(***************************************************************************)
EXTENDS SaveCommit, Staging, FiniteSetTheorems, SequenceTheorems, TLAPS

----------------------------------------------------------------------------
(* SaveCommit: what a save leaves of the archive file and beside it.       *)

\* An attempt is made by one instance and never again.
JobsOwn ==
    /\ \A p \in Instances : job[p] <= attempts
    /\ \A p, q \in Instances : job[p] = job[q] /\ job[p] # 0 => p = q

\* A helper knows of attempts of its own instance only, and what is left to
\* helpers without one belongs to nobody.
HelpersOwn ==
    /\ \A p \in Instances : \A i \in helper[p] :
          i <= attempts /\ \A q \in Instances : job[q] = i => p = q
    /\ \A i \in cleaning : i <= attempts /\ \A q \in Instances : job[q] # i

\* What is about to be renamed is whole and synced, and so is whatever the
\* archive file holds or may hold.
SyncedWhole ==
    /\ \A p \in Instances :
          /\ pc[p] \in {"sync", "rename"} => temp[job[p]] \in {"whole", "absent"}
          /\ pc[p] = "rename" => job[p] \in synced
    /\ output \in synced /\ durable \subseteq synced /\ output \in durable

\* Whoever saves beside another instance is known to.
TogetherTroubled ==
    \A p, q \in Instances : p # q /\ job[p] # 0 /\ Running(q) => job[p] \in troubled

\* The temporary file and the record of an attempt in progress, by its step.
StepsTold ==
    \A p \in Instances :
        /\ pc[p] \in {"record", "journal"} =>
              \/ temp[job[p]] = "empty"
              \/ temp[job[p]] = "absent" /\ job[p] \in troubled
        /\ pc[p] \in {"write", "sync", "rename"} /\ job[p] \notin troubled
              => record[job[p]] = "written" /\ job[p] \in recorded
        /\ pc[p] \in {"syncdir", "reopen", "reopenUnsynced"} => temp[job[p]] = "absent"
        /\ pc[p] \in {"dropRecord", "dropTemp"} => job[p] \in troubled

\* A partial file, unless it is excused, has a record that lasts; and if its
\* instance is gone every one that runs has still to read that record.
Charged ==
    \A i \in Attempts : temp[i] \in {"partial", "whole"} /\ i \notin troubled =>
        /\ record[i] = "written" /\ i \in recorded
        /\ \/ \E p \in Instances : job[p] = i
           \/ \A q \in Instances : Running(q) => pc[q] = "recover" /\ i \in todo[q]

\* The versions the archive file has held.
Held == {0} \cup {renames[k] : k \in 1..Len(renames)}

\* A version is renamed once, by the attempt that made it ...
RenamesOnce ==
    /\ \A k, l \in 1..Len(renames) : renames[k] = renames[l] => k = l
    /\ \A i \in Held : i <= attempts
    /\ \A p \in Instances : job[p] # 0 =>
          (job[p] \in Held <=> pc[p] \in {"syncdir", "reopen", "reopenUnsynced"})

\* ... and nothing else is ever in the archive file or reported as done.
OnlyHeld == durable \cup {output} \cup promised \subseteq Held

\* Of what was promised, or is about to be, nothing younger is lost.
InOrder ==
    /\ SavedSurvives
    /\ \A p \in Instances :
          /\ pc[p] \in {"syncdir", "reopen", "reopenUnsynced"} => Age(job[p]) <= Age(output)
          /\ pc[p] = "reopen" => \A j \in durable : Age(job[p]) <= Age(j)

\* The inductive invariant.
SaveInv ==
    /\ SaveTypeOK /\ JobsOwn /\ HelpersOwn /\ SyncedWhole /\ OutputIntact
    /\ TogetherTroubled /\ StepsTold /\ RecoverySparesLive /\ Charged
    /\ RenamesOnce /\ OnlyHeld /\ InOrder

----------------------------------------------------------------------------
\* Attempts are versions, and none of them is what was there before.
LEMMA AttemptsAreVersions ==
    Attempts \subseteq Versions /\ 0 \in Versions /\ 0 \notin Attempts
BY SaveAssumption DEF Attempts, Versions

\* An instance that saves has an attempt.
LEMMA ActiveJob ==
    ASSUME SaveTypeOK, NEW p \in Instances, pc[p] \notin {"off", "recover", "idle"}
    PROVE  job[p] \in Attempts /\ job[p] # 0
<1>1. job[p] \in Versions /\ job[p] # 0
    BY DEF SaveTypeOK
<1> QED
    BY <1>1, SaveAssumption DEF Attempts, Versions

\* What Journal does, without the ways in which it comes to it.
Journals(p) ==
    /\ pc[p] = "journal"
    /\ pc' = [pc EXCEPT ![p] = "write"]
    /\ record' = [record EXCEPT ![job[p]] = "written"]
    /\ recorded' \in {recorded, recorded \cup {job[p]}}
    /\ troubled' \in {troubled, troubled \cup {job[p]}}
    /\ job[p] \in recorded' \cup troubled'
    /\ helper' \in [Instances -> SUBSET Attempts]
    /\ helper'[p] \subseteq helper[p] \cup {job[p]}
    /\ \A q \in Instances \ {p} : helper'[q] = helper[q]
    /\ UNCHANGED <<todo, job, attempts, temp, synced, output, durable, intact,
                   cleaning, crashes, renames, promised>>

LEMMA JournalShape ==
    ASSUME SaveTypeOK, NEW p \in Instances, Journal(p)
    PROVE  Journals(p)
<1>1. pc[p] = "journal" /\ job[p] \in Attempts
    BY ActiveJob DEF Journal
<1>2. \E known \in SUBSET Attempts :
         helper' = [helper EXCEPT ![p] = known] /\ known \subseteq helper[p] \cup {job[p]}
    <2>1. CASE helper' = [helper EXCEPT ![p] = @ \cup {job[p]}]
        BY <1>1, <2>1 DEF SaveTypeOK
    <2>2. ASSUME NEW known \in SUBSET {job[p]}, helper' = [helper EXCEPT ![p] = known]
          PROVE  \E more \in SUBSET Attempts :
                    helper' = [helper EXCEPT ![p] = more] /\ more \subseteq helper[p] \cup {job[p]}
        BY <1>1, <2>2
    <2> QED
        BY <2>1, <2>2 DEF Journal
<1>3. /\ helper' \in [Instances -> SUBSET Attempts]
      /\ helper'[p] \subseteq helper[p] \cup {job[p]}
      /\ \A q \in Instances \ {p} : helper'[q] = helper[q]
    BY <1>2 DEF SaveTypeOK
<1>4. /\ recorded' \in {recorded, recorded \cup {job[p]}}
      /\ troubled' \in {troubled, troubled \cup {job[p]}}
      /\ job[p] \in recorded' \cup troubled'
    BY DEF Journal, Troubles
<1> QED
    BY <1>1, <1>3, <1>4 DEF Journals, Journal, Goto

\* Every step keeps the types.
LEMMA TypesKept ==
    SaveTypeOK /\ [SaveNext]_saveVars => SaveTypeOK'
<1> SUFFICES ASSUME SaveTypeOK, [SaveNext]_saveVars
             PROVE  SaveTypeOK'
    OBVIOUS
<1>1. ASSUME NEW p \in Instances, Start(p) PROVE SaveTypeOK'
    <2>1. \A q \in Instances : job[q] # 0 => job[q] \in Attempts
        BY ActiveJob DEF SaveTypeOK
    <2>2. troubled' \subseteq Attempts
        BY <1>1, <2>1 DEF Start, SaveTypeOK
    <2> QED
        BY <1>1, <2>2 DEF Start, Goto, fs, SaveTypeOK
<1>2. ASSUME NEW p \in Instances, Recover(p) PROVE SaveTypeOK'
    BY <1>2, AttemptsAreVersions DEF Recover, RecoverRecord, fs, ghosts, SaveTypeOK
<1>3. ASSUME NEW p \in Instances, Ready(p) PROVE SaveTypeOK'
    BY <1>3, AttemptsAreVersions DEF Ready, Goto, fs, ghosts, SaveTypeOK
<1>4. ASSUME NEW p \in Instances, CreateTemp(p) PROVE SaveTypeOK'
    BY <1>4, AttemptsAreVersions, SaveAssumption
    DEF CreateTemp, Goto, Alone, fs, ghosts, SaveTypeOK, Attempts, Versions
<1>5. ASSUME NEW p \in Instances, CreateRecord(p) PROVE SaveTypeOK'
    <2>1. job[p] \in Attempts /\ job[p] # 0
        BY <1>5, ActiveJob DEF CreateRecord
    <2> QED
        BY <1>5, <2>1, AttemptsAreVersions
        DEF CreateRecord, Goto, fs, ghosts, SaveTypeOK
<1>6. ASSUME NEW p \in Instances, Journal(p) PROVE SaveTypeOK'
    <2>1. Journals(p) /\ job[p] \in Attempts /\ job[p] # 0
        BY <1>6, JournalShape, ActiveJob
        DEF Journal
    <2> QED
        BY <2>1, AttemptsAreVersions
        DEF Journals, SaveTypeOK
<1>7. ASSUME NEW p \in Instances, NEW extent \in {"partial", "whole"}, Write(p, extent)
      PROVE  SaveTypeOK'
    <2>1. job[p] \in Attempts /\ job[p] # 0
        BY <1>7, ActiveJob DEF Write
    <2> QED
        BY <1>7, <2>1, AttemptsAreVersions
        DEF Write, Goto, Exists, fs, ghosts, SaveTypeOK
<1>8. ASSUME NEW p \in Instances, Sync(p) PROVE SaveTypeOK'
    <2>1. job[p] \in Attempts /\ job[p] # 0
        BY <1>8, ActiveJob DEF Sync
    <2> QED
        BY <1>8, <2>1, AttemptsAreVersions
        DEF Sync, Goto, fs, ghosts, SaveTypeOK
<1>9. ASSUME NEW p \in Instances, Rename(p) PROVE SaveTypeOK'
    <2>1. job[p] \in Attempts /\ job[p] # 0
        BY <1>9, ActiveJob DEF Rename
    <2> QED
        BY <1>9, <2>1, AttemptsAreVersions
        DEF Rename, Goto, Exists, fs, ghosts, SaveTypeOK
<1>10. ASSUME NEW p \in Instances, SyncDirectory(p) PROVE SaveTypeOK'
    <2>1. job[p] \in Attempts /\ job[p] # 0
        BY <1>10, ActiveJob DEF SyncDirectory
    <2> QED
        BY <1>10, <2>1, AttemptsAreVersions
        DEF SyncDirectory, Goto, MayFail, fs, ghosts, SaveTypeOK
<1>11. ASSUME NEW p \in Instances, Finish(p) PROVE SaveTypeOK'
    <2>1. job[p] \in Attempts /\ job[p] # 0
        BY <1>11, ActiveJob DEF Finish
    <2> QED
        BY <1>11, <2>1, AttemptsAreVersions
        DEF Finish, Goto, fs, ghosts, SaveTypeOK
<1>12. ASSUME NEW p \in Instances, Fail(p) PROVE SaveTypeOK'
    <2>1. job[p] \in Attempts /\ job[p] # 0
        BY <1>12, ActiveJob DEF Fail
    <2> QED
        BY <1>12, <2>1, AttemptsAreVersions
        DEF Fail, Goto, Troubles, fs, ghosts, SaveTypeOK
<1>13. ASSUME NEW p \in Instances, RenameFails(p) PROVE SaveTypeOK'
    <2>1. job[p] \in Attempts /\ job[p] # 0
        BY <1>13, ActiveJob DEF RenameFails
    <2> QED
        BY <1>13, <2>1, AttemptsAreVersions
        DEF RenameFails, Goto, Troubles, Exists, fs, ghosts, SaveTypeOK
<1>14. ASSUME NEW p \in Instances, DropRecord(p) PROVE SaveTypeOK'
    <2>1. job[p] \in Attempts /\ job[p] # 0
        BY <1>14, ActiveJob DEF DropRecord
    <2> QED
        BY <1>14, <2>1, AttemptsAreVersions
        DEF DropRecord, Goto, fs, ghosts, SaveTypeOK
<1>15. ASSUME NEW p \in Instances, DropTemp(p) PROVE SaveTypeOK'
    <2>1. job[p] \in Attempts /\ job[p] # 0
        BY <1>15, ActiveJob DEF DropTemp
    <2> QED
        BY <1>15, <2>1, AttemptsAreVersions
        DEF DropTemp, Goto, fs, ghosts, SaveTypeOK
<1>16. ASSUME NEW p \in Instances, Die(p) PROVE SaveTypeOK'
    <2>1. crashes' \in 0..MaxCrashes
        BY <1>16, SaveAssumption DEF Die, SaveTypeOK
    <2> QED
        BY <1>16, <2>1, AttemptsAreVersions DEF Die, Goto, fs, ghosts, SaveTypeOK
<1>17. ASSUME NEW i \in Attempts, HelperCleans(i) PROVE SaveTypeOK'
    BY <1>17, AttemptsAreVersions DEF HelperCleans, RecoverRecord, fs, ghosts,
                                      SaveTypeOK
<1>18. CASE PowerLoss
    <2>1. output' \in Versions /\ durable' \subseteq Versions
        BY <1>18 DEF PowerLoss, SaveTypeOK
    <2>2. intact' \in BOOLEAN
        <3>1. intact' = (intact /\ output \in synced) \/ intact' = (output' \in synced)
            BY <1>18 DEF PowerLoss
        <3>2. CASE intact' = (intact /\ output \in synced)
            BY <3>2, SMT
        <3>3. CASE intact' = (output' \in synced)
            BY <3>3, SMT
        <3> QED
            BY <3>1, <3>2, <3>3
    <2>3. temp' \in [Attempts -> {"absent", "empty", "partial", "whole"}]
        BY <1>18 DEF PowerLoss
    <2>4. record' \in [Attempts -> {"absent", "empty", "written"}] /\ recorded' \subseteq Attempts
        BY <1>18 DEF PowerLoss
    <2>5. crashes' \in 0..MaxCrashes
        BY <1>18, SaveAssumption DEF PowerLoss, SaveTypeOK
    <2> QED
        BY <1>18, <2>1, <2>2, <2>3, <2>4, <2>5, AttemptsAreVersions DEF PowerLoss, SaveTypeOK, ghosts
<1>19. CASE UNCHANGED saveVars
    BY <1>19, AttemptsAreVersions DEF saveVars, fs, ghosts, SaveTypeOK
<1> QED
    BY <1>1, <1>2, <1>3, <1>4, <1>5, <1>6, <1>7, <1>8, <1>9, <1>10, <1>11,
       <1>12, <1>13, <1>14, <1>15, <1>16, <1>17, <1>18, <1>19
    DEF SaveNext, SaveStep

\* Every step gives an attempt to one instance only.
LEMMA JobsKept ==
    SaveTypeOK /\ JobsOwn /\ [SaveNext]_saveVars => JobsOwn'
<1> SUFFICES ASSUME SaveTypeOK, JobsOwn, [SaveNext]_saveVars
             PROVE  JobsOwn'
    OBVIOUS
<1>1. ASSUME NEW p \in Instances, Start(p) PROVE JobsOwn'
    BY <1>1, SaveAssumption DEF Start, Goto, Alone, fs, ghosts, JobsOwn,
                                SaveTypeOK, Attempts, Versions
<1>2. ASSUME NEW p \in Instances, Recover(p) PROVE JobsOwn'
    BY <1>2, SaveAssumption DEF Recover, RecoverRecord, fs, ghosts, JobsOwn,
                                SaveTypeOK, Attempts, Versions
<1>3. ASSUME NEW p \in Instances, Ready(p) PROVE JobsOwn'
    BY <1>3, SaveAssumption DEF Ready, Goto, fs, ghosts, JobsOwn, SaveTypeOK,
                                Attempts, Versions
<1>4. ASSUME NEW p \in Instances, CreateTemp(p) PROVE JobsOwn'
    BY <1>4, SaveAssumption DEF CreateTemp, Goto, Alone, fs, ghosts, JobsOwn,
                                SaveTypeOK, Attempts, Versions
<1>5. ASSUME NEW p \in Instances, CreateRecord(p) PROVE JobsOwn'
    <2>1. job[p] \in Attempts /\ job[p] # 0
        BY <1>5, ActiveJob DEF CreateRecord
    <2> QED
        BY <1>5, <2>1, SaveAssumption
        DEF CreateRecord, Goto, fs, ghosts, JobsOwn, SaveTypeOK, Attempts, Versions
<1>6. ASSUME NEW p \in Instances, Journal(p) PROVE JobsOwn'
    <2>1. Journals(p) /\ job[p] \in Attempts /\ job[p] # 0
        BY <1>6, JournalShape, ActiveJob
        DEF Journal
    <2> QED
        BY <2>1, SaveAssumption DEF Journals, JobsOwn, SaveTypeOK, Attempts,
                                    Versions
<1>7. ASSUME NEW p \in Instances, NEW extent \in {"partial", "whole"}, Write(p, extent)
      PROVE  JobsOwn'
    <2>1. job[p] \in Attempts /\ job[p] # 0
        BY <1>7, ActiveJob DEF Write
    <2> QED
        BY <1>7, <2>1, SaveAssumption
        DEF Write, Goto, Exists, fs, ghosts, JobsOwn, SaveTypeOK, Attempts,
            Versions
<1>8. ASSUME NEW p \in Instances, Sync(p) PROVE JobsOwn'
    <2>1. job[p] \in Attempts /\ job[p] # 0
        BY <1>8, ActiveJob DEF Sync
    <2> QED
        BY <1>8, <2>1, SaveAssumption
        DEF Sync, Goto, fs, ghosts, JobsOwn, SaveTypeOK, Attempts, Versions
<1>9. ASSUME NEW p \in Instances, Rename(p) PROVE JobsOwn'
    <2>1. job[p] \in Attempts /\ job[p] # 0
        BY <1>9, ActiveJob DEF Rename
    <2> QED
        BY <1>9, <2>1, SaveAssumption
        DEF Rename, Goto, Exists, fs, ghosts, JobsOwn, SaveTypeOK, Attempts,
            Versions
<1>10. ASSUME NEW p \in Instances, SyncDirectory(p) PROVE JobsOwn'
    <2>1. job[p] \in Attempts /\ job[p] # 0
        BY <1>10, ActiveJob DEF SyncDirectory
    <2> QED
        BY <1>10, <2>1, SaveAssumption
        DEF SyncDirectory, Goto, MayFail, fs, ghosts, JobsOwn, SaveTypeOK,
            Attempts, Versions
<1>11. ASSUME NEW p \in Instances, Finish(p) PROVE JobsOwn'
    <2>1. job[p] \in Attempts /\ job[p] # 0
        BY <1>11, ActiveJob DEF Finish
    <2> QED
        BY <1>11, <2>1, SaveAssumption
        DEF Finish, Goto, fs, ghosts, JobsOwn, SaveTypeOK, Attempts, Versions
<1>12. ASSUME NEW p \in Instances, Fail(p) PROVE JobsOwn'
    <2>1. job[p] \in Attempts /\ job[p] # 0
        BY <1>12, ActiveJob DEF Fail
    <2> QED
        BY <1>12, <2>1, SaveAssumption
        DEF Fail, Goto, Troubles, fs, ghosts, JobsOwn, SaveTypeOK, Attempts,
            Versions
<1>13. ASSUME NEW p \in Instances, RenameFails(p) PROVE JobsOwn'
    <2>1. job[p] \in Attempts /\ job[p] # 0
        BY <1>13, ActiveJob DEF RenameFails
    <2> QED
        BY <1>13, <2>1, SaveAssumption
        DEF RenameFails, Goto, Troubles, Exists, fs, ghosts, JobsOwn, SaveTypeOK,
            Attempts, Versions
<1>14. ASSUME NEW p \in Instances, DropRecord(p) PROVE JobsOwn'
    <2>1. job[p] \in Attempts /\ job[p] # 0
        BY <1>14, ActiveJob DEF DropRecord
    <2> QED
        BY <1>14, <2>1, SaveAssumption
        DEF DropRecord, Goto, fs, ghosts, JobsOwn, SaveTypeOK, Attempts, Versions
<1>15. ASSUME NEW p \in Instances, DropTemp(p) PROVE JobsOwn'
    <2>1. job[p] \in Attempts /\ job[p] # 0
        BY <1>15, ActiveJob DEF DropTemp
    <2> QED
        BY <1>15, <2>1, SaveAssumption
        DEF DropTemp, Goto, fs, ghosts, JobsOwn, SaveTypeOK, Attempts, Versions
<1>16. ASSUME NEW p \in Instances, Die(p) PROVE JobsOwn'
    BY <1>16, SaveAssumption DEF Die, Goto, fs, ghosts, JobsOwn, SaveTypeOK,
                                 Attempts, Versions
<1>17. ASSUME NEW i \in Attempts, HelperCleans(i) PROVE JobsOwn'
    BY <1>17, SaveAssumption DEF HelperCleans, RecoverRecord, fs, ghosts,
                                 JobsOwn, SaveTypeOK, Attempts, Versions
<1>18. CASE PowerLoss
    BY <1>18, SaveAssumption DEF PowerLoss, TempsLeft, RecordsLeft, fs, ghosts,
                                 JobsOwn, SaveTypeOK, Attempts, Versions
<1>19. CASE UNCHANGED saveVars
    BY <1>19, SaveAssumption DEF saveVars, fs, ghosts, JobsOwn, SaveTypeOK, Attempts,
                                 Versions
<1> QED
    BY <1>1, <1>2, <1>3, <1>4, <1>5, <1>6, <1>7, <1>8, <1>9, <1>10, <1>11,
       <1>12, <1>13, <1>14, <1>15, <1>16, <1>17, <1>18, <1>19
    DEF SaveNext, SaveStep

\* Every step keeps the helpers to the attempts of their own instances.
LEMMA HelpersKept ==
    SaveTypeOK /\ JobsOwn /\ HelpersOwn /\ [SaveNext]_saveVars => HelpersOwn'
<1> SUFFICES ASSUME SaveTypeOK, JobsOwn, HelpersOwn, [SaveNext]_saveVars
             PROVE  HelpersOwn'
    OBVIOUS
<1>1. ASSUME NEW p \in Instances, Start(p) PROVE HelpersOwn'
    BY <1>1, AttemptsAreVersions DEF Start, Goto, Alone, fs, ghosts,
                                     HelpersOwn, JobsOwn, SaveTypeOK
<1>2. ASSUME NEW p \in Instances, Recover(p) PROVE HelpersOwn'
    BY <1>2, AttemptsAreVersions DEF Recover, RecoverRecord, fs, ghosts,
                                     HelpersOwn, JobsOwn, SaveTypeOK
<1>3. ASSUME NEW p \in Instances, Ready(p) PROVE HelpersOwn'
    BY <1>3, AttemptsAreVersions DEF Ready, Goto, fs, ghosts, HelpersOwn,
                                     JobsOwn, SaveTypeOK
<1>4. ASSUME NEW p \in Instances, CreateTemp(p) PROVE HelpersOwn'
    BY <1>4, AttemptsAreVersions, SaveAssumption
    DEF CreateTemp, Goto, Alone, fs, ghosts, HelpersOwn, JobsOwn, SaveTypeOK,
        Attempts, Versions
<1>5. ASSUME NEW p \in Instances, CreateRecord(p) PROVE HelpersOwn'
    <2>1. job[p] \in Attempts /\ job[p] # 0
        BY <1>5, ActiveJob DEF CreateRecord
    <2> QED
        BY <1>5, <2>1, AttemptsAreVersions
        DEF CreateRecord, Goto, fs, ghosts, HelpersOwn, JobsOwn, SaveTypeOK
<1>6. ASSUME NEW p \in Instances, Journal(p) PROVE HelpersOwn'
    <2>1. Journals(p) /\ job[p] \in Attempts /\ job[p] # 0
        BY <1>6, JournalShape, ActiveJob
        DEF Journal
    <2> QED
        BY <2>1, AttemptsAreVersions
        DEF Journals, HelpersOwn, JobsOwn, SaveTypeOK
<1>7. ASSUME NEW p \in Instances, NEW extent \in {"partial", "whole"}, Write(p, extent)
      PROVE  HelpersOwn'
    <2>1. job[p] \in Attempts /\ job[p] # 0
        BY <1>7, ActiveJob DEF Write
    <2> QED
        BY <1>7, <2>1, AttemptsAreVersions
        DEF Write, Goto, Exists, fs, ghosts, HelpersOwn, JobsOwn, SaveTypeOK
<1>8. ASSUME NEW p \in Instances, Sync(p) PROVE HelpersOwn'
    <2>1. job[p] \in Attempts /\ job[p] # 0
        BY <1>8, ActiveJob DEF Sync
    <2> QED
        BY <1>8, <2>1, AttemptsAreVersions
        DEF Sync, Goto, fs, ghosts, HelpersOwn, JobsOwn, SaveTypeOK
<1>9. ASSUME NEW p \in Instances, Rename(p) PROVE HelpersOwn'
    <2>1. job[p] \in Attempts /\ job[p] # 0
        BY <1>9, ActiveJob DEF Rename
    <2> QED
        BY <1>9, <2>1, AttemptsAreVersions
        DEF Rename, Goto, Exists, fs, ghosts, HelpersOwn, JobsOwn, SaveTypeOK
<1>10. ASSUME NEW p \in Instances, SyncDirectory(p) PROVE HelpersOwn'
    <2>1. job[p] \in Attempts /\ job[p] # 0
        BY <1>10, ActiveJob DEF SyncDirectory
    <2> QED
        BY <1>10, <2>1, AttemptsAreVersions
        DEF SyncDirectory, Goto, MayFail, fs, ghosts, HelpersOwn, JobsOwn,
            SaveTypeOK
<1>11. ASSUME NEW p \in Instances, Finish(p) PROVE HelpersOwn'
    <2>1. job[p] \in Attempts /\ job[p] # 0
        BY <1>11, ActiveJob DEF Finish
    <2> QED
        BY <1>11, <2>1, AttemptsAreVersions
        DEF Finish, Goto, fs, ghosts, HelpersOwn, JobsOwn, SaveTypeOK
<1>12. ASSUME NEW p \in Instances, Fail(p) PROVE HelpersOwn'
    <2>1. job[p] \in Attempts /\ job[p] # 0
        BY <1>12, ActiveJob DEF Fail
    <2> QED
        BY <1>12, <2>1, AttemptsAreVersions
        DEF Fail, Goto, Troubles, fs, ghosts, HelpersOwn, JobsOwn, SaveTypeOK
<1>13. ASSUME NEW p \in Instances, RenameFails(p) PROVE HelpersOwn'
    <2>1. job[p] \in Attempts /\ job[p] # 0
        BY <1>13, ActiveJob DEF RenameFails
    <2> QED
        BY <1>13, <2>1, AttemptsAreVersions
        DEF RenameFails, Goto, Troubles, Exists, fs, ghosts, HelpersOwn,
            JobsOwn, SaveTypeOK
<1>14. ASSUME NEW p \in Instances, DropRecord(p) PROVE HelpersOwn'
    <2>1. job[p] \in Attempts /\ job[p] # 0
        BY <1>14, ActiveJob DEF DropRecord
    <2> QED
        BY <1>14, <2>1, AttemptsAreVersions
        DEF DropRecord, Goto, fs, ghosts, HelpersOwn, JobsOwn, SaveTypeOK
<1>15. ASSUME NEW p \in Instances, DropTemp(p) PROVE HelpersOwn'
    <2>1. job[p] \in Attempts /\ job[p] # 0
        BY <1>15, ActiveJob DEF DropTemp
    <2> QED
        BY <1>15, <2>1, AttemptsAreVersions
        DEF DropTemp, Goto, fs, ghosts, HelpersOwn, JobsOwn, SaveTypeOK
<1>16. ASSUME NEW p \in Instances, Die(p) PROVE HelpersOwn'
    BY <1>16, AttemptsAreVersions DEF Die, Goto, fs, ghosts, HelpersOwn,
                                      JobsOwn, SaveTypeOK
<1>17. ASSUME NEW i \in Attempts, HelperCleans(i) PROVE HelpersOwn'
    BY <1>17, AttemptsAreVersions DEF HelperCleans, RecoverRecord, fs, ghosts,
                                      HelpersOwn, JobsOwn, SaveTypeOK
<1>18. CASE PowerLoss
    BY <1>18, AttemptsAreVersions DEF PowerLoss, TempsLeft, RecordsLeft, fs,
                                      ghosts, HelpersOwn, JobsOwn, SaveTypeOK
<1>19. CASE UNCHANGED saveVars
    BY <1>19, AttemptsAreVersions DEF saveVars, fs, ghosts, HelpersOwn, JobsOwn,
                                      SaveTypeOK
<1> QED
    BY <1>1, <1>2, <1>3, <1>4, <1>5, <1>6, <1>7, <1>8, <1>9, <1>10, <1>11,
       <1>12, <1>13, <1>14, <1>15, <1>16, <1>17, <1>18, <1>19
    DEF SaveNext, SaveStep

\* Every step keeps what is renamed, and what the file may hold, synced.
LEMMA SyncedKept ==
    SaveTypeOK /\ JobsOwn /\ SyncedWhole /\ [SaveNext]_saveVars => SyncedWhole'
<1> SUFFICES ASSUME SaveTypeOK, JobsOwn, SyncedWhole, [SaveNext]_saveVars
             PROVE  SyncedWhole'
    OBVIOUS
<1>1. ASSUME NEW p \in Instances, Start(p) PROVE SyncedWhole'
    BY <1>1 DEF Start, Goto, Alone, fs, ghosts, SyncedWhole, JobsOwn, SaveTypeOK
<1>2. ASSUME NEW p \in Instances, Recover(p) PROVE SyncedWhole'
    <2> PICK i \in todo[p] : RecoverRecord(i) /\ todo' = [todo EXCEPT ![p] = @ \ {i}]
        BY <1>2 DEF Recover
    <2> QED
        BY <1>2 DEF Recover, RecoverRecord, fs, ghosts, SyncedWhole, JobsOwn,
                  SaveTypeOK
<1>3. ASSUME NEW p \in Instances, Ready(p) PROVE SyncedWhole'
    BY <1>3 DEF Ready, Goto, fs, ghosts, SyncedWhole, JobsOwn, SaveTypeOK
<1>4. ASSUME NEW p \in Instances, CreateTemp(p) PROVE SyncedWhole'
    BY <1>4, SaveAssumption DEF CreateTemp, Goto, Alone, fs, ghosts,
                                SyncedWhole, JobsOwn, SaveTypeOK, Attempts,
                                Versions
<1>5. ASSUME NEW p \in Instances, CreateRecord(p) PROVE SyncedWhole'
    <2>1. job[p] \in Attempts /\ job[p] # 0
        BY <1>5, ActiveJob DEF CreateRecord
    <2> QED
        BY <1>5, <2>1 DEF CreateRecord, Goto, fs, ghosts, SyncedWhole, JobsOwn,
                          SaveTypeOK
<1>6. ASSUME NEW p \in Instances, Journal(p) PROVE SyncedWhole'
    <2>1. Journals(p) /\ job[p] \in Attempts /\ job[p] # 0
        BY <1>6, JournalShape, ActiveJob
        DEF Journal
    <2> QED
        BY <2>1 DEF Journals, SyncedWhole, JobsOwn, SaveTypeOK
<1>7. ASSUME NEW p \in Instances, NEW extent \in {"partial", "whole"}, Write(p, extent)
      PROVE  SyncedWhole'
    <2>1. job[p] \in Attempts /\ job[p] # 0
        BY <1>7, ActiveJob DEF Write
    <2> QED
        BY <1>7, <2>1 DEF Write, Goto, Exists, fs, ghosts, SyncedWhole,
                          JobsOwn, SaveTypeOK
<1>8. ASSUME NEW p \in Instances, Sync(p) PROVE SyncedWhole'
    <2>1. job[p] \in Attempts /\ job[p] # 0
        BY <1>8, ActiveJob DEF Sync
    <2> QED
        BY <1>8, <2>1 DEF Sync, Goto, fs, ghosts, SyncedWhole, JobsOwn, SaveTypeOK
<1>9. ASSUME NEW p \in Instances, Rename(p) PROVE SyncedWhole'
    <2>1. job[p] \in Attempts /\ job[p] # 0
        BY <1>9, ActiveJob DEF Rename
    <2> QED
        BY <1>9, <2>1 DEF Rename, Goto, Exists, fs, ghosts, SyncedWhole,
                          JobsOwn, SaveTypeOK
<1>10. ASSUME NEW p \in Instances, SyncDirectory(p) PROVE SyncedWhole'
    <2>1. CASE durable' = {output} /\ Goto(p, "reopen")
        BY <1>10, <2>1 DEF SyncDirectory, Goto, SyncedWhole, JobsOwn, SaveTypeOK
    <2>2. CASE UNCHANGED durable /\ Goto(p, "reopenUnsynced")
        BY <1>10, <2>2 DEF SyncDirectory, Goto, SyncedWhole, JobsOwn, SaveTypeOK
    <2> QED
        BY <1>10, <2>1, <2>2 DEF SyncDirectory
<1>11. ASSUME NEW p \in Instances, Finish(p) PROVE SyncedWhole'
    <2>1. job[p] \in Attempts /\ job[p] # 0
        BY <1>11, ActiveJob DEF Finish
    <2> QED
        BY <1>11, <2>1 DEF Finish, Goto, fs, ghosts, SyncedWhole, JobsOwn,
                           SaveTypeOK
<1>12. ASSUME NEW p \in Instances, Fail(p) PROVE SyncedWhole'
    <2>1. job[p] \in Attempts /\ job[p] # 0
        BY <1>12, ActiveJob DEF Fail
    <2> QED
        BY <1>12, <2>1 DEF Fail, Goto, Troubles, fs, ghosts, SyncedWhole,
                           JobsOwn, SaveTypeOK
<1>13. ASSUME NEW p \in Instances, RenameFails(p) PROVE SyncedWhole'
    <2>1. job[p] \in Attempts /\ job[p] # 0
        BY <1>13, ActiveJob DEF RenameFails
    <2> QED
        BY <1>13, <2>1 DEF RenameFails, Goto, Troubles, Exists, fs, ghosts,
                           SyncedWhole, JobsOwn, SaveTypeOK
<1>14. ASSUME NEW p \in Instances, DropRecord(p) PROVE SyncedWhole'
    <2>1. job[p] \in Attempts /\ job[p] # 0
        BY <1>14, ActiveJob DEF DropRecord
    <2> QED
        BY <1>14, <2>1 DEF DropRecord, Goto, fs, ghosts, SyncedWhole, JobsOwn,
                           SaveTypeOK
<1>15. ASSUME NEW p \in Instances, DropTemp(p) PROVE SyncedWhole'
    <2>1. job[p] \in Attempts /\ job[p] # 0
        BY <1>15, ActiveJob DEF DropTemp
    <2> QED
        BY <1>15, <2>1 DEF DropTemp, Goto, fs, ghosts, SyncedWhole, JobsOwn,
                           SaveTypeOK
<1>16. ASSUME NEW p \in Instances, Die(p) PROVE SyncedWhole'
    BY <1>16 DEF Die, Goto, fs, ghosts, SyncedWhole, JobsOwn, SaveTypeOK
<1>17. ASSUME NEW i \in Attempts, HelperCleans(i) PROVE SyncedWhole'
    BY <1>17 DEF HelperCleans, RecoverRecord, fs, ghosts, SyncedWhole, JobsOwn,
                 SaveTypeOK
<1>18. CASE PowerLoss
    BY <1>18 DEF PowerLoss, TempsLeft, RecordsLeft, fs, ghosts, SyncedWhole,
                 JobsOwn, SaveTypeOK
<1>19. CASE UNCHANGED saveVars
    BY <1>19 DEF saveVars, fs, ghosts, SyncedWhole, JobsOwn, SaveTypeOK
<1> QED
    BY <1>1, <1>2, <1>3, <1>4, <1>5, <1>6, <1>7, <1>8, <1>9, <1>10, <1>11,
       <1>12, <1>13, <1>14, <1>15, <1>16, <1>17, <1>18, <1>19
    DEF SaveNext, SaveStep

\* Every step keeps it known who saves beside another instance.
LEMMA TroubledKept ==
    SaveTypeOK /\ JobsOwn /\ TogetherTroubled /\ [SaveNext]_saveVars => TogetherTroubled'
<1> SUFFICES ASSUME SaveTypeOK, JobsOwn, TogetherTroubled, [SaveNext]_saveVars
             PROVE  TogetherTroubled'
    OBVIOUS
<1>1. ASSUME NEW p \in Instances, Start(p) PROVE TogetherTroubled'
    BY <1>1 DEF Start, Goto, Alone, fs, ghosts, TogetherTroubled, Running,
                JobsOwn, SaveTypeOK
<1>2. ASSUME NEW p \in Instances, Recover(p) PROVE TogetherTroubled'
    BY <1>2 DEF Recover, RecoverRecord, fs, ghosts, TogetherTroubled, Running,
                JobsOwn, SaveTypeOK
<1>3. ASSUME NEW p \in Instances, Ready(p) PROVE TogetherTroubled'
    BY <1>3 DEF Ready, Goto, fs, ghosts, TogetherTroubled, Running, JobsOwn,
                SaveTypeOK
<1>4. ASSUME NEW p \in Instances, CreateTemp(p) PROVE TogetherTroubled'
    BY <1>4 DEF CreateTemp, Goto, Alone, fs, ghosts, TogetherTroubled, Running,
                JobsOwn, SaveTypeOK
<1>5. ASSUME NEW p \in Instances, CreateRecord(p) PROVE TogetherTroubled'
    <2>1. job[p] \in Attempts /\ job[p] # 0
        BY <1>5, ActiveJob DEF CreateRecord
    <2> QED
        BY <1>5, <2>1 DEF CreateRecord, Goto, fs, ghosts, TogetherTroubled,
                          Running, JobsOwn, SaveTypeOK
<1>6. ASSUME NEW p \in Instances, Journal(p) PROVE TogetherTroubled'
    <2>1. Journals(p) /\ job[p] \in Attempts /\ job[p] # 0
        BY <1>6, JournalShape, ActiveJob
        DEF Journal
    <2> QED
        BY <2>1 DEF Journals, TogetherTroubled, Running, JobsOwn, SaveTypeOK
<1>7. ASSUME NEW p \in Instances, NEW extent \in {"partial", "whole"}, Write(p, extent)
      PROVE  TogetherTroubled'
    <2>1. job[p] \in Attempts /\ job[p] # 0
        BY <1>7, ActiveJob DEF Write
    <2> QED
        BY <1>7, <2>1 DEF Write, Goto, Exists, fs, ghosts, TogetherTroubled,
                          Running, JobsOwn, SaveTypeOK
<1>8. ASSUME NEW p \in Instances, Sync(p) PROVE TogetherTroubled'
    <2>1. job[p] \in Attempts /\ job[p] # 0
        BY <1>8, ActiveJob DEF Sync
    <2> QED
        BY <1>8, <2>1 DEF Sync, Goto, fs, ghosts, TogetherTroubled, Running,
                          JobsOwn, SaveTypeOK
<1>9. ASSUME NEW p \in Instances, Rename(p) PROVE TogetherTroubled'
    <2>1. job[p] \in Attempts /\ job[p] # 0
        BY <1>9, ActiveJob DEF Rename
    <2> QED
        BY <1>9, <2>1 DEF Rename, Goto, Exists, fs, ghosts, TogetherTroubled,
                          Running, JobsOwn, SaveTypeOK
<1>10. ASSUME NEW p \in Instances, SyncDirectory(p) PROVE TogetherTroubled'
    <2>1. job[p] \in Attempts /\ job[p] # 0
        BY <1>10, ActiveJob DEF SyncDirectory
    <2> QED
        BY <1>10, <2>1 DEF SyncDirectory, Goto, MayFail, fs, ghosts,
                           TogetherTroubled, Running, JobsOwn, SaveTypeOK
<1>11. ASSUME NEW p \in Instances, Finish(p) PROVE TogetherTroubled'
    <2>1. job[p] \in Attempts /\ job[p] # 0
        BY <1>11, ActiveJob DEF Finish
    <2> QED
        BY <1>11, <2>1 DEF Finish, Goto, fs, ghosts, TogetherTroubled, Running,
                           JobsOwn, SaveTypeOK
<1>12. ASSUME NEW p \in Instances, Fail(p) PROVE TogetherTroubled'
    <2>1. job[p] \in Attempts /\ job[p] # 0
        BY <1>12, ActiveJob DEF Fail
    <2> QED
        BY <1>12, <2>1 DEF Fail, Goto, Troubles, fs, ghosts, TogetherTroubled,
                           Running, JobsOwn, SaveTypeOK
<1>13. ASSUME NEW p \in Instances, RenameFails(p) PROVE TogetherTroubled'
    <2>1. job[p] \in Attempts /\ job[p] # 0
        BY <1>13, ActiveJob DEF RenameFails
    <2> QED
        BY <1>13, <2>1 DEF RenameFails, Goto, Troubles, Exists, fs, ghosts,
                           TogetherTroubled, Running, JobsOwn, SaveTypeOK
<1>14. ASSUME NEW p \in Instances, DropRecord(p) PROVE TogetherTroubled'
    <2>1. job[p] \in Attempts /\ job[p] # 0
        BY <1>14, ActiveJob DEF DropRecord
    <2> QED
        BY <1>14, <2>1 DEF DropRecord, Goto, fs, ghosts, TogetherTroubled,
                           Running, JobsOwn, SaveTypeOK
<1>15. ASSUME NEW p \in Instances, DropTemp(p) PROVE TogetherTroubled'
    <2>1. job[p] \in Attempts /\ job[p] # 0
        BY <1>15, ActiveJob DEF DropTemp
    <2> QED
        BY <1>15, <2>1 DEF DropTemp, Goto, fs, ghosts, TogetherTroubled,
                           Running, JobsOwn, SaveTypeOK
<1>16. ASSUME NEW p \in Instances, Die(p) PROVE TogetherTroubled'
    BY <1>16 DEF Die, Goto, fs, ghosts, TogetherTroubled, Running, JobsOwn,
                 SaveTypeOK
<1>17. ASSUME NEW i \in Attempts, HelperCleans(i) PROVE TogetherTroubled'
    BY <1>17 DEF HelperCleans, RecoverRecord, fs, ghosts, TogetherTroubled,
                 Running, JobsOwn, SaveTypeOK
<1>18. CASE PowerLoss
    BY <1>18 DEF PowerLoss, TempsLeft, RecordsLeft, fs, ghosts,
                 TogetherTroubled, Running, JobsOwn, SaveTypeOK
<1>19. CASE UNCHANGED saveVars
    BY <1>19 DEF saveVars, fs, ghosts, TogetherTroubled, Running, JobsOwn, SaveTypeOK
<1> QED
    BY <1>1, <1>2, <1>3, <1>4, <1>5, <1>6, <1>7, <1>8, <1>9, <1>10, <1>11,
       <1>12, <1>13, <1>14, <1>15, <1>16, <1>17, <1>18, <1>19
    DEF SaveNext, SaveStep

\* Every step keeps the temporary file of a save in progress, unless another
\* instance runs or the machine stops.
LEMMA SparedKept ==
    SaveTypeOK /\ JobsOwn /\ HelpersOwn /\ TogetherTroubled /\ StepsTold /\ RecoverySparesLive /\ [SaveNext]_saveVars => RecoverySparesLive'
<1> SUFFICES ASSUME SaveTypeOK, JobsOwn, HelpersOwn, TogetherTroubled, StepsTold, RecoverySparesLive, [SaveNext]_saveVars
             PROVE  RecoverySparesLive'
    OBVIOUS
<1>1. ASSUME NEW p \in Instances, Start(p) PROVE RecoverySparesLive'
    BY <1>1 DEF Start, Goto, Alone, fs, ghosts, RecoverySparesLive,
                TogetherTroubled, HelpersOwn, StepsTold, JobsOwn, SaveTypeOK,
                Running
<1>2. ASSUME NEW p \in Instances, Recover(p) PROVE RecoverySparesLive'
    BY <1>2 DEF Recover, RecoverRecord, fs, ghosts, RecoverySparesLive,
                TogetherTroubled, HelpersOwn, StepsTold, JobsOwn, SaveTypeOK,
                Running
<1>3. ASSUME NEW p \in Instances, Ready(p) PROVE RecoverySparesLive'
    BY <1>3 DEF Ready, Goto, fs, ghosts, RecoverySparesLive, TogetherTroubled,
                HelpersOwn, StepsTold, JobsOwn, SaveTypeOK, Running
<1>4. ASSUME NEW p \in Instances, CreateTemp(p) PROVE RecoverySparesLive'
    BY <1>4 DEF CreateTemp, Goto, Alone, fs, ghosts, RecoverySparesLive,
                TogetherTroubled, HelpersOwn, StepsTold, JobsOwn, SaveTypeOK,
                Running
<1>5. ASSUME NEW p \in Instances, CreateRecord(p) PROVE RecoverySparesLive'
    <2>1. job[p] \in Attempts /\ job[p] # 0
        BY <1>5, ActiveJob DEF CreateRecord
    <2> QED
        BY <1>5, <2>1 DEF CreateRecord, Goto, fs, ghosts, RecoverySparesLive,
                          TogetherTroubled, HelpersOwn, StepsTold, JobsOwn,
                          SaveTypeOK, Running
<1>6. ASSUME NEW p \in Instances, Journal(p) PROVE RecoverySparesLive'
    <2>1. Journals(p) /\ job[p] \in Attempts /\ job[p] # 0
        BY <1>6, JournalShape, ActiveJob
        DEF Journal
    <2> QED
        BY <2>1 DEF Journals, RecoverySparesLive, TogetherTroubled, HelpersOwn,
                    StepsTold, JobsOwn, SaveTypeOK, Running
<1>7. ASSUME NEW p \in Instances, NEW extent \in {"partial", "whole"}, Write(p, extent)
      PROVE  RecoverySparesLive'
    <2>1. job[p] \in Attempts /\ job[p] # 0
        BY <1>7, ActiveJob DEF Write
    <2> QED
        BY <1>7, <2>1 DEF Write, Goto, Exists, fs, ghosts, RecoverySparesLive,
                          TogetherTroubled, HelpersOwn, StepsTold, JobsOwn,
                          SaveTypeOK, Running
<1>8. ASSUME NEW p \in Instances, Sync(p) PROVE RecoverySparesLive'
    <2>1. job[p] \in Attempts /\ job[p] # 0
        BY <1>8, ActiveJob DEF Sync
    <2> QED
        BY <1>8, <2>1 DEF Sync, Goto, fs, ghosts, RecoverySparesLive,
                          TogetherTroubled, HelpersOwn, StepsTold, JobsOwn,
                          SaveTypeOK, Running
<1>9. ASSUME NEW p \in Instances, Rename(p) PROVE RecoverySparesLive'
    <2>1. job[p] \in Attempts /\ job[p] # 0
        BY <1>9, ActiveJob DEF Rename
    <2> QED
        BY <1>9, <2>1 DEF Rename, Goto, Exists, fs, ghosts, RecoverySparesLive,
                          TogetherTroubled, HelpersOwn, StepsTold, JobsOwn,
                          SaveTypeOK, Running
<1>10. ASSUME NEW p \in Instances, SyncDirectory(p) PROVE RecoverySparesLive'
    <2>1. job[p] \in Attempts /\ job[p] # 0
        BY <1>10, ActiveJob DEF SyncDirectory
    <2> QED
        BY <1>10, <2>1 DEF SyncDirectory, Goto, MayFail, fs, ghosts,
                           RecoverySparesLive, TogetherTroubled, HelpersOwn,
                           StepsTold, JobsOwn, SaveTypeOK, Running
<1>11. ASSUME NEW p \in Instances, Finish(p) PROVE RecoverySparesLive'
    <2>1. job[p] \in Attempts /\ job[p] # 0
        BY <1>11, ActiveJob DEF Finish
    <2> QED
        BY <1>11, <2>1 DEF Finish, Goto, fs, ghosts, RecoverySparesLive,
                           TogetherTroubled, HelpersOwn, StepsTold, JobsOwn,
                           SaveTypeOK, Running
<1>12. ASSUME NEW p \in Instances, Fail(p) PROVE RecoverySparesLive'
    <2>1. job[p] \in Attempts /\ job[p] # 0
        BY <1>12, ActiveJob DEF Fail
    <2> QED
        BY <1>12, <2>1 DEF Fail, Goto, Troubles, fs, ghosts,
                           RecoverySparesLive, TogetherTroubled, HelpersOwn,
                           StepsTold, JobsOwn, SaveTypeOK, Running
<1>13. ASSUME NEW p \in Instances, RenameFails(p) PROVE RecoverySparesLive'
    <2>1. job[p] \in Attempts /\ job[p] # 0
        BY <1>13, ActiveJob DEF RenameFails
    <2> QED
        BY <1>13, <2>1 DEF RenameFails, Goto, Troubles, Exists, fs, ghosts,
                           RecoverySparesLive, TogetherTroubled, HelpersOwn,
                           StepsTold, JobsOwn, SaveTypeOK, Running
<1>14. ASSUME NEW p \in Instances, DropRecord(p) PROVE RecoverySparesLive'
    <2>1. job[p] \in Attempts /\ job[p] # 0
        BY <1>14, ActiveJob DEF DropRecord
    <2> QED
        BY <1>14, <2>1 DEF DropRecord, Goto, fs, ghosts, RecoverySparesLive,
                           TogetherTroubled, HelpersOwn, StepsTold, JobsOwn,
                           SaveTypeOK, Running
<1>15. ASSUME NEW p \in Instances, DropTemp(p) PROVE RecoverySparesLive'
    <2>1. job[p] \in Attempts /\ job[p] # 0
        BY <1>15, ActiveJob DEF DropTemp
    <2> QED
        BY <1>15, <2>1 DEF DropTemp, Goto, fs, ghosts, RecoverySparesLive,
                           TogetherTroubled, HelpersOwn, StepsTold, JobsOwn,
                           SaveTypeOK, Running
<1>16. ASSUME NEW p \in Instances, Die(p) PROVE RecoverySparesLive'
    BY <1>16 DEF Die, Goto, fs, ghosts, RecoverySparesLive, TogetherTroubled,
                 HelpersOwn, StepsTold, JobsOwn, SaveTypeOK, Running
<1>17. ASSUME NEW i \in Attempts, HelperCleans(i) PROVE RecoverySparesLive'
    BY <1>17 DEF HelperCleans, RecoverRecord, fs, ghosts, RecoverySparesLive,
                 TogetherTroubled, HelpersOwn, StepsTold, JobsOwn, SaveTypeOK,
                 Running
<1>18. CASE PowerLoss
    BY <1>18 DEF PowerLoss, TempsLeft, RecordsLeft, fs, ghosts,
                 RecoverySparesLive, TogetherTroubled, HelpersOwn, StepsTold,
                 JobsOwn, SaveTypeOK, Running
<1>19. CASE UNCHANGED saveVars
    BY <1>19 DEF saveVars, fs, ghosts, RecoverySparesLive, TogetherTroubled,
                 HelpersOwn, StepsTold, JobsOwn, SaveTypeOK, Running
<1> QED
    BY <1>1, <1>2, <1>3, <1>4, <1>5, <1>6, <1>7, <1>8, <1>9, <1>10, <1>11,
       <1>12, <1>13, <1>14, <1>15, <1>16, <1>17, <1>18, <1>19
    DEF SaveNext, SaveStep

\* Every step keeps what its step tells about the files of an attempt.
LEMMA StepsKept ==
    SaveTypeOK /\ JobsOwn /\ HelpersOwn /\ TogetherTroubled /\ StepsTold /\ [SaveNext]_saveVars => StepsTold'
<1> SUFFICES ASSUME SaveTypeOK, JobsOwn, HelpersOwn, TogetherTroubled, StepsTold, [SaveNext]_saveVars
             PROVE  StepsTold'
    OBVIOUS
<1>1. ASSUME NEW p \in Instances, Start(p) PROVE StepsTold'
    BY <1>1 DEF Start, Goto, Alone, fs, ghosts, StepsTold, TogetherTroubled,
                HelpersOwn, Running, JobsOwn, SaveTypeOK
<1>2. ASSUME NEW p \in Instances, Recover(p) PROVE StepsTold'
    BY <1>2 DEF Recover, RecoverRecord, fs, ghosts, StepsTold,
                TogetherTroubled, HelpersOwn, Running, JobsOwn, SaveTypeOK
<1>3. ASSUME NEW p \in Instances, Ready(p) PROVE StepsTold'
    BY <1>3 DEF Ready, Goto, fs, ghosts, StepsTold, TogetherTroubled,
                HelpersOwn, Running, JobsOwn, SaveTypeOK
<1>4. ASSUME NEW p \in Instances, CreateTemp(p) PROVE StepsTold'
    BY <1>4, SaveAssumption DEF CreateTemp, Goto, Alone, fs, ghosts, StepsTold,
                                TogetherTroubled, HelpersOwn, Running, JobsOwn,
                                SaveTypeOK, Attempts, Versions
<1>5. ASSUME NEW p \in Instances, CreateRecord(p) PROVE StepsTold'
    <2>1. job[p] \in Attempts /\ job[p] # 0
        BY <1>5, ActiveJob DEF CreateRecord
    <2> QED
        BY <1>5, <2>1 DEF CreateRecord, Goto, fs, ghosts, StepsTold,
                          TogetherTroubled, HelpersOwn, Running, JobsOwn,
                          SaveTypeOK
<1>6. ASSUME NEW p \in Instances, Journal(p) PROVE StepsTold'
    <2>1. Journals(p) /\ job[p] \in Attempts /\ job[p] # 0
        BY <1>6, JournalShape, ActiveJob
        DEF Journal
    <2> QED
        BY <2>1 DEF Journals, StepsTold, TogetherTroubled, HelpersOwn, Running,
                    JobsOwn, SaveTypeOK
<1>7. ASSUME NEW p \in Instances, NEW extent \in {"partial", "whole"}, Write(p, extent)
      PROVE  StepsTold'
    <2>1. job[p] \in Attempts /\ job[p] # 0
        BY <1>7, ActiveJob DEF Write
    <2> QED
        BY <1>7, <2>1 DEF Write, Goto, Exists, fs, ghosts, StepsTold,
                          TogetherTroubled, HelpersOwn, Running, JobsOwn,
                          SaveTypeOK
<1>8. ASSUME NEW p \in Instances, Sync(p) PROVE StepsTold'
    <2>1. job[p] \in Attempts /\ job[p] # 0
        BY <1>8, ActiveJob DEF Sync
    <2> QED
        BY <1>8, <2>1 DEF Sync, Goto, fs, ghosts, StepsTold, TogetherTroubled,
                          HelpersOwn, Running, JobsOwn, SaveTypeOK
<1>9. ASSUME NEW p \in Instances, Rename(p) PROVE StepsTold'
    <2>1. job[p] \in Attempts /\ job[p] # 0
        BY <1>9, ActiveJob DEF Rename
    <2> QED
        BY <1>9, <2>1 DEF Rename, Goto, Exists, fs, ghosts, StepsTold,
                          TogetherTroubled, HelpersOwn, Running, JobsOwn,
                          SaveTypeOK
<1>10. ASSUME NEW p \in Instances, SyncDirectory(p) PROVE StepsTold'
    <2>1. job[p] \in Attempts /\ job[p] # 0
        BY <1>10, ActiveJob DEF SyncDirectory
    <2> QED
        BY <1>10, <2>1 DEF SyncDirectory, Goto, MayFail, fs, ghosts, StepsTold,
                           TogetherTroubled, HelpersOwn, Running, JobsOwn,
                           SaveTypeOK
<1>11. ASSUME NEW p \in Instances, Finish(p) PROVE StepsTold'
    <2>1. job[p] \in Attempts /\ job[p] # 0
        BY <1>11, ActiveJob DEF Finish
    <2> QED
        BY <1>11, <2>1 DEF Finish, Goto, fs, ghosts, StepsTold,
                           TogetherTroubled, HelpersOwn, Running, JobsOwn,
                           SaveTypeOK
<1>12. ASSUME NEW p \in Instances, Fail(p) PROVE StepsTold'
    <2>1. job[p] \in Attempts /\ job[p] # 0
        BY <1>12, ActiveJob DEF Fail
    <2> QED
        BY <1>12, <2>1 DEF Fail, Goto, Troubles, fs, ghosts, StepsTold,
                           TogetherTroubled, HelpersOwn, Running, JobsOwn,
                           SaveTypeOK
<1>13. ASSUME NEW p \in Instances, RenameFails(p) PROVE StepsTold'
    <2>1. job[p] \in Attempts /\ job[p] # 0
        BY <1>13, ActiveJob DEF RenameFails
    <2> QED
        BY <1>13, <2>1 DEF RenameFails, Goto, Troubles, Exists, fs, ghosts,
                           StepsTold, TogetherTroubled, HelpersOwn, Running,
                           JobsOwn, SaveTypeOK
<1>14. ASSUME NEW p \in Instances, DropRecord(p) PROVE StepsTold'
    <2>1. job[p] \in Attempts /\ job[p] # 0
        BY <1>14, ActiveJob DEF DropRecord
    <2> QED
        BY <1>14, <2>1 DEF DropRecord, Goto, fs, ghosts, StepsTold,
                           TogetherTroubled, HelpersOwn, Running, JobsOwn,
                           SaveTypeOK
<1>15. ASSUME NEW p \in Instances, DropTemp(p) PROVE StepsTold'
    <2>1. job[p] \in Attempts /\ job[p] # 0
        BY <1>15, ActiveJob DEF DropTemp
    <2> QED
        BY <1>15, <2>1 DEF DropTemp, Goto, fs, ghosts, StepsTold,
                           TogetherTroubled, HelpersOwn, Running, JobsOwn,
                           SaveTypeOK
<1>16. ASSUME NEW p \in Instances, Die(p) PROVE StepsTold'
    BY <1>16 DEF Die, Goto, fs, ghosts, StepsTold, TogetherTroubled,
                 HelpersOwn, Running, JobsOwn, SaveTypeOK
<1>17. ASSUME NEW i \in Attempts, HelperCleans(i) PROVE StepsTold'
    BY <1>17 DEF HelperCleans, RecoverRecord, fs, ghosts, StepsTold,
                 TogetherTroubled, HelpersOwn, Running, JobsOwn, SaveTypeOK
<1>18. CASE PowerLoss
    BY <1>18 DEF PowerLoss, TempsLeft, RecordsLeft, fs, ghosts, StepsTold,
                 TogetherTroubled, HelpersOwn, Running, JobsOwn, SaveTypeOK
<1>19. CASE UNCHANGED saveVars
    BY <1>19 DEF saveVars, fs, ghosts, StepsTold, TogetherTroubled, HelpersOwn,
                 Running, JobsOwn, SaveTypeOK
<1> QED
    BY <1>1, <1>2, <1>3, <1>4, <1>5, <1>6, <1>7, <1>8, <1>9, <1>10, <1>11,
       <1>12, <1>13, <1>14, <1>15, <1>16, <1>17, <1>18, <1>19
    DEF SaveNext, SaveStep

\* Every step keeps a record for a partial file that somebody has still to read.
LEMMA ChargedKept ==
    SaveTypeOK /\ JobsOwn /\ HelpersOwn /\ TogetherTroubled /\ StepsTold /\ Charged /\ [SaveNext]_saveVars => Charged'
<1> SUFFICES ASSUME SaveTypeOK, JobsOwn, HelpersOwn, TogetherTroubled, StepsTold, Charged, [SaveNext]_saveVars
             PROVE  Charged'
    OBVIOUS
<1>1. ASSUME NEW p \in Instances, Start(p) PROVE Charged'
    BY <1>1 DEF Start, Goto, Alone, fs, ghosts, Charged, StepsTold,
                TogetherTroubled, HelpersOwn, Running, JobsOwn, SaveTypeOK
<1>2. ASSUME NEW p \in Instances, Recover(p) PROVE Charged'
    <2> PICK i \in todo[p] : RecoverRecord(i) /\ todo' = [todo EXCEPT ![p] = @ \ {i}]
        BY <1>2 DEF Recover
    <2> QED
        BY <1>2 DEF Recover, RecoverRecord, fs, ghosts, Charged, StepsTold,
                  TogetherTroubled, HelpersOwn, Running, JobsOwn, SaveTypeOK
<1>3. ASSUME NEW p \in Instances, Ready(p) PROVE Charged'
    BY <1>3 DEF Ready, Goto, fs, ghosts, Charged, StepsTold, TogetherTroubled,
                HelpersOwn, Running, JobsOwn, SaveTypeOK
<1>4. ASSUME NEW p \in Instances, CreateTemp(p) PROVE Charged'
    <2>1. \A i \in Attempts : i # 0
        BY AttemptsAreVersions
    <2>2. job'[p] = attempts' /\ \A q \in Instances \ {p} : job'[q] = job[q]
        BY <1>4 DEF CreateTemp, SaveTypeOK
    <2>3. job[p] = 0 /\ pc[p] = "idle"
        BY <1>4 DEF CreateTemp, SaveTypeOK
    <2>4. temp'[attempts'] \in {"empty", temp[attempts']}
          /\ \A i \in Attempts : i # attempts' => temp'[i] = temp[i]
        BY <1>4 DEF CreateTemp, SaveTypeOK
    <2>5. \A i \in Attempts : i \notin troubled' => i \notin troubled
        BY <1>4 DEF CreateTemp
    <2>6. UNCHANGED <<record, recorded, todo>>
        BY <1>4 DEF CreateTemp
    <2>7. \A q \in Instances \ {p} : pc'[q] = pc[q]
        BY <1>4 DEF CreateTemp, Goto, SaveTypeOK
    <2>8. ASSUME NEW i \in Attempts, temp'[i] \in {"partial", "whole"}, i \notin troubled'
          PROVE  i # attempts'
        BY <1>4, <2>8 DEF CreateTemp, SaveTypeOK
    <2> QED
        BY <2>1, <2>2, <2>3, <2>4, <2>5, <2>6, <2>7, <2>8 DEF Charged, Running
<1>5. ASSUME NEW p \in Instances, CreateRecord(p) PROVE Charged'
    <2>1. job[p] \in Attempts /\ job[p] # 0
        BY <1>5, ActiveJob DEF CreateRecord
    <2> QED
        BY <1>5, <2>1 DEF CreateRecord, Goto, fs, ghosts, Charged, StepsTold,
                          TogetherTroubled, HelpersOwn, Running, JobsOwn,
                          SaveTypeOK
<1>6. ASSUME NEW p \in Instances, Journal(p) PROVE Charged'
    <2>1. Journals(p) /\ job[p] \in Attempts /\ job[p] # 0
        BY <1>6, JournalShape, ActiveJob
        DEF Journal
    <2> QED
        BY <2>1 DEF Journals, Charged, StepsTold, TogetherTroubled, HelpersOwn,
                    Running, JobsOwn, SaveTypeOK
<1>7. ASSUME NEW p \in Instances, NEW extent \in {"partial", "whole"}, Write(p, extent)
      PROVE  Charged'
    <2>1. job[p] \in Attempts /\ job[p] # 0
        BY <1>7, ActiveJob DEF Write
    <2> QED
        BY <1>7, <2>1 DEF Write, Goto, Exists, fs, ghosts, Charged, StepsTold,
                          TogetherTroubled, HelpersOwn, Running, JobsOwn,
                          SaveTypeOK
<1>8. ASSUME NEW p \in Instances, Sync(p) PROVE Charged'
    <2>1. job[p] \in Attempts /\ job[p] # 0
        BY <1>8, ActiveJob DEF Sync
    <2> QED
        BY <1>8, <2>1 DEF Sync, Goto, fs, ghosts, Charged, StepsTold,
                          TogetherTroubled, HelpersOwn, Running, JobsOwn,
                          SaveTypeOK
<1>9. ASSUME NEW p \in Instances, Rename(p) PROVE Charged'
    <2>1. job[p] \in Attempts /\ job[p] # 0
        BY <1>9, ActiveJob DEF Rename
    <2> QED
        BY <1>9, <2>1 DEF Rename, Goto, Exists, fs, ghosts, Charged, StepsTold,
                          TogetherTroubled, HelpersOwn, Running, JobsOwn,
                          SaveTypeOK
<1>10. ASSUME NEW p \in Instances, SyncDirectory(p) PROVE Charged'
    <2>1. job[p] \in Attempts /\ job[p] # 0
        BY <1>10, ActiveJob DEF SyncDirectory
    <2> QED
        BY <1>10, <2>1 DEF SyncDirectory, Goto, MayFail, fs, ghosts, Charged,
                           StepsTold, TogetherTroubled, HelpersOwn, Running,
                           JobsOwn, SaveTypeOK
<1>11. ASSUME NEW p \in Instances, Finish(p) PROVE Charged'
    <2>1. job[p] \in Attempts /\ job[p] # 0
        BY <1>11, ActiveJob DEF Finish
    <2> QED
        BY <1>11, <2>1 DEF Finish, Goto, fs, ghosts, Charged, StepsTold,
                           TogetherTroubled, HelpersOwn, Running, JobsOwn,
                           SaveTypeOK
<1>12. ASSUME NEW p \in Instances, Fail(p) PROVE Charged'
    <2>1. job[p] \in Attempts /\ job[p] # 0
        BY <1>12, ActiveJob DEF Fail
    <2> QED
        BY <1>12, <2>1 DEF Fail, Goto, Troubles, fs, ghosts, Charged,
                           StepsTold, TogetherTroubled, HelpersOwn, Running,
                           JobsOwn, SaveTypeOK
<1>13. ASSUME NEW p \in Instances, RenameFails(p) PROVE Charged'
    <2>1. job[p] \in Attempts /\ job[p] # 0
        BY <1>13, ActiveJob DEF RenameFails
    <2> QED
        BY <1>13, <2>1 DEF RenameFails, Goto, Troubles, Exists, fs, ghosts,
                           Charged, StepsTold, TogetherTroubled, HelpersOwn,
                           Running, JobsOwn, SaveTypeOK
<1>14. ASSUME NEW p \in Instances, DropRecord(p) PROVE Charged'
    <2>1. job[p] \in Attempts /\ job[p] # 0
        BY <1>14, ActiveJob DEF DropRecord
    <2> QED
        BY <1>14, <2>1 DEF DropRecord, Goto, fs, ghosts, Charged, StepsTold,
                           TogetherTroubled, HelpersOwn, Running, JobsOwn,
                           SaveTypeOK
<1>15. ASSUME NEW p \in Instances, DropTemp(p) PROVE Charged'
    <2>1. job[p] \in Attempts /\ job[p] # 0
        BY <1>15, ActiveJob DEF DropTemp
    <2> QED
        BY <1>15, <2>1 DEF DropTemp, Goto, fs, ghosts, Charged, StepsTold,
                           TogetherTroubled, HelpersOwn, Running, JobsOwn,
                           SaveTypeOK
<1>16. ASSUME NEW p \in Instances, Die(p) PROVE Charged'
    BY <1>16 DEF Die, Goto, fs, ghosts, Charged, StepsTold, TogetherTroubled,
                 HelpersOwn, Running, JobsOwn, SaveTypeOK
<1>17. ASSUME NEW i \in Attempts, HelperCleans(i) PROVE Charged'
    BY <1>17 DEF HelperCleans, RecoverRecord, fs, ghosts, Charged, StepsTold,
                 TogetherTroubled, HelpersOwn, Running, JobsOwn, SaveTypeOK
<1>18. CASE PowerLoss
    BY <1>18 DEF PowerLoss, TempsLeft, RecordsLeft, fs, ghosts, Charged,
                 StepsTold, TogetherTroubled, HelpersOwn, Running, JobsOwn,
                 SaveTypeOK
<1>19. CASE UNCHANGED saveVars
    BY <1>19 DEF saveVars, fs, ghosts, Charged, StepsTold, TogetherTroubled,
                 HelpersOwn, Running, JobsOwn, SaveTypeOK
<1> QED
    BY <1>1, <1>2, <1>3, <1>4, <1>5, <1>6, <1>7, <1>8, <1>9, <1>10, <1>11,
       <1>12, <1>13, <1>14, <1>15, <1>16, <1>17, <1>18, <1>19
    DEF SaveNext, SaveStep

----------------------------------------------------------------------------
(* The order of the renames.                                               *)

\* In a sequence without repetitions an element names its place.
LEMMA PlaceIs ==
    ASSUME NEW s \in Seq(Attempts), NEW k \in 1..Len(s),
           \A l, m \in 1..Len(s) : s[l] = s[m] => l = m
    PROVE  (CHOOSE l \in DOMAIN s : s[l] = s[k]) = k
<1>1. DOMAIN s = 1..Len(s)
    OBVIOUS
<1>2. \A l \in DOMAIN s : s[l] = s[k] => l = k
    BY <1>1
<1> QED
    BY <1>1, <1>2

\* A version that the file has held has an age; one that was renamed is
\* as old as its place in the order says.
LEMMA AgeOfHeld ==
    ASSUME SaveTypeOK, RenamesOnce
    PROVE  /\ \A k \in 1..Len(renames) : Age(renames[k]) = k
           /\ \A i \in Held : Age(i) \in 0..Len(renames)
<1>1. Len(renames) \in Nat /\ \A k \in 1..Len(renames) : renames[k] # 0
    BY AttemptsAreVersions DEF SaveTypeOK
<1>2. ASSUME NEW k \in 1..Len(renames) PROVE Age(renames[k]) = k
    BY <1>1, PlaceIs DEF SaveTypeOK, RenamesOnce, Age
<1>3. Age(0) = 0
    BY DEF Age
<1> QED
    BY <1>1, <1>2, <1>3 DEF Held

\* Where nothing is renamed the order stays as it is.
LEMMA OrderStays ==
    ASSUME renames' = renames
    PROVE  Held' = Held /\ \A i : Age(i)' = Age(i)
BY DEF Held, Age

\* A rename adds the youngest version.
LEMMA RenameAges ==
    ASSUME SaveTypeOK, SaveTypeOK', RenamesOnce, NEW p \in Instances, Rename(p)
    PROVE  /\ Held' = Held \cup {job[p]}
           /\ job[p] \notin Held
           /\ \A k, l \in 1..Len(renames') : renames'[k] = renames'[l] => k = l
           /\ \A i \in Held : Age(i)' = Age(i) /\ Age(i) \in 0..Len(renames)
           /\ Age(job[p])' = Len(renames) + 1
           /\ Len(renames) \in Nat
<1>1. job[p] \in Attempts /\ job[p] # 0
    BY ActiveJob DEF Rename
<1>2. /\ renames' = Append(renames, job[p]) /\ renames \in Seq(Attempts)
      /\ Len(renames) \in Nat
    BY DEF Rename, SaveTypeOK
<1>3. /\ Len(renames') = Len(renames) + 1
      /\ \A k \in 1..Len(renames) : renames'[k] = renames[k]
      /\ renames'[Len(renames) + 1] = job[p]
    BY <1>1, <1>2, AppendProperties
<1>4. job[p] \notin Held
    BY <1>1 DEF Rename, RenamesOnce
<1>5. Held' = Held \cup {job[p]}
    BY <1>2, <1>3 DEF Held
<1>6. \A k, l \in 1..Len(renames') : renames'[k] = renames'[l] => k = l
    BY <1>2, <1>3, <1>4 DEF Held, RenamesOnce
<1>7. renames' \in Seq(Attempts) /\ \A k \in 1..Len(renames') : renames'[k] # 0
    BY AttemptsAreVersions DEF SaveTypeOK
<1>8. ASSUME NEW k \in 1..Len(renames') PROVE Age(renames[k])' = k
    <2>1. (CHOOSE l \in DOMAIN renames' : renames'[l] = renames'[k]) = k
        BY <1>6, <1>7, PlaceIs
    <2> QED
        BY <1>7, <2>1 DEF Age
<1>9. Age(0)' = 0 /\ Age(0) = 0 /\ 0 \notin Attempts
    BY AttemptsAreVersions DEF Age
<1>10. \A k \in 1..Len(renames) : Age(renames[k])' = Age(renames[k]) /\ Age(renames[k]) = k
    BY <1>2, <1>3, <1>8, AgeOfHeld
<1>11. \A i \in Held : Age(i)' = Age(i) /\ Age(i) \in 0..Len(renames)
    <2>1. ASSUME NEW k \in 1..Len(renames)
          PROVE  Age(renames[k])' = Age(renames[k]) /\ renames'[k] = renames[k]
        BY <1>3, <1>10
    <2> QED
        BY <1>2, <1>3, <1>9, <1>10, <2>1, AgeOfHeld DEF Held
<1>12. Age(job[p])' = Len(renames) + 1
    BY <1>2, <1>3, <1>8 DEF Rename
<1> QED
    BY <1>2, <1>4, <1>5, <1>6, <1>11, <1>12

\* Every step renames a version once, by the attempt that made it.
LEMMA RenamesKept ==
    SaveTypeOK /\ JobsOwn /\ RenamesOnce /\ [SaveNext]_saveVars => RenamesOnce'
<1> SUFFICES ASSUME SaveTypeOK, JobsOwn, RenamesOnce, [SaveNext]_saveVars
             PROVE  RenamesOnce'
    OBVIOUS
<1>1. ASSUME NEW p \in Instances, Start(p) PROVE RenamesOnce'
    <2>1. Held' = Held /\ \A j : Age(j)' = Age(j)
        BY <1>1, OrderStays DEF Start, fs, ghosts
    <2> QED
        BY <1>1, <2>1 DEF Start, Goto, fs, ghosts, RenamesOnce, JobsOwn, SaveTypeOK
<1>2. ASSUME NEW p \in Instances, Recover(p) PROVE RenamesOnce'
    <2>1. Held' = Held /\ \A j : Age(j)' = Age(j)
        BY <1>2, OrderStays DEF Recover, fs, ghosts
    <2> QED
        BY <1>2, <2>1 DEF Recover, fs, ghosts, RenamesOnce, JobsOwn, SaveTypeOK
<1>3. ASSUME NEW p \in Instances, Ready(p) PROVE RenamesOnce'
    <2>1. Held' = Held /\ \A j : Age(j)' = Age(j)
        BY <1>3, OrderStays DEF Ready, fs, ghosts
    <2> QED
        BY <1>3, <2>1 DEF Ready, Goto, fs, ghosts, RenamesOnce, JobsOwn, SaveTypeOK
<1>4. ASSUME NEW p \in Instances, CreateTemp(p) PROVE RenamesOnce'
    <2>1. Held' = Held /\ renames' = renames
        BY <1>4, OrderStays DEF CreateTemp
    <2>2. \A i \in Held : i <= attempts /\ i \in Nat /\ i # attempts'
        <3>1. \A i \in Held : i \in Versions
            BY AttemptsAreVersions DEF Held, SaveTypeOK
        <3> QED
            BY <1>4, <3>1, SaveAssumption DEF CreateTemp, RenamesOnce, Versions, SaveTypeOK
    <2>3. attempts \in Nat /\ attempts' = attempts + 1
        BY <1>4, SaveAssumption DEF CreateTemp, Versions, SaveTypeOK
    <2>4. pc'[p] = "record" /\ job'[p] = attempts'
          /\ \A q \in Instances \ {p} : pc'[q] = pc[q] /\ job'[q] = job[q]
        BY <1>4 DEF CreateTemp, Goto, SaveTypeOK
    <2>5. \A i \in Held : i <= attempts'
        BY <2>2, <2>3
    <2> QED
        BY <2>1, <2>2, <2>4, <2>5 DEF RenamesOnce
<1>5. ASSUME NEW p \in Instances, CreateRecord(p) PROVE RenamesOnce'
    <2>1. Held' = Held /\ \A j : Age(j)' = Age(j)
        BY <1>5, OrderStays DEF CreateRecord, fs, ghosts
    <2>2. job[p] \in Attempts /\ job[p] # 0
        BY <1>5, ActiveJob DEF CreateRecord
    <2> QED
        BY <1>5, <2>1, <2>2 DEF CreateRecord, Goto, fs, ghosts, RenamesOnce,
                              JobsOwn, SaveTypeOK
<1>6. ASSUME NEW p \in Instances, Journal(p) PROVE RenamesOnce'
    <2>1. Held' = Held /\ \A j : Age(j)' = Age(j)
        BY <1>6, JournalShape, OrderStays
        DEF Journals
    <2>2. Journals(p)
        BY <1>6, JournalShape
    <2> QED
        BY <2>1, <2>2 DEF Journals, RenamesOnce, JobsOwn, SaveTypeOK
<1>7. ASSUME NEW p \in Instances, NEW extent \in {"partial", "whole"}, Write(p, extent)
      PROVE  RenamesOnce'
    <2>1. Held' = Held /\ \A j : Age(j)' = Age(j)
        BY <1>7, OrderStays DEF Write, fs, ghosts
    <2>2. job[p] \in Attempts /\ job[p] # 0
        BY <1>7, ActiveJob DEF Write
    <2> QED
        BY <1>7, <2>1, <2>2 DEF Write, Goto, fs, ghosts, RenamesOnce, JobsOwn,
                              SaveTypeOK
<1>8. ASSUME NEW p \in Instances, Sync(p) PROVE RenamesOnce'
    <2>1. Held' = Held /\ \A j : Age(j)' = Age(j)
        BY <1>8, OrderStays DEF Sync, fs, ghosts
    <2>2. job[p] \in Attempts /\ job[p] # 0
        BY <1>8, ActiveJob DEF Sync
    <2> QED
        BY <1>8, <2>1, <2>2 DEF Sync, Goto, fs, ghosts, RenamesOnce, JobsOwn,
                              SaveTypeOK
<1>9. ASSUME NEW p \in Instances, Rename(p) PROVE RenamesOnce'
    <2>1. /\ Held' = Held \cup {job[p]}
          /\ \A k, l \in 1..Len(renames') : renames'[k] = renames'[l] => k = l
        BY <1>9, RenameAges, TypesKept
    <2>2. job[p] \in Attempts /\ job[p] # 0
        BY <1>9, ActiveJob DEF Rename
    <2> QED
        BY <1>9, <2>1, <2>2 DEF Rename, Goto, RenamesOnce, JobsOwn, SaveTypeOK
<1>10. ASSUME NEW p \in Instances, SyncDirectory(p) PROVE RenamesOnce'
    <2>1. Held' = Held /\ \A j : Age(j)' = Age(j)
        BY <1>10, OrderStays DEF SyncDirectory, fs, ghosts
    <2>2. job[p] \in Attempts /\ job[p] # 0
        BY <1>10, ActiveJob DEF SyncDirectory
    <2> QED
        BY <1>10, <2>1, <2>2 DEF SyncDirectory, Goto, fs, ghosts, RenamesOnce,
                              JobsOwn, SaveTypeOK
<1>11. ASSUME NEW p \in Instances, Finish(p) PROVE RenamesOnce'
    <2>1. Held' = Held /\ \A j : Age(j)' = Age(j)
        BY <1>11, OrderStays DEF Finish, fs, ghosts
    <2>2. job[p] \in Attempts /\ job[p] # 0
        BY <1>11, ActiveJob DEF Finish
    <2> QED
        BY <1>11, <2>1, <2>2 DEF Finish, Goto, fs, ghosts, RenamesOnce, JobsOwn,
                              SaveTypeOK
<1>12. ASSUME NEW p \in Instances, Fail(p) PROVE RenamesOnce'
    <2>1. Held' = Held /\ \A j : Age(j)' = Age(j)
        BY <1>12, OrderStays DEF Fail, fs, ghosts
    <2>2. job[p] \in Attempts /\ job[p] # 0
        BY <1>12, ActiveJob DEF Fail
    <2> QED
        BY <1>12, <2>1, <2>2 DEF Fail, Goto, fs, ghosts, RenamesOnce, JobsOwn,
                              SaveTypeOK
<1>13. ASSUME NEW p \in Instances, RenameFails(p) PROVE RenamesOnce'
    <2>1. Held' = Held /\ \A j : Age(j)' = Age(j)
        BY <1>13, OrderStays DEF RenameFails, fs, ghosts
    <2>2. job[p] \in Attempts /\ job[p] # 0
        BY <1>13, ActiveJob DEF RenameFails
    <2> QED
        BY <1>13, <2>1, <2>2 DEF RenameFails, Goto, fs, ghosts, RenamesOnce,
                              JobsOwn, SaveTypeOK
<1>14. ASSUME NEW p \in Instances, DropRecord(p) PROVE RenamesOnce'
    <2>1. Held' = Held /\ \A j : Age(j)' = Age(j)
        BY <1>14, OrderStays DEF DropRecord, fs, ghosts
    <2>2. job[p] \in Attempts /\ job[p] # 0
        BY <1>14, ActiveJob DEF DropRecord
    <2> QED
        BY <1>14, <2>1, <2>2 DEF DropRecord, Goto, fs, ghosts, RenamesOnce,
                              JobsOwn, SaveTypeOK
<1>15. ASSUME NEW p \in Instances, DropTemp(p) PROVE RenamesOnce'
    <2>1. Held' = Held /\ \A j : Age(j)' = Age(j)
        BY <1>15, OrderStays DEF DropTemp, fs, ghosts
    <2>2. job[p] \in Attempts /\ job[p] # 0
        BY <1>15, ActiveJob DEF DropTemp
    <2> QED
        BY <1>15, <2>1, <2>2 DEF DropTemp, Goto, fs, ghosts, RenamesOnce, JobsOwn,
                              SaveTypeOK
<1>16. ASSUME NEW p \in Instances, Die(p) PROVE RenamesOnce'
    <2>1. Held' = Held /\ \A j : Age(j)' = Age(j)
        BY <1>16, OrderStays DEF Die, fs, ghosts
    <2> QED
        BY <1>16, <2>1 DEF Die, Goto, fs, ghosts, RenamesOnce, JobsOwn, SaveTypeOK
<1>17. ASSUME NEW i \in Attempts, HelperCleans(i) PROVE RenamesOnce'
    <2>1. Held' = Held /\ \A j : Age(j)' = Age(j)
        BY <1>17, OrderStays DEF HelperCleans, fs, ghosts
    <2> QED
        BY <1>17, <2>1 DEF HelperCleans, fs, ghosts, RenamesOnce, JobsOwn, SaveTypeOK
<1>18. CASE PowerLoss
    <2>1. Held' = Held /\ \A j : Age(j)' = Age(j)
        BY <1>18, OrderStays DEF PowerLoss, fs, ghosts
    <2> QED
        BY <1>18, <2>1 DEF PowerLoss, fs, ghosts, RenamesOnce, JobsOwn, SaveTypeOK
<1>19. CASE UNCHANGED saveVars
    <2>1. Held' = Held /\ \A j : Age(j)' = Age(j)
        BY <1>19, OrderStays DEF saveVars, fs, ghosts
    <2> QED
        BY <1>19, <2>1 DEF saveVars, fs, ghosts, RenamesOnce, JobsOwn, SaveTypeOK
<1> QED
    BY <1>1, <1>2, <1>3, <1>4, <1>5, <1>6, <1>7, <1>8, <1>9, <1>10, <1>11,
       <1>12, <1>13, <1>14, <1>15, <1>16, <1>17, <1>18, <1>19
    DEF SaveNext, SaveStep

\* Every step keeps the archive file to versions that were renamed.
LEMMA OnlyHeldKept ==
    SaveTypeOK /\ RenamesOnce /\ OnlyHeld /\ [SaveNext]_saveVars => OnlyHeld'
<1> SUFFICES ASSUME SaveTypeOK, RenamesOnce, OnlyHeld, [SaveNext]_saveVars
             PROVE  OnlyHeld'
    OBVIOUS
<1>1. ASSUME NEW p \in Instances, Start(p) PROVE OnlyHeld'
    <2>1. Held' = Held /\ \A j : Age(j)' = Age(j)
        BY <1>1, OrderStays DEF Start, fs, ghosts
    <2> QED
        BY <1>1, <2>1 DEF Start, Goto, fs, ghosts, RenamesOnce, OnlyHeld, SaveTypeOK
<1>2. ASSUME NEW p \in Instances, Recover(p) PROVE OnlyHeld'
    <2>1. Held' = Held /\ \A j : Age(j)' = Age(j)
        BY <1>2, OrderStays DEF Recover, fs, ghosts
    <2> QED
        BY <1>2, <2>1 DEF Recover, fs, ghosts, RenamesOnce, OnlyHeld, SaveTypeOK
<1>3. ASSUME NEW p \in Instances, Ready(p) PROVE OnlyHeld'
    <2>1. Held' = Held /\ \A j : Age(j)' = Age(j)
        BY <1>3, OrderStays DEF Ready, fs, ghosts
    <2> QED
        BY <1>3, <2>1 DEF Ready, Goto, fs, ghosts, RenamesOnce, OnlyHeld, SaveTypeOK
<1>4. ASSUME NEW p \in Instances, CreateTemp(p) PROVE OnlyHeld'
    <2>1. Held' = Held /\ \A j : Age(j)' = Age(j)
        BY <1>4, OrderStays DEF CreateTemp, fs, ghosts
    <2> QED
        BY <1>4, <2>1, SaveAssumption DEF CreateTemp, Goto, fs, ghosts, Attempts,
                                        Versions, RenamesOnce, OnlyHeld, SaveTypeOK
<1>5. ASSUME NEW p \in Instances, CreateRecord(p) PROVE OnlyHeld'
    <2>1. Held' = Held /\ \A j : Age(j)' = Age(j)
        BY <1>5, OrderStays DEF CreateRecord, fs, ghosts
    <2>2. job[p] \in Attempts /\ job[p] # 0
        BY <1>5, ActiveJob DEF CreateRecord
    <2> QED
        BY <1>5, <2>1, <2>2 DEF CreateRecord, Goto, fs, ghosts, RenamesOnce,
                              OnlyHeld, SaveTypeOK
<1>6. ASSUME NEW p \in Instances, Journal(p) PROVE OnlyHeld'
    <2>1. Held' = Held /\ \A j : Age(j)' = Age(j)
        BY <1>6, JournalShape, OrderStays
        DEF Journals
    <2>2. Journals(p)
        BY <1>6, JournalShape
    <2> QED
        BY <2>1, <2>2 DEF Journals, RenamesOnce, OnlyHeld, SaveTypeOK
<1>7. ASSUME NEW p \in Instances, NEW extent \in {"partial", "whole"}, Write(p, extent)
      PROVE  OnlyHeld'
    <2>1. Held' = Held /\ \A j : Age(j)' = Age(j)
        BY <1>7, OrderStays DEF Write, fs, ghosts
    <2>2. job[p] \in Attempts /\ job[p] # 0
        BY <1>7, ActiveJob DEF Write
    <2> QED
        BY <1>7, <2>1, <2>2 DEF Write, Goto, fs, ghosts, RenamesOnce, OnlyHeld,
                              SaveTypeOK
<1>8. ASSUME NEW p \in Instances, Sync(p) PROVE OnlyHeld'
    <2>1. Held' = Held /\ \A j : Age(j)' = Age(j)
        BY <1>8, OrderStays DEF Sync, fs, ghosts
    <2>2. job[p] \in Attempts /\ job[p] # 0
        BY <1>8, ActiveJob DEF Sync
    <2> QED
        BY <1>8, <2>1, <2>2 DEF Sync, Goto, fs, ghosts, RenamesOnce, OnlyHeld,
                              SaveTypeOK
<1>9. ASSUME NEW p \in Instances, Rename(p) PROVE OnlyHeld'
    <2>1. Held' = Held \cup {job[p]}
        BY <1>9, RenameAges, TypesKept
    <2> QED
        BY <1>9, <2>1 DEF Rename, OnlyHeld
<1>10. ASSUME NEW p \in Instances, SyncDirectory(p) PROVE OnlyHeld'
    <2>1. Held' = Held /\ \A j : Age(j)' = Age(j)
        BY <1>10, OrderStays DEF SyncDirectory, fs, ghosts
    <2>2. job[p] \in Attempts /\ job[p] # 0
        BY <1>10, ActiveJob DEF SyncDirectory
    <2> QED
        BY <1>10, <2>1, <2>2 DEF SyncDirectory, Goto, fs, ghosts, RenamesOnce,
                              OnlyHeld, SaveTypeOK
<1>11. ASSUME NEW p \in Instances, Finish(p) PROVE OnlyHeld'
    <2>1. Held' = Held /\ \A j : Age(j)' = Age(j)
        BY <1>11, OrderStays DEF Finish, fs, ghosts
    <2>2. job[p] \in Attempts /\ job[p] # 0
        BY <1>11, ActiveJob DEF Finish
    <2> QED
        BY <1>11, <2>1, <2>2 DEF Finish, Goto, fs, ghosts, RenamesOnce, OnlyHeld,
                              SaveTypeOK
<1>12. ASSUME NEW p \in Instances, Fail(p) PROVE OnlyHeld'
    <2>1. Held' = Held /\ \A j : Age(j)' = Age(j)
        BY <1>12, OrderStays DEF Fail, fs, ghosts
    <2>2. job[p] \in Attempts /\ job[p] # 0
        BY <1>12, ActiveJob DEF Fail
    <2> QED
        BY <1>12, <2>1, <2>2 DEF Fail, Goto, fs, ghosts, RenamesOnce, OnlyHeld,
                              SaveTypeOK
<1>13. ASSUME NEW p \in Instances, RenameFails(p) PROVE OnlyHeld'
    <2>1. Held' = Held /\ \A j : Age(j)' = Age(j)
        BY <1>13, OrderStays DEF RenameFails, fs, ghosts
    <2>2. job[p] \in Attempts /\ job[p] # 0
        BY <1>13, ActiveJob DEF RenameFails
    <2> QED
        BY <1>13, <2>1, <2>2 DEF RenameFails, Goto, fs, ghosts, RenamesOnce,
                              OnlyHeld, SaveTypeOK
<1>14. ASSUME NEW p \in Instances, DropRecord(p) PROVE OnlyHeld'
    <2>1. Held' = Held /\ \A j : Age(j)' = Age(j)
        BY <1>14, OrderStays DEF DropRecord, fs, ghosts
    <2>2. job[p] \in Attempts /\ job[p] # 0
        BY <1>14, ActiveJob DEF DropRecord
    <2> QED
        BY <1>14, <2>1, <2>2 DEF DropRecord, Goto, fs, ghosts, RenamesOnce,
                              OnlyHeld, SaveTypeOK
<1>15. ASSUME NEW p \in Instances, DropTemp(p) PROVE OnlyHeld'
    <2>1. Held' = Held /\ \A j : Age(j)' = Age(j)
        BY <1>15, OrderStays DEF DropTemp, fs, ghosts
    <2>2. job[p] \in Attempts /\ job[p] # 0
        BY <1>15, ActiveJob DEF DropTemp
    <2> QED
        BY <1>15, <2>1, <2>2 DEF DropTemp, Goto, fs, ghosts, RenamesOnce,
                              OnlyHeld, SaveTypeOK
<1>16. ASSUME NEW p \in Instances, Die(p) PROVE OnlyHeld'
    <2>1. Held' = Held /\ \A j : Age(j)' = Age(j)
        BY <1>16, OrderStays DEF Die, fs, ghosts
    <2> QED
        BY <1>16, <2>1 DEF Die, Goto, fs, ghosts, RenamesOnce, OnlyHeld, SaveTypeOK
<1>17. ASSUME NEW i \in Attempts, HelperCleans(i) PROVE OnlyHeld'
    <2>1. Held' = Held /\ \A j : Age(j)' = Age(j)
        BY <1>17, OrderStays DEF HelperCleans, fs, ghosts
    <2> QED
        BY <1>17, <2>1 DEF HelperCleans, fs, ghosts, RenamesOnce, OnlyHeld, SaveTypeOK
<1>18. CASE PowerLoss
    <2>1. Held' = Held /\ \A j : Age(j)' = Age(j)
        BY <1>18, OrderStays DEF PowerLoss, fs, ghosts
    <2> QED
        BY <1>18, <2>1 DEF PowerLoss, fs, ghosts, RenamesOnce, OnlyHeld, SaveTypeOK
<1>19. CASE UNCHANGED saveVars
    <2>1. Held' = Held /\ \A j : Age(j)' = Age(j)
        BY <1>19, OrderStays DEF saveVars, fs, ghosts
    <2> QED
        BY <1>19, <2>1 DEF saveVars, fs, ghosts, RenamesOnce, OnlyHeld, SaveTypeOK
<1> QED
    BY <1>1, <1>2, <1>3, <1>4, <1>5, <1>6, <1>7, <1>8, <1>9, <1>10, <1>11,
       <1>12, <1>13, <1>14, <1>15, <1>16, <1>17, <1>18, <1>19
    DEF SaveNext, SaveStep

\* Every step keeps older versions from coming back.
LEMMA InOrderKept ==
    SaveTypeOK /\ JobsOwn /\ RenamesOnce /\ OnlyHeld /\ InOrder /\ [SaveNext]_saveVars => InOrder'
<1> SUFFICES ASSUME SaveTypeOK, JobsOwn, RenamesOnce, OnlyHeld, InOrder, [SaveNext]_saveVars
             PROVE  InOrder'
    OBVIOUS
<1>1. ASSUME NEW p \in Instances, Start(p) PROVE InOrder'
    <2>1. Held' = Held /\ \A j : Age(j)' = Age(j)
        BY <1>1, OrderStays DEF Start, fs, ghosts
    <2> QED
        BY <1>1, <2>1 DEF Start, Goto, fs, ghosts, SavedSurvives, InOrder,
                        JobsOwn, SaveTypeOK
<1>2. ASSUME NEW p \in Instances, Recover(p) PROVE InOrder'
    <2>1. Held' = Held /\ \A j : Age(j)' = Age(j)
        BY <1>2, OrderStays DEF Recover, fs, ghosts
    <2> QED
        BY <1>2, <2>1 DEF Recover, fs, ghosts, SavedSurvives, InOrder, JobsOwn,
                        SaveTypeOK
<1>3. ASSUME NEW p \in Instances, Ready(p) PROVE InOrder'
    <2>1. Held' = Held /\ \A j : Age(j)' = Age(j)
        BY <1>3, OrderStays DEF Ready, fs, ghosts
    <2> QED
        BY <1>3, <2>1 DEF Ready, Goto, fs, ghosts, SavedSurvives, InOrder,
                        JobsOwn, SaveTypeOK
<1>4. ASSUME NEW p \in Instances, CreateTemp(p) PROVE InOrder'
    <2>1. Held' = Held /\ \A j : Age(j)' = Age(j)
        BY <1>4, OrderStays DEF CreateTemp, fs, ghosts
    <2> QED
        BY <1>4, <2>1, SaveAssumption DEF CreateTemp, Goto, fs, ghosts, Attempts,
                                        Versions, SavedSurvives, InOrder,
                                        JobsOwn, SaveTypeOK
<1>5. ASSUME NEW p \in Instances, CreateRecord(p) PROVE InOrder'
    <2>1. Held' = Held /\ \A j : Age(j)' = Age(j)
        BY <1>5, OrderStays DEF CreateRecord, fs, ghosts
    <2>2. job[p] \in Attempts /\ job[p] # 0
        BY <1>5, ActiveJob DEF CreateRecord
    <2> QED
        BY <1>5, <2>1, <2>2 DEF CreateRecord, Goto, fs, ghosts, SavedSurvives,
                              InOrder, JobsOwn, SaveTypeOK
<1>6. ASSUME NEW p \in Instances, Journal(p) PROVE InOrder'
    <2>1. Held' = Held /\ \A j : Age(j)' = Age(j)
        BY <1>6, JournalShape, OrderStays
        DEF Journals
    <2>2. Journals(p)
        BY <1>6, JournalShape
    <2> QED
        BY <2>1, <2>2 DEF Journals, SavedSurvives, InOrder, JobsOwn, SaveTypeOK
<1>7. ASSUME NEW p \in Instances, NEW extent \in {"partial", "whole"}, Write(p, extent)
      PROVE  InOrder'
    <2>1. Held' = Held /\ \A j : Age(j)' = Age(j)
        BY <1>7, OrderStays DEF Write, fs, ghosts
    <2>2. job[p] \in Attempts /\ job[p] # 0
        BY <1>7, ActiveJob DEF Write
    <2> QED
        BY <1>7, <2>1, <2>2 DEF Write, Goto, fs, ghosts, SavedSurvives, InOrder,
                              JobsOwn, SaveTypeOK
<1>8. ASSUME NEW p \in Instances, Sync(p) PROVE InOrder'
    <2>1. Held' = Held /\ \A j : Age(j)' = Age(j)
        BY <1>8, OrderStays DEF Sync, fs, ghosts
    <2>2. job[p] \in Attempts /\ job[p] # 0
        BY <1>8, ActiveJob DEF Sync
    <2> QED
        BY <1>8, <2>1, <2>2 DEF Sync, Goto, fs, ghosts, SavedSurvives, InOrder,
                              JobsOwn, SaveTypeOK
<1>9. ASSUME NEW p \in Instances, Rename(p) PROVE InOrder'
    <2>1. /\ Held' = Held \cup {job[p]} /\ job[p] \notin Held
          /\ \A i \in Held : Age(i)' = Age(i) /\ Age(i) \in 0..Len(renames)
          /\ Age(job[p])' = Len(renames) + 1 /\ Len(renames) \in Nat
        BY <1>9, RenameAges, TypesKept
    <2>2. job[p] \in Attempts /\ job[p] # 0
        BY <1>9, ActiveJob DEF Rename
    <2>3. /\ promised' = promised /\ durable' = durable \cup {job[p]}
          /\ output' = job[p] /\ job' = job
        BY <1>9 DEF Rename
    <2>4. promised \subseteq Held /\ durable \subseteq Held
        BY DEF OnlyHeld
    <2>5. SavedSurvives'
        <3>1. \A i \in promised : Age(i)' <= Age(job[p])'
            BY <2>1, <2>4
        <3>2. \A i \in promised, j \in durable : Age(i)' <= Age(j)'
            BY <2>1, <2>4 DEF SavedSurvives, InOrder
        <3>3. \A i \in promised', j \in durable' \cup {output'} : Age(i)' <= Age(j)'
            BY <2>3, <3>1, <3>2
        <3> QED
            BY <3>3 DEF SavedSurvives
    <2>6. /\ job' = job /\ pc'[p] = "syncdir"
          /\ \A q \in Instances \ {p} : pc'[q] = pc[q]
        BY <1>9 DEF Rename, Goto, SaveTypeOK
    <2>7. \A q \in Instances : pc[q] \in {"syncdir", "reopen", "reopenUnsynced"}
             => job[q] \in Held
        BY DEF RenamesOnce, SaveTypeOK
    <2> QED
        BY <2>1, <2>2, <2>3, <2>4, <2>5, <2>6, <2>7 DEF InOrder
<1>10. ASSUME NEW p \in Instances, SyncDirectory(p) PROVE InOrder'
    <2>1. Held' = Held /\ \A j : Age(j)' = Age(j)
        BY <1>10, OrderStays DEF SyncDirectory, fs, ghosts
    <2>2. job[p] \in Attempts /\ job[p] # 0
        BY <1>10, ActiveJob DEF SyncDirectory
    <2> QED
        BY <1>10, <2>1, <2>2 DEF SyncDirectory, Goto, fs, ghosts, SavedSurvives,
                              InOrder, JobsOwn, SaveTypeOK
<1>11. ASSUME NEW p \in Instances, Finish(p) PROVE InOrder'
    <2>1. Held' = Held /\ \A j : Age(j)' = Age(j)
        BY <1>11, OrderStays DEF Finish, fs, ghosts
    <2>2. job[p] \in Attempts /\ job[p] # 0
        BY <1>11, ActiveJob DEF Finish
    <2> QED
        BY <1>11, <2>1, <2>2 DEF Finish, Goto, fs, ghosts, SavedSurvives, InOrder,
                              JobsOwn, SaveTypeOK
<1>12. ASSUME NEW p \in Instances, Fail(p) PROVE InOrder'
    <2>1. Held' = Held /\ \A j : Age(j)' = Age(j)
        BY <1>12, OrderStays DEF Fail, fs, ghosts
    <2>2. job[p] \in Attempts /\ job[p] # 0
        BY <1>12, ActiveJob DEF Fail
    <2> QED
        BY <1>12, <2>1, <2>2 DEF Fail, Goto, fs, ghosts, SavedSurvives, InOrder,
                              JobsOwn, SaveTypeOK
<1>13. ASSUME NEW p \in Instances, RenameFails(p) PROVE InOrder'
    <2>1. Held' = Held /\ \A j : Age(j)' = Age(j)
        BY <1>13, OrderStays DEF RenameFails, fs, ghosts
    <2>2. job[p] \in Attempts /\ job[p] # 0
        BY <1>13, ActiveJob DEF RenameFails
    <2> QED
        BY <1>13, <2>1, <2>2 DEF RenameFails, Goto, fs, ghosts, SavedSurvives,
                              InOrder, JobsOwn, SaveTypeOK
<1>14. ASSUME NEW p \in Instances, DropRecord(p) PROVE InOrder'
    <2>1. Held' = Held /\ \A j : Age(j)' = Age(j)
        BY <1>14, OrderStays DEF DropRecord, fs, ghosts
    <2>2. job[p] \in Attempts /\ job[p] # 0
        BY <1>14, ActiveJob DEF DropRecord
    <2> QED
        BY <1>14, <2>1, <2>2 DEF DropRecord, Goto, fs, ghosts, SavedSurvives,
                              InOrder, JobsOwn, SaveTypeOK
<1>15. ASSUME NEW p \in Instances, DropTemp(p) PROVE InOrder'
    <2>1. Held' = Held /\ \A j : Age(j)' = Age(j)
        BY <1>15, OrderStays DEF DropTemp, fs, ghosts
    <2>2. job[p] \in Attempts /\ job[p] # 0
        BY <1>15, ActiveJob DEF DropTemp
    <2> QED
        BY <1>15, <2>1, <2>2 DEF DropTemp, Goto, fs, ghosts, SavedSurvives,
                              InOrder, JobsOwn, SaveTypeOK
<1>16. ASSUME NEW p \in Instances, Die(p) PROVE InOrder'
    <2>1. Held' = Held /\ \A j : Age(j)' = Age(j)
        BY <1>16, OrderStays DEF Die, fs, ghosts
    <2> QED
        BY <1>16, <2>1 DEF Die, Goto, fs, ghosts, SavedSurvives, InOrder, JobsOwn,
                        SaveTypeOK
<1>17. ASSUME NEW i \in Attempts, HelperCleans(i) PROVE InOrder'
    <2>1. Held' = Held /\ \A j : Age(j)' = Age(j)
        BY <1>17, OrderStays DEF HelperCleans, fs, ghosts
    <2> QED
        BY <1>17, <2>1 DEF HelperCleans, fs, ghosts, SavedSurvives, InOrder,
                        JobsOwn, SaveTypeOK
<1>18. CASE PowerLoss
    <2>1. Held' = Held /\ \A j : Age(j)' = Age(j)
        BY <1>18, OrderStays DEF PowerLoss, fs, ghosts
    <2> QED
        BY <1>18, <2>1 DEF PowerLoss, fs, ghosts, SavedSurvives, InOrder, JobsOwn,
                        SaveTypeOK
<1>19. CASE UNCHANGED saveVars
    <2>1. Held' = Held /\ \A j : Age(j)' = Age(j)
        BY <1>19, OrderStays DEF saveVars, fs, ghosts
    <2> QED
        BY <1>19, <2>1 DEF saveVars, fs, ghosts, SavedSurvives, InOrder, JobsOwn,
                        SaveTypeOK
<1> QED
    BY <1>1, <1>2, <1>3, <1>4, <1>5, <1>6, <1>7, <1>8, <1>9, <1>10, <1>11,
       <1>12, <1>13, <1>14, <1>15, <1>16, <1>17, <1>18, <1>19
    DEF SaveNext, SaveStep

\* Every step leaves the archive file one whole version.
LEMMA IntactKept ==
    SaveTypeOK /\ SyncedWhole /\ OutputIntact /\ [SaveNext]_saveVars => OutputIntact'
<1> SUFFICES ASSUME SaveTypeOK, SyncedWhole, OutputIntact, [SaveNext]_saveVars
             PROVE  OutputIntact'
    OBVIOUS
<1>1. ASSUME NEW p \in Instances, Start(p) PROVE OutputIntact'
    BY <1>1 DEF Start, Goto, Alone, fs, ghosts, OutputIntact
<1>2. ASSUME NEW p \in Instances, Recover(p) PROVE OutputIntact'
    BY <1>2 DEF Recover, RecoverRecord, fs, ghosts, OutputIntact
<1>3. ASSUME NEW p \in Instances, Ready(p) PROVE OutputIntact'
    BY <1>3 DEF Ready, Goto, fs, ghosts, OutputIntact
<1>4. ASSUME NEW p \in Instances, CreateTemp(p) PROVE OutputIntact'
    BY <1>4 DEF CreateTemp, Goto, Alone, fs, ghosts, OutputIntact
<1>5. ASSUME NEW p \in Instances, CreateRecord(p) PROVE OutputIntact'
    <2>1. job[p] \in Attempts /\ job[p] # 0
        BY <1>5, ActiveJob DEF CreateRecord
    <2> QED
        BY <1>5, <2>1 DEF CreateRecord, Goto, fs, ghosts, OutputIntact
<1>6. ASSUME NEW p \in Instances, Journal(p) PROVE OutputIntact'
    <2>1. Journals(p) /\ job[p] \in Attempts /\ job[p] # 0
        BY <1>6, JournalShape, ActiveJob
        DEF Journal
    <2> QED
        BY <2>1 DEF Journals, OutputIntact
<1>7. ASSUME NEW p \in Instances, NEW extent \in {"partial", "whole"}, Write(p, extent)
      PROVE  OutputIntact'
    <2>1. job[p] \in Attempts /\ job[p] # 0
        BY <1>7, ActiveJob DEF Write
    <2> QED
        BY <1>7, <2>1 DEF Write, Goto, Exists, fs, ghosts, OutputIntact
<1>8. ASSUME NEW p \in Instances, Sync(p) PROVE OutputIntact'
    <2>1. job[p] \in Attempts /\ job[p] # 0
        BY <1>8, ActiveJob DEF Sync
    <2> QED
        BY <1>8, <2>1 DEF Sync, Goto, fs, ghosts, OutputIntact
<1>9. ASSUME NEW p \in Instances, Rename(p) PROVE OutputIntact'
    BY <1>9 DEF Rename, Exists, SyncedWhole, OutputIntact
<1>10. ASSUME NEW p \in Instances, SyncDirectory(p) PROVE OutputIntact'
    <2>1. job[p] \in Attempts /\ job[p] # 0
        BY <1>10, ActiveJob DEF SyncDirectory
    <2> QED
        BY <1>10, <2>1 DEF SyncDirectory, Goto, MayFail, fs, ghosts,
                           OutputIntact
<1>11. ASSUME NEW p \in Instances, Finish(p) PROVE OutputIntact'
    <2>1. job[p] \in Attempts /\ job[p] # 0
        BY <1>11, ActiveJob DEF Finish
    <2> QED
        BY <1>11, <2>1 DEF Finish, Goto, fs, ghosts, OutputIntact
<1>12. ASSUME NEW p \in Instances, Fail(p) PROVE OutputIntact'
    <2>1. job[p] \in Attempts /\ job[p] # 0
        BY <1>12, ActiveJob DEF Fail
    <2> QED
        BY <1>12, <2>1 DEF Fail, Goto, Troubles, fs, ghosts, OutputIntact
<1>13. ASSUME NEW p \in Instances, RenameFails(p) PROVE OutputIntact'
    <2>1. job[p] \in Attempts /\ job[p] # 0
        BY <1>13, ActiveJob DEF RenameFails
    <2> QED
        BY <1>13, <2>1 DEF RenameFails, Goto, Troubles, Exists, fs, ghosts,
                           OutputIntact
<1>14. ASSUME NEW p \in Instances, DropRecord(p) PROVE OutputIntact'
    <2>1. job[p] \in Attempts /\ job[p] # 0
        BY <1>14, ActiveJob DEF DropRecord
    <2> QED
        BY <1>14, <2>1 DEF DropRecord, Goto, fs, ghosts, OutputIntact
<1>15. ASSUME NEW p \in Instances, DropTemp(p) PROVE OutputIntact'
    <2>1. job[p] \in Attempts /\ job[p] # 0
        BY <1>15, ActiveJob DEF DropTemp
    <2> QED
        BY <1>15, <2>1 DEF DropTemp, Goto, fs, ghosts, OutputIntact
<1>16. ASSUME NEW p \in Instances, Die(p) PROVE OutputIntact'
    BY <1>16 DEF Die, Goto, fs, ghosts, OutputIntact
<1>17. ASSUME NEW i \in Attempts, HelperCleans(i) PROVE OutputIntact'
    BY <1>17 DEF HelperCleans, RecoverRecord, fs, ghosts, OutputIntact
<1>18. CASE PowerLoss
    <2>1. output' \in synced /\ output \in synced
        BY <1>18 DEF PowerLoss, SyncedWhole
    <2>2. CASE intact' = (intact /\ output \in synced)
        BY <2>1, <2>2 DEF OutputIntact
    <2>3. CASE intact' = (output' \in synced)
        BY <2>1, <2>3 DEF OutputIntact
    <2> QED
        BY <1>18, <2>2, <2>3 DEF PowerLoss
<1>19. CASE UNCHANGED saveVars
    BY <1>19 DEF saveVars, fs, ghosts, OutputIntact
<1> QED
    BY <1>1, <1>2, <1>3, <1>4, <1>5, <1>6, <1>7, <1>8, <1>9, <1>10, <1>11,
       <1>12, <1>13, <1>14, <1>15, <1>16, <1>17, <1>18, <1>19
    DEF SaveNext, SaveStep

----------------------------------------------------------------------------
(* The theorems.                                                           *)

\* The first state satisfies the invariant.
LEMMA SaveInvInit == SaveInit => SaveInv
<1> SUFFICES ASSUME SaveInit PROVE SaveInv
    OBVIOUS
<1>1. SaveTypeOK
    BY AttemptsAreVersions, SaveAssumption DEF SaveInit, SaveTypeOK, Versions
<1>2. renames = <<>> /\ Len(renames) = 0 /\ Held = {0}
    BY DEF SaveInit, Held
<1>3. Age(0) = 0
    BY DEF Age
<1>4. JobsOwn /\ HelpersOwn /\ SyncedWhole /\ OutputIntact
    BY DEF SaveInit, JobsOwn, HelpersOwn, SyncedWhole, OutputIntact
<1>5. TogetherTroubled /\ StepsTold /\ RecoverySparesLive /\ Charged
    BY DEF SaveInit, TogetherTroubled, StepsTold, RecoverySparesLive, Charged
<1>6. RenamesOnce
    BY <1>2 DEF SaveInit, RenamesOnce
<1>7. OnlyHeld
    BY <1>2 DEF SaveInit, OnlyHeld
<1>8. InOrder
    BY <1>3 DEF SaveInit, InOrder, SavedSurvives
<1> QED
    BY <1>1, <1>4, <1>5, <1>6, <1>7, <1>8 DEF SaveInv

\* Every step keeps it.
LEMMA InvStep == SaveInv /\ [SaveNext]_saveVars => SaveInv'
BY TypesKept, JobsKept, HelpersKept, SyncedKept, IntactKept, TroubledKept,
   StepsKept, SparedKept, ChargedKept, RenamesKept, OnlyHeldKept, InOrderKept
   DEF SaveInv

\* The invariant holds in every reachable state.
THEOREM SaveInvariance == SaveSpec => []SaveInv
BY SaveInvInit, InvStep, PTL DEF SaveSpec

\* Every variable has its type, an instance has an attempt in progress exactly
\* while it saves, and the numbers stay within their bounds.
THEOREM SaveTypesCorrect == SaveSpec => []SaveTypeOK
<1>1. SaveInv => SaveTypeOK
    BY DEF SaveInv
<1> QED
    BY <1>1, SaveInvariance, PTL

\* save: whatever fails, and wherever the program or the machine stops, the
\* archive file holds one version completely, since nothing is renamed over it
\* that is not whole and synced.
THEOREM OutputStaysIntact == SaveSpec => []OutputIntact
<1>1. SaveInv => OutputIntact
    BY DEF SaveInv
<1> QED
    BY <1>1, SaveInvariance, PTL

\* save, sync_directory: a save reported as done, its directory synced, is
\* never undone; after any power loss the file holds it or a younger one.
THEOREM SavedStaySaved == SaveSpec => []SavedSurvives
<1>1. SaveInv => SavedSurvives
    BY DEF SaveInv, InOrder
<1> QED
    BY <1>1, SaveInvariance, PTL

\* recover_record, process_records: neither takes the temporary file of a save
\* in progress unless a second instance runs.
THEOREM LiveSavesSpared == SaveSpec => []RecoverySparesLive
<1>1. SaveInv => RecoverySparesLive
    BY DEF SaveInv
<1> QED
    BY <1>1, SaveInvariance, PTL

\* recover_abandoned: once the only running instance has read the records and
\* saves nothing, no partial save is left but of attempts that met a failure
\* or overlapped another instance.
THEOREM LeftoversGo == SaveSpec => []LeftoversRemoved
<1>1. SaveInv => LeftoversRemoved
    <2> SUFFICES ASSUME SaveInv, NEW p \in Instances, pc[p] = "idle", Alone(p),
                        NEW i \in Attempts, temp[i] \notin {"absent", "empty"},
                        i \notin troubled
                 PROVE  FALSE
        BY DEF LeftoversRemoved, Quiet, Leftovers
    <2>1. temp[i] \in {"partial", "whole"}
        BY DEF SaveInv, SaveTypeOK
    <2>2. \A q \in Instances : job[q] = 0
        BY DEF SaveInv, SaveTypeOK, Alone, Running
    <2>3. i # 0
        BY AttemptsAreVersions
    <2>4. Running(p) /\ pc[p] # "recover"
        BY DEF Running
    <2> QED
        BY <2>1, <2>2, <2>3, <2>4 DEF SaveInv, Charged
<1> QED
    BY <1>1, SaveInvariance, PTL
----------------------------------------------------------------------------
(* Staging: which directories documents, histories and clipboard refer to. *)

\* The clipboard exports that have been pruned.
Lost == Exports \ files

\* What names none of them: a transaction's changes, and a document, but for
\* transactions of an import during which something was pruned.
Spared(changes, lost) ==
    \A k \in DOMAIN changes : changes[k].before \notin lost /\ changes[k].after \notin lost
Steps(doc) == Range(doc.undo) \cup Range(doc.redo)
Sound(doc, lost) ==
    /\ \A k \in Keys : doc.entries[k] \notin lost
    /\ \A s \in Steps(doc) : ~s.disturbed => Spared(s.changes, lost)

\* So it is with every open document (the copy of the shown one may be stale).
AllSound == Sound(live, Lost) /\ \A t \in DOMAIN tabs \ {shown} : Sound(tabs[t], Lost)

\* A running import asks about a file that can still be read, and what it has
\* changed can be brought back, unless something was pruned meanwhile.
Undisturbed(b, lost) ==
    /\ b.question # None => b.question.dir \notin lost
    /\ ~b.disturbed => Spared(b.changes, lost)
Importing ==
    batch # None => /\ Undisturbed(batch, Lost)
                    /\ batch.question = None => batch.queue # <<>>

\* The clipboard exports that exist, and only they, are in clips; no export is
\* empty.
Listed ==
    /\ clips \subseteq Exports /\ (drags \cup Range(retained)) \cap Exports = {}
    /\ \A d \in DOMAIN staged : staged[d].keys # {}

\* What the clipboard lists is in the newest export.
Newest == clipboard # None => clipboard \in clips /\ IsNewest(clipboard, clips)

\* The inductive invariant.
IInv == TypeOK /\ Listed /\ Newest /\ AllSound /\ Importing

----------------------------------------------------------------------------
(* Sequences and partial functions.                                        *)

LEMMA Ends ==
    ASSUME NEW S, NEW s \in Seq(S), s # <<>>
    PROVE  /\ Last(s) \in S /\ Last(s) \in Range(s)
           /\ Front(s) \in Seq(S) /\ Range(Front(s)) \subseteq Range(s)
           /\ Tail(s) \in Seq(S) /\ Range(Tail(s)) \subseteq Range(s)
           /\ Head(s) \in S /\ Head(s) \in Range(s)
<1>1. Len(s) \in Nat \ {0} /\ DOMAIN s = 1..Len(s) /\ \A i \in 1..Len(s) : s[i] \in S
    BY LenProperties, EmptySeq, ElementOfSeq
<1>2. Last(s) \in S /\ Last(s) \in Range(s)
    BY <1>1 DEF Last, Range
<1>3. /\ Front(s) \in Seq(S) /\ Len(Front(s)) = Len(s) - 1
      /\ \A i \in 1..(Len(s) - 1) : Front(s)[i] = s[i]
    <2>1. \A i \in 1..(Len(s) - 1) : s[i] \in S
        BY <1>1
    <2>2. /\ SubSeq(s, 1, Len(s) - 1) \in Seq(S)
          /\ Len(SubSeq(s, 1, Len(s) - 1)) = IF 1 <= Len(s) - 1 THEN Len(s) - 1 - 1 + 1 ELSE 0
          /\ \A i \in 1..(Len(s) - 1 - 1 + 1) : SubSeq(s, 1, Len(s) - 1)[i] = s[1 + i - 1]
        BY <1>1, <2>1, SubSeqProperties
    <2> QED
        BY <1>1, <2>2 DEF Front
<1>4. DOMAIN Front(s) = 1..(Len(s) - 1)
    BY <1>1, <1>3, LenProperties
<1>5. Range(Front(s)) \subseteq Range(s)
    BY <1>1, <1>3, <1>4 DEF Range
<1>6. /\ Tail(s) \in Seq(S) /\ Len(Tail(s)) = Len(s) - 1 /\ Head(s) \in S /\ Head(s) = s[1]
      /\ \A i \in 1..Len(Tail(s)) : Tail(s)[i] = s[i + 1]
    BY HeadTailProperties
<1>7. DOMAIN Tail(s) = 1..(Len(s) - 1)
    BY <1>6, LenProperties
<1>8. Range(Tail(s)) \subseteq Range(s)
    BY <1>1, <1>6, <1>7 DEF Range
<1>9. Head(s) \in Range(s)
    BY <1>1, <1>6 DEF Range
<1> QED
    BY <1>2, <1>3, <1>5, <1>6, <1>8, <1>9

LEMMA Longer ==
    ASSUME NEW S, NEW s \in Seq(S), NEW e \in S
    PROVE  Append(s, e) \in Seq(S) /\ Append(s, e) # <<>> /\ Range(Append(s, e)) = Range(s) \cup {e}
<1>1. /\ Append(s, e) \in Seq(S) /\ Len(Append(s, e)) = Len(s) + 1 /\ Append(s, e) # <<>>
      /\ \A i \in 1..Len(s) : Append(s, e)[i] = s[i]
      /\ Append(s, e)[Len(s) + 1] = e
    BY AppendProperties
<1>2. Len(s) \in Nat /\ DOMAIN s = 1..Len(s) /\ DOMAIN Append(s, e) = 1..(Len(s) + 1)
    BY <1>1, LenProperties
<1> QED
    BY <1>1, <1>2 DEF Range

\* Lists without repetitions.
LEMMA InjectiveAppend ==
    ASSUME NEW S, NEW s \in Seq(S), NEW e \in S, IsInjective(s), e \notin Range(s)
    PROVE  IsInjective(Append(s, e))
<1>1. /\ Append(s, e) \in Seq(S) /\ Len(Append(s, e)) = Len(s) + 1
      /\ \A i \in 1..Len(s) : Append(s, e)[i] = s[i]
      /\ Append(s, e)[Len(s) + 1] = e
    BY AppendProperties
<1>2. Len(s) \in Nat /\ DOMAIN s = 1..Len(s) /\ DOMAIN Append(s, e) = 1..(Len(s) + 1)
    BY <1>1, LenProperties
<1> QED
    BY <1>1, <1>2 DEF Range, IsInjective

LEMMA InjectiveTail ==
    ASSUME NEW S, NEW s \in Seq(S), s # <<>>, IsInjective(s)
    PROVE  /\ IsInjective(Tail(s)) /\ Head(s) \notin Range(Tail(s))
           /\ Range(s) = Range(Tail(s)) \cup {Head(s)}
<1>1. /\ Tail(s) \in Seq(S) /\ Len(Tail(s)) = Len(s) - 1 /\ Head(s) = s[1]
      /\ \A i \in 1..Len(Tail(s)) : Tail(s)[i] = s[i + 1]
    BY HeadTailProperties
<1>2. Len(s) \in Nat \ {0} /\ DOMAIN s = 1..Len(s) /\ DOMAIN Tail(s) = 1..(Len(s) - 1)
    BY <1>1, LenProperties, EmptySeq
<1>3. IsInjective(Tail(s))
    <2> SUFFICES ASSUME NEW i \in DOMAIN Tail(s), NEW j \in DOMAIN Tail(s), Tail(s)[i] = Tail(s)[j]
                 PROVE  i = j
        BY DEF IsInjective
    <2>1. i + 1 \in DOMAIN s /\ j + 1 \in DOMAIN s /\ s[i + 1] = s[j + 1]
        BY <1>1, <1>2
    <2>2. i + 1 = j + 1
        BY <2>1 DEF IsInjective
    <2> QED
        BY <1>2, <2>2
<1>4. ASSUME NEW i \in DOMAIN Tail(s), Tail(s)[i] = Head(s) PROVE FALSE
    <2>1. i + 1 \in DOMAIN s /\ 1 \in DOMAIN s /\ s[i + 1] = s[1]
        BY <1>1, <1>2, <1>4
    <2>2. i + 1 = 1
        BY <2>1 DEF IsInjective
    <2> QED
        BY <1>2, <2>2
<1>5. \A i \in DOMAIN s : i = 1 \/ (i - 1 \in DOMAIN Tail(s) /\ Tail(s)[i - 1] = s[i])
    BY <1>1, <1>2
<1>6. Range(s) \subseteq Range(Tail(s)) \cup {Head(s)}
    BY <1>1, <1>5 DEF Range
<1>7. Range(Tail(s)) \cup {Head(s)} \subseteq Range(s)
    BY Ends
<1> QED
    BY <1>3, <1>4, <1>6, <1>7 DEF Range

LEMMA Partials ==
    ASSUME NEW S
    PROVE  \A f : f \in Partial(S) <=> DOMAIN f \subseteq Keys /\ f \in [DOMAIN f -> S]
BY DEF Partial

----------------------------------------------------------------------------
(* Documents.                                                              *)

\* Nothing outside a smaller set is lost.
LEMMA Fewer ==
    ASSUME NEW doc, NEW lost, NEW less, less \subseteq lost, Sound(doc, lost)
    PROVE  Sound(doc, less)
BY DEF Sound, Spared

LEMMA RecordedDoc ==
    ASSUME NEW doc \in Documents, NEW t \in Transactions, NEW lost
    PROVE  /\ Recorded(doc, t) \in Documents
           /\ Recorded(doc, t).entries = doc.entries
           /\ Sound(doc, lost) /\ (~t.disturbed => Spared(t.changes, lost)) => Sound(Recorded(doc, t), lost)
<1> DEFINE s == Append(doc.undo, t)
           u == IF Len(s) > MaxSteps THEN Tail(s) ELSE s
<1>1. doc.undo \in Seq(Transactions) /\ doc.redo \in Seq(Transactions)
    BY DEF Documents
<1>2. s \in Seq(Transactions) /\ s # <<>> /\ Range(s) = Range(doc.undo) \cup {t}
    BY <1>1, Longer
<1>3. u \in Seq(Transactions) /\ Range(u) \subseteq Range(doc.undo) \cup {t}
    BY <1>2, Ends
<1>4. Recorded(doc, t) = [doc EXCEPT !.undo = u, !.redo = <<>>]
    BY DEF Recorded
<1> HIDE DEF s, u
<1>5. Recorded(doc, t) = [entries |-> doc.entries, undo |-> u, redo |-> <<>>]
    BY <1>4 DEF Documents
<1>6. <<>> \in Seq(Transactions) /\ Range(<<>>) = {}
    BY EmptySeq DEF Range
<1>7. Recorded(doc, t) \in Documents
    BY <1>3, <1>5, <1>6 DEF Documents
<1>8. Steps(Recorded(doc, t)) \subseteq Steps(doc) \cup {t}
    BY <1>3, <1>5, <1>6 DEF Steps
<1> QED
    BY <1>5, <1>7, <1>8 DEF Sound

LEMMA WithoutDoc ==
    ASSUME NEW doc \in Documents, NEW K \in SUBSET Keys, NEW lost, None \notin lost
    PROVE  /\ Without(doc, K) \in Documents
           /\ Sound(doc, lost) => Sound(Without(doc, K), lost)
<1> DEFINE less == [doc EXCEPT !.entries = [k \in Keys |-> IF k \in K THEN None ELSE @[k]]]
           t == [changes |-> [k \in K |-> [before |-> doc.entries[k], after |-> None]],
                 disturbed |-> FALSE]
<1>1. doc.entries \in [Keys -> Sources \cup {None}]
    BY DEF Documents
<1>2. less = [entries |-> [k \in Keys |-> IF k \in K THEN None ELSE doc.entries[k]],
              undo |-> doc.undo, redo |-> doc.redo]
    BY DEF Documents
<1>3. less \in Documents
    BY <1>1, <1>2 DEF Documents
<1>4. t \in Transactions
    <2>1. t.changes \in Partial([before : Sources \cup {None}, after : Sources \cup {None}])
        BY <1>1, Partials
    <2> QED
        BY <2>1 DEF Transactions
<1>5. Without(doc, K) = Recorded(less, t)
    BY DEF Without
<1>6. ASSUME Sound(doc, lost) PROVE Sound(less, lost) /\ Spared(t.changes, lost)
    BY <1>2, <1>6 DEF Sound, Steps, Spared
<1> HIDE DEF less, t
<1> QED
    BY <1>3, <1>4, <1>5, <1>6, RecordedDoc

LEMMA OpenedDoc ==
    ASSUME NEW K, NEW lost, None \notin lost, Own \notin lost
    PROVE  Opened(K) \in Documents /\ Sound(Opened(K), lost)
<1>1. <<>> \in Seq(Transactions) /\ Range(<<>>) = {}
    BY EmptySeq DEF Range
<1>2. Opened(K) \in Documents
    BY <1>1 DEF Opened, Documents, Sources
<1>3. Steps(Opened(K)) = {}
    BY <1>1 DEF Steps, Opened
<1> QED
    BY <1>2, <1>3 DEF Sound, Opened

\* Undo and Redo bring back what can be read, and move one transaction.
LEMMA RevisedDoc ==
    ASSUME NEW doc \in Documents, NEW data \in Partial(Sources \cup {None}),
           NEW undo \in Seq(Transactions), NEW redo \in Seq(Transactions), NEW lost,
           Range(undo) \cup Range(redo) \subseteq Steps(doc),
           \A k \in DOMAIN data : data[k] \notin lost
    PROVE  LET new == [entries |-> Revised(doc, data), undo |-> undo, redo |-> redo] IN
           new \in Documents /\ (Sound(doc, lost) => Sound(new, lost))
<1> DEFINE new == [entries |-> Revised(doc, data), undo |-> undo, redo |-> redo]
<1>1. doc.entries \in [Keys -> Sources \cup {None}]
    BY DEF Documents
<1>2. DOMAIN data \subseteq Keys /\ data \in [DOMAIN data -> Sources \cup {None}]
    BY Partials
<1>3. Revised(doc, data) \in [Keys -> Sources \cup {None}]
    BY <1>1, <1>2 DEF Revised
<1>4. new \in Documents
    BY <1>3 DEF Documents
<1>5. Steps(new) \subseteq Steps(doc)
    BY DEF Steps
<1>6. ASSUME Sound(doc, lost) PROVE \A k \in Keys : new.entries[k] \notin lost
    BY <1>6 DEF Revised, Sound
<1> HIDE DEF new
<1>7. Sound(doc, lost) => Sound(new, lost)
    BY <1>5, <1>6 DEF Sound
<1> QED
    BY <1>4, <1>7 DEF new

----------------------------------------------------------------------------
(* The parts of the invariant: the directories, the documents, the import. *)

DocsTyped ==
    /\ tabs \in [DOMAIN tabs -> Documents] /\ DOMAIN tabs \subseteq Tabs
    /\ live \in Documents
    /\ shown \in IF DOMAIN tabs = {} THEN {None} ELSE DOMAIN tabs
Purposes == [purpose : {"clipboard", "drag"}, keys : SUBSET Keys, from : Tabs]
DirsTyped ==
    /\ staged \in Seq(Purposes) /\ Len(staged) <= MaxStaged
    /\ files \subseteq DOMAIN staged /\ clipboard \in DOMAIN staged \cup {None}
    /\ retained \in Seq(DOMAIN staged) /\ IsInjective(retained)
    /\ clips \cap (drags \cup Range(retained)) = {} /\ drags \cap Range(retained) = {}
    /\ files = clips \cup drags \cup Range(retained)
Shelves == DirsTyped /\ Listed /\ Newest
Docs == DocsTyped /\ AllSound
Import == batch \in Batches \cup {None} /\ Importing
Good == Shelves /\ Docs /\ Import

LEMMA Parts == IInv <=> Good /\ turns \in 0..MaxTurns
BY DEF IInv, TypeOK, Good, Shelves, Docs, Import, DocsTyped, DirsTyped, Purposes

LEMMA GoodIs == Good => DocsTyped /\ DirsTyped /\ Listed /\ Newest /\ AllSound /\ Importing /\ Import
BY DEF Good, Shelves, Docs, Import

----------------------------------------------------------------------------
(* The import.                                                             *)

Items == [dir : Dirs, key : Keys]

LEMMA AddedBatch ==
    ASSUME NEW b \in Batches, NEW doc \in Documents, NEW item \in Items, NEW lost
    PROVE  LET a == Added(b, doc, item) IN
           /\ a.doc \in Documents /\ a.batch \in Batches
           /\ a.batch.queue = b.queue /\ a.batch.question = b.question
           /\ item.dir \notin lost /\ Sound(doc, lost) => Sound(a.doc, lost)
           /\ item.dir \notin lost /\ Sound(doc, lost) /\ Undisturbed(b, lost)
                 => Undisturbed(a.batch, lost)
<1> DEFINE k == item.key
           before == IF k \in DOMAIN b.changes THEN b.changes[k].before ELSE doc.entries[k]
           change == [before |-> before, after |-> item.dir]
           changes == With(b.changes, k, change)
           new == [doc EXCEPT !.entries[k] = item.dir]
           batch1 == [b EXCEPT !.changes = changes]
           C == [before : Sources \cup {None}, after : Dirs]
<1>1. Added(b, doc, item) = [doc |-> new, batch |-> batch1]
    BY DEF Added
<1>2. k \in Keys /\ item.dir \in Dirs /\ item.dir \in Sources
    BY DEF Items, Sources
<1>3. doc.entries \in [Keys -> Sources \cup {None}]
    BY DEF Documents
<1>4. new = [entries |-> [doc.entries EXCEPT ![k] = item.dir], undo |-> doc.undo, redo |-> doc.redo]
    <2>1. doc = [entries |-> doc.entries, undo |-> doc.undo, redo |-> doc.redo]
        BY DEF Documents
    <2> QED
        BY <2>1
<1>5. new \in Documents
    BY <1>2, <1>3, <1>4 DEF Documents
<1>6. DOMAIN b.changes \subseteq Keys /\ b.changes \in [DOMAIN b.changes -> C]
    BY Partials DEF Batches
<1>7. change \in C
    BY <1>2, <1>3, <1>6
<1>8. changes \in Partial(C)
    <2>1. DOMAIN changes = DOMAIN b.changes \cup {k}
        BY DEF With
    <2>2. changes \in [DOMAIN changes -> C]
        BY <1>6, <1>7, <2>1 DEF With
    <2> QED
        BY <1>2, <1>6, <2>1, <2>2, Partials
<1>9. batch1 = [queue |-> b.queue, question |-> b.question, policy |-> b.policy,
                changes |-> changes, disturbed |-> b.disturbed]
    BY DEF Batches
<1>10. batch1 \in Batches
    BY <1>8, <1>9 DEF Batches
<1>11. ASSUME item.dir \notin lost, Sound(doc, lost) PROVE Sound(new, lost)
    <2>1. \A j \in Keys : new.entries[j] \notin lost
        BY <1>3, <1>4, <1>11 DEF Sound
    <2>2. Steps(new) = Steps(doc)
        BY <1>4 DEF Steps
    <2> QED
        BY <1>11, <2>1, <2>2 DEF Sound
<1>12. ASSUME item.dir \notin lost, Sound(doc, lost), Undisturbed(b, lost)
       PROVE  Undisturbed(batch1, lost)
    <2>1. ASSUME ~b.disturbed PROVE Spared(changes, lost)
        <3>1. before \notin lost
            BY <1>2, <1>12, <2>1 DEF Undisturbed, Spared, Sound
        <3> QED
            BY <1>12, <2>1, <3>1 DEF Undisturbed, Spared, With
    <2> QED
        BY <1>9, <1>12, <2>1 DEF Undisturbed
<1> HIDE DEF new, batch1
<1> QED
    BY <1>1, <1>5, <1>9, <1>10, <1>11, <1>12

\* An import goes on or is recorded.
LEMMA Goes ==
    ASSUME NEW b \in Batches, NEW doc \in Documents, NEW lost,
           Sound(doc, lost), Undisturbed(b, lost), Continues([batch |-> b, doc |-> doc])
    PROVE  /\ live' \in Documents /\ Sound(live', lost) /\ batch' \in Batches \cup {None}
           /\ batch' # None => /\ Undisturbed(batch', lost)
                               /\ batch'.question = None => batch'.queue # <<>>
<1> DEFINE done == b.question = None /\ b.queue = <<>>
           t == [changes |-> b.changes, disturbed |-> b.disturbed]
<1>1. t \in Transactions
    <2>1. b.changes \in Partial([before : Sources \cup {None}, after : Dirs])
        BY DEF Batches
    <2>2. DOMAIN b.changes \subseteq Keys
          /\ b.changes \in [DOMAIN b.changes -> [before : Sources \cup {None}, after : Dirs]]
        BY <2>1, Partials
    <2>3. b.changes \in [DOMAIN b.changes -> [before : Sources \cup {None}, after : Sources \cup {None}]]
        BY <2>2 DEF Sources
    <2>4. b.changes \in Partial([before : Sources \cup {None}, after : Sources \cup {None}])
        BY <2>2, <2>3, Partials
    <2>5. b.disturbed \in BOOLEAN
        BY DEF Batches
    <2> QED
        BY <2>4, <2>5 DEF Transactions
<1>2. ~t.disturbed => Spared(t.changes, lost)
    BY DEF Undisturbed
<1>3. Recorded(doc, t) \in Documents /\ Sound(Recorded(doc, t), lost)
    BY <1>1, <1>2, RecordedDoc
<1>4. live' \in {doc, Recorded(doc, t)} /\ batch' = IF done THEN None ELSE b
    BY DEF Continues
<1> QED
    BY <1>3, <1>4

\* The fields of an import.
LEMMA Fields ==
    ASSUME NEW b \in Batches, NEW q, NEW i, NEW p
    PROVE  /\ [b EXCEPT !.queue = q] = [queue |-> q, question |-> b.question, policy |-> b.policy,
                                       changes |-> b.changes, disturbed |-> b.disturbed]
           /\ [b EXCEPT !.question = i] = [queue |-> b.queue, question |-> i, policy |-> b.policy,
                                          changes |-> b.changes, disturbed |-> b.disturbed]
           /\ [b EXCEPT !.question = i, !.policy = p]
                 = [queue |-> b.queue, question |-> i, policy |-> p,
                    changes |-> b.changes, disturbed |-> b.disturbed]
<1>1. [b EXCEPT !.queue = q] = [queue |-> q, question |-> b.question, policy |-> b.policy,
                                changes |-> b.changes, disturbed |-> b.disturbed]
    BY DEF Batches
<1> DEFINE asked == [b EXCEPT !.question = i]
<1>2. asked = [queue |-> b.queue, question |-> i, policy |-> b.policy,
               changes |-> b.changes, disturbed |-> b.disturbed]
    BY DEF Batches
<1>3. [b EXCEPT !.question = i, !.policy = p] = [asked EXCEPT !.policy = p]
    OBVIOUS
<1> HIDE DEF asked
<1>4. [asked EXCEPT !.policy = p] = [queue |-> b.queue, question |-> i, policy |-> p,
                                     changes |-> b.changes, disturbed |-> b.disturbed]
    BY ONLY <1>2
<1>5. [b EXCEPT !.question = i, !.policy = p]
          = [queue |-> b.queue, question |-> i, policy |-> p,
             changes |-> b.changes, disturbed |-> b.disturbed]
    BY ONLY <1>3, <1>4
<1> QED
    BY <1>1, <1>2, <1>5 DEF asked

\* The next file is taken, if it is there.
LEMMA RoundGoes ==
    ASSUME Good, batch # None, ~Asked
    PROVE  LET r == Round(batch, live) IN
           /\ r = [batch |-> r.batch, doc |-> r.doc]
           /\ r.batch \in Batches /\ r.doc \in Documents
           /\ Sound(r.doc, Lost) /\ Undisturbed(r.batch, Lost)
<1> DEFINE b == batch
           item == Head(b.queue)
           rest == [b EXCEPT !.queue = Tail(@)]
           asks == [rest EXCEPT !.question = item]
           new == item.key \notin Present(live)
<1>1. b \in Batches /\ b.question = None /\ live \in Documents /\ Sound(live, Lost) /\ Undisturbed(b, Lost)
    BY DEF Good, Docs, Import, DocsTyped, Asked, Importing, AllSound
<1>2. b.queue \in Seq(Items) /\ b.queue # <<>>
    BY <1>1, GoodIs DEF Importing, Batches, Items
<1>3. item \in Items /\ Tail(b.queue) \in Seq(Items)
    BY <1>2, HeadTailProperties
<1>4. rest = [queue |-> Tail(b.queue), question |-> b.question, policy |-> b.policy,
              changes |-> b.changes, disturbed |-> b.disturbed]
    <2>1. rest = [b EXCEPT !.queue = Tail(b.queue)]
        OBVIOUS
    <2> QED
        BY ONLY <1>1, <2>1, Fields
<1>5. rest \in Batches
    BY <1>1, <1>3, <1>4 DEF Batches, Items
<1>6. asks = [queue |-> Tail(b.queue), question |-> item, policy |-> b.policy,
              changes |-> b.changes, disturbed |-> b.disturbed] /\ asks \in Batches
    <2> HIDE DEF rest, item, b
    <2>1. asks = [queue |-> rest.queue, question |-> item, policy |-> rest.policy,
                  changes |-> rest.changes, disturbed |-> rest.disturbed]
        BY <1>5, Fields
    <2>2. asks = [queue |-> Tail(b.queue), question |-> item, policy |-> b.policy,
                  changes |-> b.changes, disturbed |-> b.disturbed]
        BY <1>4, <2>1
    <2> QED
        BY <1>1, <1>3, <2>2 DEF Batches, Items
<1>7. Undisturbed(rest, Lost)
    BY <1>1, <1>4 DEF Undisturbed
<1>8. item.dir \in files => item.dir \notin Lost /\ Undisturbed(asks, Lost)
    BY <1>1, <1>6 DEF Undisturbed, Lost
<1>9. b.policy \in {"ask", "replace", "skip"}
    BY <1>1 DEF Batches
<1>10. Round(batch, live) =
           CASE item.dir \notin files \/ (~new /\ b.policy = "skip") -> [batch |-> rest, doc |-> live]
             [] item.dir \in files /\ ~new /\ b.policy = "ask" -> [batch |-> asks, doc |-> live]
             [] item.dir \in files /\ (new \/ b.policy = "replace") -> Added(rest, live, item)
    BY DEF Round
<1>11. \/ Round(batch, live) = [batch |-> rest, doc |-> live]
       \/ item.dir \in files /\ Round(batch, live) = [batch |-> asks, doc |-> live]
       \/ item.dir \in files /\ Round(batch, live) = Added(rest, live, item)
    BY <1>9, <1>10
<1>12. Added(rest, live, item) = [batch |-> Added(rest, live, item).batch, doc |-> Added(rest, live, item).doc]
    BY DEF Added
<1> HIDE DEF rest, asks, item, b
<1>13. CASE Round(batch, live) = [batch |-> rest, doc |-> live]
    BY <1>1, <1>5, <1>7, <1>13
<1>14. CASE item.dir \in files /\ Round(batch, live) = [batch |-> asks, doc |-> live]
    BY <1>1, <1>6, <1>8, <1>14
<1>15. CASE item.dir \in files /\ Round(batch, live) = Added(rest, live, item)
    <2>1. /\ Added(rest, live, item).doc \in Documents /\ Added(rest, live, item).batch \in Batches
          /\ Sound(Added(rest, live, item).doc, Lost) /\ Undisturbed(Added(rest, live, item).batch, Lost)
        BY <1>1, <1>3, <1>5, <1>7, <1>8, <1>15, AddedBatch
    <2> QED
        BY <1>12, <1>15, <2>1
<1> QED
    BY <1>11, <1>13, <1>14, <1>15

\* Files that join an import.
LEMMA Joining ==
    ASSUME Good, NEW d \in files, ~Asked, AddPaths(d)
    PROVE  /\ batch' \in Batches
           /\ Undisturbed(batch', Lost) /\ batch'.queue # <<>>
<1> DEFINE K == staged[d].keys
           old == IF batch = None THEN NewBatch ELSE batch
<1>1. PICK paths \in SetToSeqs(Files(d)) : batch' = [old EXCEPT !.queue = @ \o paths]
    BY DEF AddPaths
<1>2. d \in DOMAIN staged /\ d \in Dirs /\ K \in SUBSET Keys /\ K # {}
    <2>1. d \in DOMAIN staged /\ K # {}
        BY GoodIs DEF DirsTyped, Listed
    <2>2. /\ DOMAIN staged = 1..Len(staged) /\ Len(staged) \in Nat /\ Len(staged) <= MaxStaged
          /\ staged[d] \in Purposes
        <3>1. staged \in Seq(Purposes) /\ Len(staged) <= MaxStaged
            BY GoodIs DEF DirsTyped
        <3>2. DOMAIN staged = 1..Len(staged) /\ Len(staged) \in Nat
            BY <3>1, LenProperties
        <3> QED
            BY <2>1, <3>1, <3>2, ElementOfSeq
    <2>3. d \in Dirs
        BY <2>1, <2>2, StagingAssumption DEF Dirs
    <2> QED
        BY <2>1, <2>2, <2>3 DEF Purposes
<1>3. IsFiniteSet(Files(d)) /\ Files(d) \subseteq Items /\ Files(d) # {}
    <2>1. IsFiniteSet(K)
        BY <1>2, StagingAssumption, FS_Subset
    <2>2. Files(d) = {[dir |-> d, key |-> k] : k \in K}
        BY DEF Files
    <2>3. IsFiniteSet(Files(d))
        <3> DEFINE f == [k \in K |-> [dir |-> d, key |-> k]]
        <3>1. f \in Surjection(K, Files(d))
            BY <2>2 DEF Surjection
        <3> QED
            BY <2>1, <3>1, FS_Surjection DEF ExistsSurjection
    <2>4. Files(d) \subseteq Items
        BY <1>2, <2>2 DEF Items
    <2>5. PICK k \in K : TRUE
        BY <1>2
    <2>6. [dir |-> d, key |-> k] \in Files(d)
        BY <2>2, <2>5
    <2> QED
        BY <2>3, <2>4, <2>6
<1>4. Cardinality(Files(d)) \in Nat \ {0}
    BY <1>3, FS_CardinalityType, FS_EmptySet
<1>5. paths \in [1..Cardinality(Files(d)) -> Files(d)]
    BY <1>1 DEF SetToSeqs
<1>6. paths \in Seq(Items) /\ paths # <<>>
    <2>1. paths \in [1..Cardinality(Files(d)) -> Items]
        BY <1>3, <1>5
    <2>2. paths \in Seq(Items)
        BY <1>4, <2>1, SeqDef
    <2>3. Len(paths) # 0
        BY <1>4, <2>1, <2>2, LenProperties
    <2> QED
        BY <2>2, <2>3, EmptySeq
<1>7. old \in Batches /\ Undisturbed(old, Lost)
    <2>1. CASE batch = None
        <3>1. NewBatch.changes \in Partial([before : Sources \cup {None}, after : Dirs])
            <4>1. <<>> \in [{} -> [before : Sources \cup {None}, after : Dirs]]
                OBVIOUS
            <4> QED
                BY <4>1 DEF NewBatch, Partial
        <3>2. <<>> \in Seq(Items)
            BY EmptySeq
        <3>3. old = NewBatch
            BY <2>1
        <3>4. NewBatch \in Batches
            BY <3>1, <3>2 DEF NewBatch, Batches, Items
        <3>5. Undisturbed(NewBatch, Lost)
            <4>1. DOMAIN NewBatch.changes = {}
                BY DEF NewBatch
            <4> QED
                BY <4>1 DEF Undisturbed, Spared, NewBatch
        <3> QED
            BY <3>3, <3>4, <3>5
    <2>2. CASE batch # None
        BY <2>2, GoodIs DEF Import, Importing
    <2> QED
        BY <2>1, <2>2
<1>8. old.queue \in Seq(Items) /\ old.queue \o paths \in Seq(Items) /\ old.queue \o paths # <<>>
    <2>1. old.queue \in Seq(Items)
        BY <1>7 DEF Batches, Items
    <2>2. /\ old.queue \o paths \in Seq(Items)
          /\ Len(old.queue \o paths) = Len(old.queue) + Len(paths)
          /\ Len(old.queue) \in Nat /\ Len(paths) \in Nat \ {0}
        BY <1>6, <2>1, ConcatProperties, LenProperties, EmptySeq
    <2>3. Len(old.queue \o paths) # 0
        BY <2>2
    <2> QED
        BY <2>1, <2>2, <2>3, EmptySeq
<1>9. batch' = [queue |-> old.queue \o paths, question |-> old.question, policy |-> old.policy,
                changes |-> old.changes, disturbed |-> old.disturbed]
    BY <1>1, <1>7 DEF Batches
<1> HIDE DEF old
<1>10. batch' \in Batches
    BY <1>7, <1>8, <1>9 DEF Batches, Items
<1> QED
    BY <1>7, <1>8, <1>9, <1>10 DEF Undisturbed

----------------------------------------------------------------------------
(* Pruning.                                                                *)

\* What a document names is not pruned.
LEMMA NotPruned ==
    ASSUME NEW doc \in Documents, NEW gone, NEW lost, {None, Own} \cap gone = {},
           \A d \in gone : ~Refers(doc, d), Sound(doc, lost)
    PROVE  Sound(doc, lost \cup gone)
<1>1. doc.entries \in [Keys -> Sources \cup {None}]
    BY DEF Documents
<1>2. ASSUME NEW k \in Keys PROVE doc.entries[k] \notin gone
    <2>1. doc.entries[k] \in Range(doc.entries)
        BY <1>1 DEF Range
    <2> QED
        BY <2>1 DEF Refers, InEntries
<1>3. ASSUME NEW s \in Steps(doc), NEW k \in DOMAIN s.changes
      PROVE  s.changes[k].before \notin gone /\ s.changes[k].after \notin gone
    <2>1. s.changes[k].before \in InTransaction(s) /\ s.changes[k].after \in InTransaction(s)
        BY DEF InTransaction
    <2>2. InTransaction(s) \ {Own, None} \subseteq InHistory(doc)
        <3>1. InTransaction(s) \in {InTransaction(t) : t \in Range(doc.undo) \cup Range(doc.redo)}
            BY DEF Steps
        <3>2. InTransaction(s)
                  \subseteq UNION {InTransaction(t) : t \in Range(doc.undo) \cup Range(doc.redo)}
            BY ONLY <3>1, Zenon
        <3> QED
            BY ONLY <3>2 DEF InHistory
    <2> QED
        BY <2>1, <2>2 DEF Refers
<1> QED
    BY <1>2, <1>3 DEF Sound, Spared

\* An import without a question keeps its state, if nothing is pruned, or is
\* disturbed.
LEMMA ImportPruned ==
    ASSUME Good, ~Asked, NEW gone, NEW lost, lost \subseteq Lost \cup gone,
           batch' = IF batch # None /\ gone # {} THEN [batch EXCEPT !.disturbed = TRUE] ELSE batch
    PROVE  /\ batch' \in Batches \cup {None}
           /\ batch' # None => /\ Undisturbed(batch', lost)
                               /\ batch'.question = None => batch'.queue # <<>>
<1>1. CASE batch = None
    BY <1>1
<1>2. CASE batch # None /\ gone = {}
    BY <1>2, GoodIs DEF Import, Importing, Undisturbed, Spared
<1>3. CASE batch # None /\ gone # {}
    <2>1. batch \in Batches /\ batch.question = None /\ batch.queue # <<>>
        BY <1>3, GoodIs DEF Import, Importing, Asked
    <2>2. batch' = [queue |-> batch.queue, question |-> batch.question, policy |-> batch.policy,
                    changes |-> batch.changes, disturbed |-> TRUE]
        BY <1>3, <2>1 DEF Batches
    <2>3. batch' \in Batches
        BY <2>1, <2>2 DEF Batches
    <2> QED
        BY <2>1, <2>2, <2>3 DEF Undisturbed
<1> QED
    BY <1>1, <1>2, <1>3

----------------------------------------------------------------------------
(* What steps may leave alone.                                             *)

\* Directories are numbers.
LEMMA Numbers ==
    ASSUME DirsTyped
    PROVE  /\ DOMAIN staged = 1..Len(staged) /\ Len(staged) \in Nat
           /\ Exports \subseteq DOMAIN staged /\ None \notin Lost /\ Own \notin Lost
<1>1. DOMAIN staged = 1..Len(staged) /\ Len(staged) \in Nat
    BY LenProperties DEF DirsTyped
<1> QED
    BY <1>1, StagingAssumption DEF Exports, Lost

\* The tabs after a sync are the current documents.
LEMMA SyncedSound ==
    ASSUME DocsTyped, AllSound
    PROVE  /\ Synced \in [DOMAIN tabs -> Documents]
           /\ \A t \in DOMAIN tabs : Sound(Synced[t], Lost) /\ (t # shown => Synced[t] = tabs[t])
           /\ shown # None => Synced[shown] = live /\ shown \in DOMAIN tabs
           /\ shown = None => DOMAIN tabs = {}
<1>1. (shown = None <=> DOMAIN tabs = {}) /\ (shown # None => shown \in DOMAIN tabs)
    BY StagingAssumption DEF DocsTyped
<1>2. CASE shown = None
    BY <1>1, <1>2 DEF Synced, DocsTyped
<1>3. CASE shown # None
    BY <1>1, <1>3 DEF Synced, DocsTyped, AllSound
<1> QED
    BY <1>1, <1>2, <1>3

\* Steps that leave a part alone.
LEMMA SameShelves ==
    ASSUME Shelves, UNCHANGED <<staged, files, clips, clipboard, drags, retained>>
    PROVE  Shelves' /\ Lost' = Lost
BY DEF Shelves, DirsTyped, Listed, Newest, Lost, Exports

LEMMA SameDocs ==
    ASSUME Docs, UNCHANGED <<shown, live, tabs>>, Lost' \subseteq Lost
    PROVE  Docs'
BY Fewer DEF Docs, DocsTyped, AllSound

LEMMA NewLive ==
    ASSUME Docs, UNCHANGED <<shown, tabs>>, Lost' \subseteq Lost,
           live' \in Documents, Sound(live', Lost)
    PROVE  Docs'
<1>1. Sound(live', Lost')
    BY Fewer
<1>2. \A t \in DOMAIN tabs \ {shown} : Sound(tabs[t], Lost')
    BY Fewer DEF Docs, AllSound
<1> QED
    BY <1>1, <1>2 DEF Docs, DocsTyped, AllSound

LEMMA SameImport ==
    ASSUME Import, batch' = batch, Lost' \subseteq Lost
    PROVE  Import'
BY DEF Import, Importing, Undisturbed, Spared

----------------------------------------------------------------------------
(* The directories.                                                        *)

\* A new directory.
LEMMA StagedMore ==
    ASSUME Good, NEW purpose \in {"clipboard", "drag"}, NEW K \in SUBSET Keys, K # {},
           shown # None, Staged(purpose, K)
    PROVE  /\ staged' \in Seq(Purposes) /\ Len(staged') <= MaxStaged
           /\ NewDir \in Nat /\ NewDir \notin DOMAIN staged /\ \A d \in DOMAIN staged : d <= NewDir
           /\ DOMAIN staged' = DOMAIN staged \cup {NewDir}
           /\ \A d \in DOMAIN staged' : staged'[d].keys # {}
           /\ Exports' = IF purpose = "clipboard" THEN Exports \cup {NewDir} ELSE Exports
           /\ retained \in Seq(DOMAIN staged')
<1> DEFINE new == [purpose |-> purpose, keys |-> K, from |-> shown]
<1>1. DOMAIN staged = 1..Len(staged) /\ Len(staged) \in Nat /\ staged \in Seq(Purposes)
      /\ retained \in Seq(DOMAIN staged)
    BY GoodIs, Numbers DEF DirsTyped
<1>2. shown \in Tabs
    BY GoodIs, SyncedSound DEF DocsTyped
<1>3. new \in Purposes
    BY <1>2 DEF Purposes
<1>4. staged' = Append(staged, new) /\ Len(staged) < MaxStaged
    BY DEF Staged
<1>5. /\ staged' \in Seq(Purposes) /\ Len(staged') = Len(staged) + 1
      /\ \A d \in 1..Len(staged) : staged'[d] = staged[d]
      /\ staged'[NewDir] = new
    BY <1>1, <1>3, <1>4, AppendProperties DEF NewDir
<1>6. DOMAIN staged' = 1..(Len(staged) + 1)
    BY <1>5, LenProperties
<1>7. DOMAIN staged' = DOMAIN staged \cup {NewDir} /\ NewDir \notin DOMAIN staged /\ NewDir \in Nat
      /\ \A d \in DOMAIN staged : d <= NewDir
    BY <1>1, <1>6 DEF NewDir
<1>8. Len(staged') <= MaxStaged
    BY <1>1, <1>4, <1>5, StagingAssumption
<1>9. \A d \in DOMAIN staged' : staged'[d].keys # {}
    BY <1>1, <1>5, <1>7, GoodIs DEF Listed
<1>10. Exports' = IF purpose = "clipboard" THEN Exports \cup {NewDir} ELSE Exports
    BY <1>1, <1>5, <1>7 DEF Exports
<1>11. retained \in Seq(DOMAIN staged')
    BY <1>1, <1>7, SeqMonotonic
<1> QED
    BY <1>5, <1>7, <1>8, <1>9, <1>10, <1>11

\* Pruning when nothing new was exported: Save and Close.
LEMMA PruneShelves ==
    ASSUME Good, NEW gone \in SUBSET clips, clips' = clips \ gone, files' = files \ gone,
           \A d \in clips : IsNewest(d, clips) => d \notin gone,
           UNCHANGED <<staged, clipboard, drags, retained>>
    PROVE  Shelves' /\ Lost' \subseteq Lost \cup gone
<1>1. DirsTyped'
    BY GoodIs DEF DirsTyped
<1>2. Exports' = Exports
    BY DEF Exports
<1>3. Listed'
    BY <1>2, GoodIs DEF Listed
<1>4. Newest'
    BY GoodIs DEF Newest, IsNewest
<1>5. Lost' \subseteq Lost \cup gone
    BY <1>2 DEF Lost
<1> QED
    BY <1>1, <1>3, <1>4, <1>5 DEF Shelves

\* A directory of a drag goes: no export is lost.
LEMMA DragGoes ==
    ASSUME Good, NEW d \in Dirs, DragEnds(d) \/ Expire
    PROVE  Shelves' /\ Lost' = Lost
<1>1. /\ UNCHANGED <<staged, clips, clipboard>> /\ DirsTyped /\ Listed /\ Newest
      /\ retained \in Seq(DOMAIN staged) /\ IsInjective(retained)
    BY GoodIs DEF DragEnds, Expire, DirsTyped
<1>2. Exports' = Exports
    BY <1>1 DEF Exports
<1>3. ASSUME retained' \in Seq(DOMAIN staged), IsInjective(retained'),
             drags' \cap Range(retained') = {}, NEW dead \in SUBSET (drags \cup Range(retained)),
             drags' \cup Range(retained') = (drags \cup Range(retained)) \ dead,
             files' = files \ dead
      PROVE  Shelves' /\ Lost' = Lost
    <2>1. DirsTyped'
        BY <1>1, <1>3 DEF DirsTyped
    <2>2. Listed'
        BY <1>1, <1>2, <1>3 DEF Listed
    <2>3. Newest'
        BY <1>1 DEF Newest
    <2>4. Lost' = Lost
        BY <1>1, <1>2, <1>3 DEF Lost, Listed
    <2> QED
        BY <2>1, <2>2, <2>3, <2>4 DEF Shelves
<1>4. CASE Expire
    <2>1. retained # <<>> /\ retained' = Tail(retained) /\ files' = files \ {Head(retained)} /\ drags' = drags
        BY <1>4 DEF Expire
    <2>2. /\ Tail(retained) \in Seq(DOMAIN staged) /\ IsInjective(Tail(retained))
          /\ Head(retained) \notin Range(Tail(retained))
          /\ Range(retained) = Range(Tail(retained)) \cup {Head(retained)}
        BY <1>1, <2>1, Ends, InjectiveTail
    <2>3. drags \cap Range(retained) = {}
        BY <1>1 DEF DirsTyped
    <2> QED
        BY <1>3, <2>1, <2>2, <2>3
<1>5. CASE DragEnds(d)
    <2> DEFINE kept == Append(retained, d)
    <2>1. /\ d \in drags /\ d \in DOMAIN staged /\ d \notin Range(retained) /\ drags' = drags \ {d}
          /\ drags \cap Range(retained) = {}
        BY <1>1, <1>5 DEF DragEnds, DirsTyped
    <2>2. /\ kept \in Seq(DOMAIN staged) /\ kept # <<>> /\ Range(kept) = Range(retained) \cup {d}
          /\ IsInjective(kept)
        BY <1>1, <2>1, Longer, InjectiveAppend
    <2>3. /\ Tail(kept) \in Seq(DOMAIN staged) /\ IsInjective(Tail(kept))
          /\ Head(kept) \notin Range(Tail(kept)) /\ Range(kept) = Range(Tail(kept)) \cup {Head(kept)}
        BY <2>2, Ends, InjectiveTail
    <2>4. \/ retained' = kept /\ files' = files
          \/ retained' = Tail(kept) /\ files' = files \ {Head(kept)}
          \/ retained' = retained /\ files' = files \ {d}
        BY <1>5 DEF DragEnds
    <2> HIDE DEF kept
    <2>5. CASE retained' = kept /\ files' = files
        BY <1>3, <2>1, <2>2, <2>5
    <2>6. CASE retained' = Tail(kept) /\ files' = files \ {Head(kept)}
        BY <1>3, <2>1, <2>2, <2>3, <2>6
    <2>7. CASE retained' = retained /\ files' = files \ {d}
        BY <1>1, <1>3, <2>1, <2>7
    <2> QED
        BY <2>4, <2>5, <2>6, <2>7
<1> QED
    BY <1>4, <1>5

----------------------------------------------------------------------------
(* The steps.                                                              *)

LEMMA CopyKeeps ==
    ASSUME Good, NEW K \in SUBSET Keys, NEW cut \in BOOLEAN, Copy(K, cut)
    PROVE  Good'
<1>1. /\ shown # None /\ ~Asked /\ K # {} /\ Staged("clipboard", K)
      /\ clipboard' = NewDir /\ UNCHANGED <<shown, tabs, drags, retained>>
      /\ live' = IF cut THEN Without(live, K) ELSE live
      /\ Prune(clips \cup {NewDir}, files \cup {NewDir}, live, tabs)
    BY DEF Copy, Unasked
<1>2. DocsTyped /\ DirsTyped /\ Listed /\ Newest /\ AllSound /\ Importing /\ Import
    BY GoodIs
<1>3. DOMAIN staged \subseteq Nat /\ Exports \subseteq DOMAIN staged /\ None \notin Lost /\ Own \notin Lost
    BY <1>2, Numbers
<1>4. /\ staged' \in Seq(Purposes) /\ Len(staged') <= MaxStaged
      /\ NewDir \in Nat /\ NewDir \notin DOMAIN staged /\ \A d \in DOMAIN staged : d <= NewDir
      /\ DOMAIN staged' = DOMAIN staged \cup {NewDir}
      /\ \A d \in DOMAIN staged' : staged'[d].keys # {}
      /\ Exports' = Exports \cup {NewDir}
      /\ retained \in Seq(DOMAIN staged')
    BY <1>1, StagedMore
<1>5. clips \cup {NewDir} \in SUBSET Nat
    BY <1>2, <1>3, <1>4 DEF Listed
<1> DEFINE gone == (clips \cup {NewDir}) \ Kept(clips \cup {NewDir}, live, tabs)
<1>6. /\ gone \in SUBSET (clips \cup {NewDir})
      /\ clips' = (clips \cup {NewDir}) \ gone /\ files' = (files \cup {NewDir}) \ gone
      /\ batch' = IF batch # None /\ gone # {} THEN [batch EXCEPT !.disturbed = TRUE] ELSE batch
      /\ {None, Own} \cap gone = {}
      /\ \A d \in gone : ~Refers(live, d)
      /\ \A d \in gone : \A t \in DOMAIN tabs : ~Refers(tabs[t], d)
      /\ \A d \in clips \cup {NewDir} : IsNewest(d, clips \cup {NewDir}) => d \notin gone
    <2>1. /\ clips' = (clips \cup {NewDir}) \ gone /\ files' = (files \cup {NewDir}) \ gone
          /\ batch' = IF batch # None /\ gone # {} THEN [batch EXCEPT !.disturbed = TRUE] ELSE batch
        BY <1>1 DEF Prune
    <2> HIDE DEF gone
    <2>2. gone = (clips \cup {NewDir}) \ Kept(clips \cup {NewDir}, live, tabs)
        BY DEF gone
    <2>3. \A d \in gone : /\ d \in clips \cup {NewDir} /\ ~IsNewest(d, clips \cup {NewDir})
                          /\ ~Refers(live, d)
                          /\ \A t \in DOMAIN tabs : ~Refers(tabs[t], d)
        BY <2>2 DEF Kept
    <2>4. {None, Own} \cap gone = {}
        BY <1>5, <2>3, StagingAssumption
    <2>5. /\ gone \in SUBSET (clips \cup {NewDir})
          /\ \A d \in gone : ~Refers(live, d)
          /\ \A d \in gone : \A t \in DOMAIN tabs : ~Refers(tabs[t], d)
          /\ \A d \in clips \cup {NewDir} : IsNewest(d, clips \cup {NewDir}) => d \notin gone
        BY <2>3
    <2> QED
        BY <2>1, <2>4, <2>5
<1> HIDE DEF gone
<1>7. Lost' \subseteq Lost \cup gone
    BY <1>4, <1>6 DEF Lost
<1>8. NewDir \notin gone /\ IsNewest(NewDir, clips')
    <2>1. clips \subseteq DOMAIN staged
        BY <1>2, <1>3 DEF Listed
    <2>2. IsNewest(NewDir, clips \cup {NewDir})
        BY <1>4, <2>1 DEF IsNewest
    <2> QED
        BY <1>6, <2>2 DEF IsNewest
<1>9. DirsTyped'
    <2>1. files \subseteq DOMAIN staged /\ files = clips \cup drags \cup Range(retained)
          /\ IsInjective(retained) /\ clips \cap (drags \cup Range(retained)) = {}
          /\ drags \cap Range(retained) = {}
        BY <1>2 DEF DirsTyped
    <2>2. NewDir \notin files
        BY <1>4, <2>1
    <2>3. files' \subseteq DOMAIN staged' /\ clipboard' \in DOMAIN staged' \cup {None}
        BY <1>1, <1>4, <1>6, <2>1
    <2>4. /\ clips' \cap (drags' \cup Range(retained')) = {} /\ drags' \cap Range(retained') = {}
          /\ files' = clips' \cup drags' \cup Range(retained')
        BY <1>1, <1>6, <2>1, <2>2
    <2> QED
        BY <1>1, <1>4, <2>1, <2>3, <2>4 DEF DirsTyped
<1>10. Listed'
    <2>1. (drags \cup Range(retained)) \subseteq DOMAIN staged
        BY <1>2 DEF DirsTyped
    <2> QED
        BY <1>1, <1>2, <1>4, <1>6, <2>1 DEF Listed
<1>11. Newest'
    BY <1>1, <1>6, <1>8 DEF Newest
<1>12. Sound(live, Lost') /\ live \in Documents
    <2>1. Sound(live, Lost \cup gone)
        BY <1>2, <1>6, NotPruned DEF DocsTyped, AllSound
    <2> QED
        BY <1>2, <1>7, <2>1, Fewer DEF DocsTyped
<1>13. ASSUME NEW t \in DOMAIN tabs \ {shown} PROVE Sound(tabs[t], Lost')
    <2>1. Sound(tabs[t], Lost \cup gone)
        BY <1>2, <1>6, NotPruned DEF DocsTyped, AllSound
    <2> QED
        BY <1>7, <2>1, Fewer
<1>14. live' \in Documents /\ Sound(live', Lost')
    <2>1. None \notin Lost'
        BY <1>3, <1>6, <1>7
    <2> QED
        BY <1>1, <1>12, <2>1, WithoutDoc
<1>15. Docs'
    BY <1>1, <1>2, <1>13, <1>14 DEF Docs, DocsTyped, AllSound
<1>16. Import'
    <2>2. /\ batch' \in Batches \cup {None}
          /\ batch' # None => /\ Undisturbed(batch', Lost')
                              /\ batch'.question = None => batch'.queue # <<>>
        BY <1>1, <1>2, <1>6, <1>7, ImportPruned
    <2> QED
        BY <2>2 DEF Import, Importing
<1> QED
    BY <1>9, <1>10, <1>11, <1>15, <1>16 DEF Good, Shelves

LEMMA DragKeeps ==
    ASSUME Good, NEW K \in SUBSET Keys, Drag(K)
    PROVE  Good'
<1>1. /\ shown # None /\ K # {} /\ Staged("drag", K)
      /\ files' = files \cup {NewDir} /\ drags' = drags \cup {NewDir}
      /\ UNCHANGED <<shown, live, tabs, clips, clipboard, retained, batch>>
    BY DEF Drag, Idle
<1>2. DocsTyped /\ DirsTyped /\ Listed /\ Newest /\ AllSound /\ Importing /\ Import
    BY GoodIs
<1>3. /\ staged' \in Seq(Purposes) /\ Len(staged') <= MaxStaged
      /\ NewDir \notin DOMAIN staged
      /\ DOMAIN staged' = DOMAIN staged \cup {NewDir}
      /\ \A d \in DOMAIN staged' : staged'[d].keys # {}
      /\ Exports' = Exports
      /\ retained \in Seq(DOMAIN staged')
    BY <1>1, StagedMore
<1>4. Exports \subseteq DOMAIN staged
    BY <1>2, Numbers
<1>5. Lost' \subseteq Lost
    BY <1>1, <1>3, <1>4 DEF Lost
<1>6. DirsTyped'
    <2>1. files \subseteq DOMAIN staged /\ files = clips \cup drags \cup Range(retained)
          /\ IsInjective(retained) /\ clips \cap (drags \cup Range(retained)) = {}
          /\ drags \cap Range(retained) = {} /\ clipboard \in DOMAIN staged \cup {None}
        BY <1>2 DEF DirsTyped
    <2>2. NewDir \notin files
        BY <1>3, <2>1
    <2>3. /\ clips' \cap (drags' \cup Range(retained')) = {} /\ drags' \cap Range(retained') = {}
          /\ files' = clips' \cup drags' \cup Range(retained')
          /\ files' \subseteq DOMAIN staged' /\ clipboard' \in DOMAIN staged' \cup {None}
        BY <1>1, <1>3, <2>1, <2>2
    <2> QED
        BY <1>1, <1>3, <2>1, <2>3 DEF DirsTyped
<1>7. Listed' /\ Newest'
    BY <1>1, <1>2, <1>3, <1>4 DEF Listed, Newest
<1>8. Docs' /\ Import'
    BY <1>1, <1>2, <1>5, SameDocs, SameImport DEF Good
<1> QED
    BY <1>6, <1>7, <1>8 DEF Good, Shelves

\* Editing the shown archive.
LEMMA EditKeeps ==
    ASSUME Good,
           \/ Undo \/ Redo \/ \E K \in SUBSET Keys : Delete(K)
    PROVE  Good'
<1>1. DocsTyped /\ DirsTyped /\ AllSound /\ Import /\ Docs /\ Shelves /\ None \notin Lost
    BY Numbers DEF Good, Shelves, Docs
<1>2. UNCHANGED <<shown, tabs, staged, files, clips, clipboard, drags, retained, batch>>
    BY DEF Undo, Redo, Delete
<1>3. Shelves' /\ Lost' = Lost /\ Import'
    BY <1>1, <1>2, SameShelves, SameImport
<1>4. live \in Documents /\ Sound(live, Lost)
    BY <1>1 DEF DocsTyped, AllSound
<1>5. live.undo \in Seq(Transactions) /\ live.redo \in Seq(Transactions)
    BY <1>4 DEF Documents
<1>6. \A source \in Sources \cup {None} : Readable(source) => source \notin Lost
    BY <1>1, Numbers DEF Readable, Lost
<1>7. \A t \in Transactions : /\ DOMAIN t.changes \subseteq Keys
                              /\ \A k \in DOMAIN t.changes : /\ t.changes[k].before \in Sources \cup {None}
                                                             /\ t.changes[k].after \in Sources \cup {None}
    <2> DEFINE C == [before : Sources \cup {None}, after : Sources \cup {None}]
    <2>1. ASSUME NEW t \in Transactions PROVE t.changes \in Partial(C)
        BY <2>1 DEF Transactions
    <2>2. \A t \in Transactions : DOMAIN t.changes \subseteq Keys /\ t.changes \in [DOMAIN t.changes -> C]
        BY ONLY <2>1, Partials
    <2> QED
        BY <2>2
<1>8. live' \in Documents /\ Sound(live', Lost)
    <2>1. CASE \E K \in SUBSET Keys : Delete(K)
        BY <1>1, <1>4, <2>1, WithoutDoc DEF Delete
    <2>2. CASE Undo
        <3> DEFINE t == Last(live.undo)
                   data == [k \in DOMAIN t.changes |-> t.changes[k].before]
                   undo1 == Front(live.undo)
                   redo1 == Append(live.redo, t)
        <3>1. live.undo # <<>> /\ (\A k \in DOMAIN data : Readable(data[k]))
              /\ live' = [entries |-> Revised(live, data), undo |-> undo1, redo |-> redo1]
            BY <2>2 DEF Undo
        <3>2. t \in Transactions /\ t \in Range(live.undo)
              /\ undo1 \in Seq(Transactions) /\ Range(undo1) \subseteq Range(live.undo)
            BY <1>5, <3>1, Ends
        <3>3. redo1 \in Seq(Transactions) /\ Range(redo1) = Range(live.redo) \cup {t}
            BY <1>5, <3>2, Longer
        <3>4. data \in Partial(Sources \cup {None})
            BY <1>7, <3>2, Partials
        <3>5. \A k \in DOMAIN data : data[k] \notin Lost
            BY <1>6, <1>7, <3>1, <3>2
        <3> HIDE DEF t, data, undo1, redo1
        <3>6. Range(undo1) \cup Range(redo1) \subseteq Steps(live)
            BY <3>2, <3>3 DEF Steps
        <3> QED
            BY <1>4, <3>1, <3>2, <3>3, <3>4, <3>5, <3>6, RevisedDoc
    <2>3. CASE Redo
        <3> DEFINE t == Last(live.redo)
                   data == [k \in DOMAIN t.changes |-> t.changes[k].after]
                   undo1 == Append(live.undo, t)
                   redo1 == Front(live.redo)
        <3>1. live.redo # <<>> /\ (\A k \in DOMAIN data : Readable(data[k]))
              /\ live' = [entries |-> Revised(live, data), undo |-> undo1, redo |-> redo1]
            BY <2>3 DEF Redo
        <3>2. t \in Transactions /\ t \in Range(live.redo)
              /\ redo1 \in Seq(Transactions) /\ Range(redo1) \subseteq Range(live.redo)
            BY <1>5, <3>1, Ends
        <3>3. undo1 \in Seq(Transactions) /\ Range(undo1) = Range(live.undo) \cup {t}
            BY <1>5, <3>2, Longer
        <3>4. data \in Partial(Sources \cup {None})
            BY <1>7, <3>2, Partials
        <3>5. \A k \in DOMAIN data : data[k] \notin Lost
            BY <1>6, <1>7, <3>1, <3>2
        <3> HIDE DEF t, data, undo1, redo1
        <3>6. Range(undo1) \cup Range(redo1) \subseteq Steps(live)
            BY <3>2, <3>3 DEF Steps
        <3> QED
            BY <1>4, <3>1, <3>2, <3>3, <3>4, <3>5, <3>6, RevisedDoc
    <2> QED
        BY <2>1, <2>2, <2>3
<1>9. Docs'
    BY <1>1, <1>2, <1>3, <1>8, NewLive
<1> QED
    BY <1>3, <1>9 DEF Good

\* Showing another tab, a new one too, and dropping on one.
LEMMA ShowKeeps ==
    ASSUME Good, NEW t \in Tabs, Switch(t) \/ (\E K \in {{}, Keys} : Open(t, K)) \/ \E d \in Dirs : Drop(d, t)
    PROVE  Good'
<1>1. DocsTyped /\ DirsTyped /\ AllSound /\ Import /\ Docs /\ Shelves /\ Importing /\ Listed
      /\ None \notin Lost /\ Own \notin Lost
    BY Numbers DEF Good, Shelves, Docs, Import
<1>2. UNCHANGED <<staged, files, clips, clipboard, drags, retained>>
    BY DEF Switch, Open, Drop
<1>3. Shelves' /\ Lost' = Lost
    BY <1>1, <1>2, SameShelves
<1>4. /\ Synced \in [DOMAIN tabs -> Documents]
      /\ \A u \in DOMAIN tabs : Sound(Synced[u], Lost) /\ (u # shown => Synced[u] = tabs[u])
      /\ shown # None => Synced[shown] = live /\ shown \in DOMAIN tabs
    BY <1>1, SyncedSound
<1>5. CASE Switch(t)
    <2>1. t \in DOMAIN tabs /\ t # shown /\ tabs' = Synced /\ live' = tabs[t] /\ shown' = t /\ batch' = batch
        BY <1>5 DEF Switch
    <2>2. live' = Synced[t]
        BY <1>4, <2>1
    <2>3. Docs'
        BY <1>1, <1>3, <1>4, <2>1, <2>2 DEF Docs, DocsTyped, AllSound
    <2> QED
        BY <1>1, <1>3, <2>1, <2>3, SameImport DEF Good
<1>6. CASE \E K \in {{}, Keys} : Open(t, K)
    <2>1. PICK K \in {{}, Keys} : /\ batch' = batch /\ t \notin DOMAIN tabs /\ live' = Opened(K)
                                  /\ tabs' = With(Synced, t, live') /\ shown' = t
        BY <1>6 DEF Open
    <2>2. live' \in Documents /\ Sound(live', Lost)
        BY <1>1, <2>1, OpenedDoc
    <2>3. /\ DOMAIN tabs' = DOMAIN tabs \cup {t}
          /\ tabs'[t] = live' /\ \A u \in DOMAIN tabs : tabs'[u] = Synced[u]
          /\ tabs' \in [DOMAIN tabs' -> Documents]
        BY <1>4, <2>1, <2>2 DEF With
    <2>4. Docs'
        BY <1>1, <1>3, <1>4, <2>1, <2>2, <2>3 DEF Docs, DocsTyped, AllSound
    <2> QED
        BY <1>1, <1>3, <2>1, <2>4, SameImport DEF Good
<1>7. CASE \E d \in Dirs : Drop(d, t)
    <2>1. PICK d \in Dirs : Drop(d, t)
        BY <1>7
    <2>2. /\ shown # None /\ ~Asked /\ d \in files /\ t \in DOMAIN tabs /\ shown' = t
          /\ tabs' = (IF t = shown THEN tabs ELSE Synced) /\ live' = Doc(t) /\ AddPaths(d)
        BY <2>1 DEF Drop, Idle, Asked
    <2>3. Docs'
        <3>1. CASE t = shown
            BY <1>1, <1>3, <2>2, <3>1 DEF Docs, DocsTyped, AllSound, Doc
        <3>2. CASE t # shown
            <4>1. live' = Synced[t] /\ tabs' = Synced
                BY <1>4, <2>2, <3>2 DEF Doc
            <4> QED
                BY <1>1, <1>3, <1>4, <2>2, <4>1 DEF Docs, DocsTyped, AllSound
        <3> QED
            BY <3>1, <3>2
    <2>4. batch' \in Batches /\ Undisturbed(batch', Lost) /\ batch'.queue # <<>>
        BY <1>1, <2>2, Joining
    <2> QED
        BY <1>3, <2>3, <2>4 DEF Good, Import, Importing
<1> QED
    BY <1>5, <1>6, <1>7

\* The import.
LEMMA ImportKeeps ==
    ASSUME Good,
           \/ Paste \/ Frame
           \/ \E c \in {"replace", "replace all", "skip", "skip all", "cancel"} : Answer(c)
    PROVE  Good'
<1>1. DocsTyped /\ DirsTyped /\ AllSound /\ Import /\ Docs /\ Shelves /\ Importing /\ Listed
    BY DEF Good, Shelves, Docs, Import
<1>2. UNCHANGED <<shown, tabs, staged, files, clips, clipboard, drags, retained>>
    BY DEF Paste, Frame, Answer
<1>3. Shelves' /\ Lost' = Lost
    BY <1>1, <1>2, SameShelves
<1>4. CASE Paste
    <2>1. ~Asked /\ clipboard \in files /\ AddPaths(clipboard) /\ live' = live
        BY <1>4 DEF Paste, Unasked
    <2>2. batch' \in Batches /\ Undisturbed(batch', Lost) /\ batch'.queue # <<>>
        BY <1>1, <2>1, Joining
    <2>3. Docs'
        BY <1>1, <1>2, <1>3, <2>1, SameDocs
    <2> QED
        BY <1>3, <2>2, <2>3 DEF Good, Import, Importing
<1>5. ASSUME NEW b \in Batches, NEW doc \in Documents, Sound(doc, Lost), Undisturbed(b, Lost),
             Continues([batch |-> b, doc |-> doc])
      PROVE  Good'
    <2>1. /\ live' \in Documents /\ Sound(live', Lost) /\ batch' \in Batches \cup {None}
          /\ batch' # None => /\ Undisturbed(batch', Lost)
                              /\ batch'.question = None => batch'.queue # <<>>
        BY <1>5, Goes
    <2>2. Docs'
        BY <1>1, <1>2, <1>3, <2>1, NewLive
    <2> QED
        BY <1>3, <2>1, <2>2 DEF Good, Import, Importing
<1>6. CASE Frame
    <2>1. batch # None /\ ~Asked /\ Continues(Round(batch, live))
        BY <1>6 DEF Frame
    <2> DEFINE r == Round(batch, live)
    <2>2. /\ r = [batch |-> r.batch, doc |-> r.doc]
          /\ r.batch \in Batches /\ r.doc \in Documents
          /\ Sound(r.doc, Lost) /\ Undisturbed(r.batch, Lost)
        BY <1>1, <2>1, RoundGoes
    <2>3. Continues([batch |-> r.batch, doc |-> r.doc])
        BY <2>1, <2>2
    <2> HIDE DEF r
    <2> QED
        BY <1>5, <2>2, <2>3
<1>7. ASSUME NEW c \in {"replace", "replace all", "skip", "skip all", "cancel"}, Answer(c)
      PROVE  Good'
    <2> DEFINE policy == CASE c = "replace all" -> "replace"
                           [] c = "skip all" -> "skip"
                           [] OTHER -> batch.policy
               b == [batch EXCEPT !.question = None, !.policy = policy]
               stopped == [b EXCEPT !.queue = <<>>]
               q == batch.question
    <2>1. batch \in Batches /\ q \in Items /\ q.dir \notin Lost /\ Undisturbed(batch, Lost)
        BY <1>1, <1>7 DEF Answer, Asked, Importing, Import, Undisturbed, Batches, Items
    <2>2. policy \in {"ask", "replace", "skip"}
        BY <2>1 DEF Batches
    <2>3. b = [queue |-> batch.queue, question |-> None, policy |-> policy,
               changes |-> batch.changes, disturbed |-> batch.disturbed]
        <3> HIDE DEF policy
        <3> QED
            BY <2>1, Fields
    <2>4. b \in Batches
        BY <2>1, <2>2, <2>3 DEF Batches
    <2>5. Undisturbed(b, Lost)
        BY <2>1, <2>3 DEF Undisturbed
    <2>6. stopped \in Batches /\ Undisturbed(stopped, Lost)
        <3>1. <<>> \in Seq(Items)
            BY EmptySeq
        <3>2. stopped = [queue |-> <<>>, question |-> b.question, policy |-> b.policy,
                         changes |-> b.changes, disturbed |-> b.disturbed]
            BY <2>4, Fields
        <3> QED
            BY <2>4, <2>5, <3>1, <3>2 DEF Batches, Undisturbed, Items
    <2>7. live \in Documents /\ Sound(live, Lost)
        BY <1>1 DEF DocsTyped, AllSound
    <2>8. CASE c \in {"replace", "replace all"}
        <3>1. Continues(Added(b, live, q))
            BY <1>7, <2>8 DEF Answer
        <3> DEFINE a == Added(b, live, q)
        <3>2. /\ a.doc \in Documents /\ a.batch \in Batches
              /\ Sound(a.doc, Lost) /\ Undisturbed(a.batch, Lost)
            BY <2>1, <2>4, <2>5, <2>7, AddedBatch
        <3>3. a = [batch |-> a.batch, doc |-> a.doc]
            BY DEF Added
        <3>4. Continues([batch |-> a.batch, doc |-> a.doc])
            BY <3>1, <3>3
        <3> HIDE DEF a
        <3> QED
            BY <1>5, <3>2, <3>4
    <2>9. CASE c \in {"skip", "skip all"}
        <3>1. Continues([batch |-> b, doc |-> live])
            BY <1>7, <2>9 DEF Answer
        <3> QED
            BY <1>5, <2>4, <2>5, <2>7, <3>1
    <2>10. CASE c = "cancel"
        <3>1. Continues([batch |-> stopped, doc |-> live])
            BY <1>7, <2>10 DEF Answer
        <3> QED
            BY <1>5, <2>6, <2>7, <3>1
    <2> QED
        BY <2>8, <2>9, <2>10
<1> QED
    BY <1>4, <1>6, <1>7

\* What Save and Close prune.
LEMMA PruneKeeps ==
    ASSUME Good, ~Asked, UNCHANGED <<staged, clipboard, drags, retained>>,
           NEW doc, NEW copies, Prune(clips, files, doc, copies)
    PROVE  \E gone \in SUBSET clips :
               /\ {None, Own} \cap gone = {}
               /\ \A d \in gone : ~Refers(doc, d)
               /\ \A d \in gone : \A t \in DOMAIN copies : ~Refers(copies[t], d)
               /\ Shelves' /\ Lost' \subseteq Lost \cup gone /\ Import'
<1> DEFINE gone == clips \ Kept(clips, doc, copies)
<1>1. /\ clips' = clips \ gone /\ files' = files \ gone
      /\ batch' = IF batch # None /\ gone # {} THEN [batch EXCEPT !.disturbed = TRUE] ELSE batch
    BY DEF Prune
<1>2. \A d \in gone : /\ d \in clips /\ ~IsNewest(d, clips) /\ ~Refers(doc, d)
                      /\ \A t \in DOMAIN copies : ~Refers(copies[t], d)
    BY DEF Kept
<1> HIDE DEF gone
<1>3. {None, Own} \cap gone = {}
    <2>1. clips \subseteq DOMAIN staged /\ DOMAIN staged \subseteq Nat
        BY GoodIs, Numbers DEF Listed
    <2> QED
        BY <1>2, <2>1, StagingAssumption
<1>4. gone \in SUBSET clips /\ \A d \in clips : IsNewest(d, clips) => d \notin gone
    BY <1>2
<1>5. Shelves' /\ Lost' \subseteq Lost \cup gone
    BY <1>1, <1>4, PruneShelves
<1>6. /\ batch' \in Batches \cup {None}
      /\ batch' # None => /\ Undisturbed(batch', Lost')
                          /\ batch'.question = None => batch'.queue # <<>>
    BY <1>1, <1>5, ImportPruned
<1>7. Import'
    BY <1>6 DEF Import, Importing
<1> QED
    BY <1>2, <1>3, <1>4, <1>5, <1>7

LEMMA SaveKeeps ==
    ASSUME Good, Save
    PROVE  Good'
<1>1. /\ shown # None /\ ~Asked /\ UNCHANGED <<shown, staged, clipboard, drags, retained>>
      /\ live' = Opened(Present(live)) /\ tabs' = [tabs EXCEPT ![shown] = live']
      /\ Prune(clips, files, live', tabs')
    BY DEF Save, Unasked
<1>2. DocsTyped /\ DirsTyped /\ AllSound /\ None \notin Lost /\ Own \notin Lost
    BY GoodIs, Numbers
<1>3. PICK gone \in SUBSET clips :
               /\ {None, Own} \cap gone = {}
               /\ \A d \in gone : ~Refers(live', d)
               /\ \A d \in gone : \A t \in DOMAIN tabs' : ~Refers(tabs'[t], d)
               /\ Shelves' /\ Lost' \subseteq Lost \cup gone /\ Import'
    BY <1>1, PruneKeeps
<1>4. live' \in Documents /\ Sound(live', Lost')
    <2>1. None \notin Lost' /\ Own \notin Lost'
        BY <1>2, <1>3
    <2> QED
        BY <1>1, <2>1, OpenedDoc
<1>5. tabs' \in [DOMAIN tabs -> Documents] /\ \A t \in DOMAIN tabs \ {shown} : tabs'[t] = tabs[t]
    BY <1>1, <1>2, <1>4 DEF DocsTyped
<1>6. ASSUME NEW t \in DOMAIN tabs \ {shown} PROVE Sound(tabs'[t], Lost')
    <2>1. tabs[t] \in Documents /\ Sound(tabs[t], Lost) /\ \A d \in gone : ~Refers(tabs[t], d)
        BY <1>2, <1>3, <1>5 DEF DocsTyped, AllSound
    <2>2. Sound(tabs[t], Lost \cup gone)
        BY <1>3, <2>1, NotPruned
    <2> QED
        BY <1>3, <1>5, <2>2, Fewer
<1>7. Docs'
    BY <1>1, <1>2, <1>4, <1>5, <1>6 DEF Docs, DocsTyped, AllSound
<1> QED
    BY <1>3, <1>7 DEF Good

LEMMA CloseKeeps ==
    ASSUME Good, NEW t \in Tabs, Close(t)
    PROVE  Good'
<1>1. /\ shown # None /\ batch = None /\ t \in DOMAIN tabs
      /\ UNCHANGED <<staged, clipboard, drags, retained>>
      /\ tabs' = Restrict(Synced, DOMAIN tabs \ {t})
      /\ shown' \in IF t # shown THEN {shown}
                    ELSE IF DOMAIN tabs = {t} THEN {None} ELSE DOMAIN tabs \ {t}
      /\ live' = IF shown' = None THEN NoDocument ELSE Synced[shown']
      /\ Prune(clips, files, live', tabs')
    BY DEF Close, Idle
<1>2. DocsTyped /\ DirsTyped /\ AllSound /\ None \notin Lost /\ Own \notin Lost
    BY GoodIs, Numbers
<1>3. PICK gone \in SUBSET clips :
               /\ {None, Own} \cap gone = {}
               /\ \A d \in gone : ~Refers(live', d)
               /\ \A d \in gone : \A u \in DOMAIN tabs' : ~Refers(tabs'[u], d)
               /\ Shelves' /\ Lost' \subseteq Lost \cup gone /\ Import'
    BY <1>1, PruneKeeps DEF Asked
<1>4. /\ Synced \in [DOMAIN tabs -> Documents] /\ \A u \in DOMAIN tabs : Sound(Synced[u], Lost)
      /\ shown \in DOMAIN tabs
    BY <1>1, <1>2, SyncedSound
<1>5. /\ DOMAIN tabs' = DOMAIN tabs \ {t} /\ \A u \in DOMAIN tabs' : tabs'[u] = Synced[u]
      /\ tabs' \in [DOMAIN tabs' -> Documents]
    BY <1>1, <1>4 DEF Restrict
<1>6. None \notin DOMAIN tabs
    BY <1>2, StagingAssumption DEF DocsTyped
<1>7. \/ shown' = None /\ DOMAIN tabs' = {} /\ live' = NoDocument
      \/ shown' \in DOMAIN tabs' /\ live' = Synced[shown']
    BY <1>1, <1>4, <1>5, <1>6
<1>8. \A u \in DOMAIN tabs' : Sound(tabs'[u], Lost')
    <2> SUFFICES ASSUME NEW u \in DOMAIN tabs' PROVE Sound(tabs'[u], Lost')
        OBVIOUS
    <2>1. tabs'[u] \in Documents /\ Sound(tabs'[u], Lost) /\ \A d \in gone : ~Refers(tabs'[u], d)
        BY <1>3, <1>4, <1>5
    <2>2. Sound(tabs'[u], Lost \cup gone)
        BY <1>3, <2>1, NotPruned
    <2> QED
        BY <1>3, <2>2, Fewer
<1>9. live' \in Documents /\ Sound(live', Lost')
    <2>1. CASE live' = NoDocument
        <3>1. None \notin Lost' /\ Own \notin Lost'
            BY <1>2, <1>3
        <3> QED
            BY <2>1, <3>1, OpenedDoc DEF NoDocument
    <2>2. CASE shown' \in DOMAIN tabs' /\ live' = Synced[shown']
        BY <1>5, <1>8, <2>2
    <2> QED
        BY <1>7, <2>1, <2>2
<1>10. Docs'
    BY <1>2, <1>5, <1>7, <1>8, <1>9 DEF Docs, DocsTyped, AllSound
<1> QED
    BY <1>3, <1>10 DEF Good

LEMMA DragGoesKeeps ==
    ASSUME Good, NEW d \in Dirs, DragEnds(d) \/ Expire
    PROVE  Good'
<1>1. Shelves' /\ Lost' = Lost
    BY DragGoes
<1>2. UNCHANGED <<shown, live, tabs, batch>>
    BY DEF DragEnds, Expire
<1> QED
    BY <1>1, <1>2, SameDocs, SameImport DEF Good

----------------------------------------------------------------------------
(* The theorems.                                                           *)

LEMMA InvInit == Init => IInv
<1> SUFFICES ASSUME Init PROVE IInv
    OBVIOUS
<1>1. /\ shown = None /\ live = NoDocument /\ tabs = <<>> /\ staged = <<>> /\ files = {} /\ clips = {}
      /\ clipboard = None /\ drags = {} /\ retained = <<>> /\ batch = None /\ turns = 0
    BY DEF Init
<1>2. DOMAIN tabs = {} /\ DOMAIN staged = {} /\ Range(retained) = {} /\ Len(staged) = 0
    BY <1>1, EmptySeq DEF Range
<1>3. Lost = {}
    BY <1>2 DEF Lost, Exports
<1>4. NoDocument \in Documents /\ Sound(NoDocument, Lost)
    BY <1>3, OpenedDoc DEF NoDocument
<1>5. DocsTyped
    BY <1>1, <1>2, <1>4 DEF DocsTyped
<1>6. DirsTyped
    <2>1. staged \in Seq(Purposes) /\ retained \in Seq(DOMAIN staged) /\ IsInjective(retained)
        BY <1>1, EmptySeq DEF IsInjective
    <2> QED
        BY <1>1, <1>2, <2>1, StagingAssumption DEF DirsTyped
<1>7. Listed /\ Newest /\ AllSound /\ Import
    BY <1>1, <1>2, <1>3, <1>4 DEF Listed, Newest, AllSound, Import, Importing, Exports
<1>8. turns \in 0..MaxTurns
    BY <1>1, StagingAssumption
<1> QED
    BY <1>5, <1>6, <1>7, <1>8, Parts DEF Good, Shelves, Docs

LEMMA UserKeeps == Good /\ UserActs => Good'
<1> SUFFICES ASSUME Good, UserActs PROVE Good'
    OBVIOUS
<1>1. ASSUME NEW K \in SUBSET Keys, NEW cut \in BOOLEAN, Copy(K, cut) PROVE Good'
    BY <1>1, CopyKeeps
<1>2. ASSUME NEW K \in SUBSET Keys, Drag(K) PROVE Good'
    BY <1>2, DragKeeps
<1>3. CASE Undo \/ Redo \/ \E K \in SUBSET Keys : Delete(K)
    BY <1>3, EditKeeps
<1>4. ASSUME NEW t \in Tabs, Switch(t) \/ \E d \in Dirs : Drop(d, t) PROVE Good'
    BY <1>4, ShowKeeps
<1>5. ASSUME NEW t \in Tabs, Close(t) PROVE Good'
    BY <1>5, CloseKeeps
<1>6. CASE Paste
    BY <1>6, ImportKeeps
<1>7. CASE Save
    BY <1>7, SaveKeeps
<1> QED
    BY <1>1, <1>2, <1>3, <1>4, <1>5, <1>6, <1>7 DEF UserActs

LEMMA ProceedsKeeps == Good /\ Proceeds => Good'
<1> SUFFICES ASSUME Good, Proceeds PROVE Good'
    OBVIOUS
<1>1. ASSUME NEW t \in Tabs, NEW K \in {{}, Keys}, Open(t, K) PROVE Good'
    BY <1>1, ShowKeeps
<1>2. CASE Frame
    BY <1>2, ImportKeeps
<1>3. ASSUME NEW c \in {"replace", "replace all", "skip", "skip all", "cancel"}, Answer(c) PROVE Good'
    BY <1>3, ImportKeeps
<1>4. ASSUME NEW d \in Dirs, DragEnds(d) PROVE Good'
    BY <1>4, DragGoesKeeps
<1>5. CASE Expire
    <2>1. retained # <<>> /\ retained \in Seq(DOMAIN staged)
        BY <1>5, GoodIs DEF Expire, DirsTyped
    <2>2. Head(retained) \in DOMAIN staged
        BY <2>1, Ends
    <2>3. Head(retained) \in Dirs
        BY <2>2, GoodIs, Numbers, StagingAssumption DEF DirsTyped, Dirs
    <2> QED
        BY <1>5, <2>3, DragGoesKeeps
<1> QED
    BY <1>1, <1>2, <1>3, <1>4, <1>5 DEF Proceeds

\* The invariant holds of every state the program can be in.
THEOREM Invariance == Spec => []IInv
<1>1. Good' /\ turns' \in 0..MaxTurns => IInv'
    BY DEF IInv, TypeOK, Good, Shelves, Docs, Import, DocsTyped, DirsTyped, Purposes
<1>2. IInv /\ [Next]_vars => IInv'
    <2> SUFFICES ASSUME IInv, [Next]_vars PROVE IInv'
        OBVIOUS
    <2>1. Good /\ turns \in 0..MaxTurns
        BY Parts
    <2>2. CASE UserActs /\ turns < MaxTurns /\ turns' = turns + 1
        <3>1. turns' \in 0..MaxTurns
            BY <2>1, <2>2, StagingAssumption
        <3>2. Good'
            BY <2>1, <2>2, UserKeeps
        <3> QED
            BY <1>1, <3>1, <3>2
    <2>3. CASE Proceeds /\ turns' = turns
        <3>1. Good' /\ turns' \in 0..MaxTurns
            BY <2>1, <2>3, ProceedsKeeps
        <3> QED
            BY <1>1, <3>1
    <2>4. CASE UNCHANGED vars
        <3>1. UNCHANGED <<shown, live, tabs>> /\ UNCHANGED <<staged, files, clips, clipboard, drags, retained>>
              /\ batch' = batch /\ turns' = turns
            BY <2>4 DEF vars
        <3>2. Shelves' /\ Lost' = Lost
            BY <2>1, <3>1, SameShelves DEF Good
        <3>3. Good' /\ turns' \in 0..MaxTurns
            BY <2>1, <3>1, <3>2, SameDocs, SameImport DEF Good
        <3> QED
            BY <1>1, <3>3
    <2> QED
        BY <2>2, <2>3, <2>4 DEF Next
<1> QED
    BY <1>2, InvInit, PTL DEF Spec

\* Every variable keeps its type, and each directory that exists is in one
\* list: of clipboard exports, of drags, or of retained exports.
THEOREM TypeCorrect == Spec => []TypeOK
<1>1. IInv => TypeOK
    BY DEF IInv
<1> QED
    BY <1>1, Invariance, PTL

\* The current document of every open tab names no lost export.
LEMMA Current ==
    ASSUME IInv, NEW t \in DOMAIN tabs
    PROVE  Doc(t) \in Documents /\ Sound(Doc(t), Lost)
<1>1. DocsTyped /\ AllSound
    BY Parts, GoodIs
<1> QED
    BY <1>1 DEF DocsTyped, AllSound, Doc

\* For any number of tabs, exports and names: prune_clipboard_exports never
\* deletes a directory whose files an entry of an open archive still names, so
\* whatever was pasted can be read when the archive is saved.
THEOREM PastedStaysReadable == Spec => []PastedReadable
<1>1. IInv => PastedReadable
    <2> SUFFICES ASSUME IInv, NEW t \in DOMAIN tabs, NEW d \in InEntries(Doc(t)) \cap Exports
                 PROVE  d \in files
        BY DEF PastedReadable
    <2>1. Doc(t).entries \in [Keys -> Sources \cup {None}] /\ \A k \in Keys : Doc(t).entries[k] \notin Lost
        BY Current DEF Documents, Sound
    <2>2. d \notin Lost
        BY <2>1 DEF InEntries, Range
    <2> QED
        BY <2>2 DEF Lost
<1> QED
    BY <1>1, Invariance, PTL

\* Nor one that a transaction of an open history names, so that undo_edit and
\* redo_edit can bring the pasted data back; but for a transaction of an import
\* during which something was pruned.
THEOREM PastedStaysRestorable == Spec => []PastedRestorable
<1>1. IInv => PastedRestorable
    <2> SUFFICES ASSUME IInv, NEW t \in DOMAIN tabs, NEW s \in Range(Doc(t).undo) \cup Range(Doc(t).redo),
                        ~s.disturbed, NEW d \in InTransaction(s) \cap Exports
                 PROVE  d \in files
        BY DEF PastedRestorable
    <2>1. Spared(s.changes, Lost)
        BY Current DEF Sound, Steps
    <2>2. PICK k \in DOMAIN s.changes : d \in {s.changes[k].before, s.changes[k].after}
        BY Zenon DEF InTransaction
    <2>3. d \notin Lost
        BY <2>1, <2>2 DEF Spared
    <2> QED
        BY <2>3 DEF Lost
<1> QED
    BY <1>1, Invariance, PTL

\* What copy_selected_to_clipboard put on the system clipboard stays on disk:
\* the export it lists is the newest, and the newest is never pruned.
THEOREM ClipboardStaysReadable == Spec => []ClipboardReadable
<1>1. IInv => ClipboardReadable
    BY DEF IInv, TypeOK, Newest, ClipboardReadable
<1> QED
    BY <1>1, Invariance, PTL
=============================================================================
