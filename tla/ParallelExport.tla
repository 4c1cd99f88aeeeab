--------------------------- MODULE ParallelExport ---------------------------
(***************************************************************************)
(* export_entries_parallel of archive.rs: the threads that write the       *)
(* selected resources to files for a drag or a KDE extraction.  Threads    *)
(* take the next resource from an atomic counter, stop when one of them    *)
(* has failed, and leave the first error in a mutex for the caller, which  *)
(* waits for all of them.  All atomics are Relaxed: the counter hands out  *)
(* every value once, but a thread may read the failure flag late.          *)
(***************************************************************************)
EXTENDS Integers, FiniteSets

CONSTANTS
    Workers,      \* the threads the machine can run at once, at most eight
    MaxCount,     \* resources selected, at most
    Threshold,    \* a selection below this size is written by the caller (128)
    None          \* no error yet

ASSUME ExportAssumption ==
    /\ IsFiniteSet(Workers) /\ Workers # {}
    /\ MaxCount \in Nat /\ Threshold \in Nat
    /\ None \in Int \ Nat

VARIABLES
    count,      \* resources.len()
    spawned,    \* the threads that write, or {} when the caller writes
    pc,         \* where each thread is
    index,      \* the resource each thread took last
    next,       \* the shared counter; the caller's loop variable without threads
    failed,     \* the shared flag
    firstError, \* the mutex slot: the resource whose error is kept
    files,      \* per resource its output file: "absent", "partial" or "whole"
    bad,        \* history variable: the resources whose export failed
    outcome     \* "running"; what the caller is told then: "ok", or "error"
                \* with the error of resource firstError

vars == <<count, spawned, pc, index, next, failed, firstError, files, bad, outcome>>

Resources == 0..(count - 1)
Least(a, b) == IF a < b THEN a ELSE b

\* export_to: File::create, then copying, either of which may fail.
CreateFile(i) == files' = [files EXCEPT ![i] = "partial"]
FinishFile(i) == files' = [files EXCEPT ![i] = "whole"]
ExportFails(i) == bad' = bad \cup {i}

----------------------------------------------------------------------------
(* The sequential path: the caller stops at the first error.               *)

CallerWrites == spawned = {} /\ outcome = "running" /\ next < count /\ firstError = None

CallerCreates ==
    /\ CallerWrites
    /\ files[next] = "absent"
    /\ CreateFile(next)
    /\ UNCHANGED <<count, spawned, pc, index, next, failed, firstError, bad, outcome>>

CallerFinishes ==
    /\ CallerWrites
    /\ files[next] = "partial"
    /\ FinishFile(next)
    /\ next' = next + 1
    /\ UNCHANGED <<count, spawned, pc, index, failed, firstError, bad, outcome>>

CallerFails ==
    /\ CallerWrites
    /\ ExportFails(next)
    /\ firstError' = next      \* the error that ? returns
    /\ UNCHANGED <<count, spawned, pc, index, next, failed, files, outcome>>

----------------------------------------------------------------------------
(* One round of a thread's loop.                                           *)

Goto(w, label) == pc' = [pc EXCEPT ![w] = label]

\* while !failed.load(Relaxed): a set flag may be seen late.
Check(w) ==
    /\ pc[w] = "check"
    /\ \/ Goto(w, "claim")
       \/ failed /\ Goto(w, "done")
    /\ UNCHANGED <<count, spawned, index, next, failed, firstError, files, bad, outcome>>

\* Mutant: a counter that is read and written in two steps.
ClaimTorn(w) ==
    /\ pc[w] = "claim"
    /\ next' \in {next, next + 1}
    /\ index' = [index EXCEPT ![w] = next]
    /\ IF next < count THEN Goto(w, "create") ELSE Goto(w, "done")
    /\ UNCHANGED <<count, spawned, failed, firstError, files, bad, outcome>>

\* next.fetch_add, and resources.get.
Claim(w) ==
    /\ pc[w] = "claim"
    /\ next' = next + 1
    /\ index' = [index EXCEPT ![w] = next]
    /\ IF next < count THEN Goto(w, "create") ELSE Goto(w, "done")
    /\ UNCHANGED <<count, spawned, failed, firstError, files, bad, outcome>>

Create(w) ==
    /\ pc[w] = "create"
    /\ CreateFile(index[w])
    /\ Goto(w, "write")
    /\ UNCHANGED <<count, spawned, index, next, failed, firstError, bad, outcome>>

Write(w) ==
    /\ pc[w] = "write"
    /\ FinishFile(index[w])
    /\ Goto(w, "check")
    /\ UNCHANGED <<count, spawned, index, next, failed, firstError, bad, outcome>>

Fail(w) ==
    /\ pc[w] \in {"create", "write"}
    /\ ExportFails(index[w])
    /\ Goto(w, "flag")
    /\ UNCHANGED <<count, spawned, index, next, failed, firstError, files, outcome>>

\* failed.store
Flag(w) ==
    /\ pc[w] = "flag"
    /\ failed' = TRUE
    /\ Goto(w, "report")
    /\ UNCHANGED <<count, spawned, index, next, firstError, files, bad, outcome>>

\* Mutants: the error is only left if the lock happens to be free; a thread
\* waits for a slot that stays taken.
ReportTrying(w) ==
    /\ pc[w] = "report"
    /\ firstError' \in {firstError, IF firstError = None THEN index[w] ELSE firstError}
    /\ Goto(w, "done")
    /\ UNCHANGED <<count, spawned, index, next, failed, files, bad, outcome>>

ReportWaiting(w) ==
    /\ pc[w] = "report"
    /\ firstError = None
    /\ firstError' = index[w]
    /\ Goto(w, "done")
    /\ UNCHANGED <<count, spawned, index, next, failed, files, bad, outcome>>

\* first_error.lock: only the first error is kept.
Report(w) ==
    /\ pc[w] = "report"
    /\ firstError' = IF firstError = None THEN index[w] ELSE firstError
    /\ Goto(w, "done")
    /\ UNCHANGED <<count, spawned, index, next, failed, files, bad, outcome>>

Work(w) == \/ Check(w) \/ Claim(w) \/ Create(w) \/ Write(w)
           \/ Fail(w) \/ Flag(w) \/ Report(w)

\* Mutant: the caller does not wait for the threads.
ReturnEarly ==
    /\ outcome = "running"
    /\ IF spawned = {} THEN next >= count \/ firstError # None ELSE next >= count
    /\ outcome' = IF firstError = None THEN "ok" ELSE "error"
    /\ UNCHANGED <<count, spawned, pc, index, next, failed, firstError, files, bad>>

\* The end of thread::scope, and of the sequential loop.
Return ==
    /\ outcome = "running"
    /\ IF spawned = {} THEN next >= count \/ firstError # None
                       ELSE \A w \in spawned : pc[w] = "done"
    /\ outcome' = IF firstError = None THEN "ok" ELSE "error"
    /\ UNCHANGED <<count, spawned, pc, index, next, failed, firstError, files, bad>>

\* The caller spawns as many threads as the machine runs, if that pays.
Init ==
    /\ count \in 0..MaxCount
    /\ \E parallelism \in 1..Cardinality(Workers) :
          LET workers == Least(parallelism, count) IN
          IF count = 0 \/ workers = 1 \/ count < Threshold
          THEN spawned = {}
          ELSE /\ spawned \in SUBSET Workers
               /\ Cardinality(spawned) = workers
    /\ pc = [w \in Workers |-> IF w \in spawned THEN "check" ELSE "done"]
    /\ index = [w \in Workers |-> 0]
    /\ next = 0
    /\ failed = FALSE
    /\ firstError = None
    /\ files = [i \in Resources |-> "absent"]
    /\ bad = {}
    /\ outcome = "running"

Next == \/ CallerCreates \/ CallerFinishes \/ CallerFails
        \/ \E w \in Workers : Work(w)
        \/ Return

\* Threads and the caller run until they are done; an export ends either way.
Fairness ==
    /\ WF_vars(CallerCreates \/ CallerFinishes \/ CallerFails \/ Return)
    /\ \A w \in Workers : WF_vars(Work(w))

Spec == Init /\ [][Next]_vars
FairSpec == Spec /\ Fairness

----------------------------------------------------------------------------
Labels == {"check", "claim", "create", "write", "flag", "report", "done"}
Holding(w) == pc[w] \in {"create", "write"}

\* The types of the export's state.  Like the other conjuncts of the inductive
\* invariant, it is proved and not among the properties TLC checks.
TypeOK ==
    /\ count \in 0..MaxCount
    /\ spawned \in SUBSET Workers
    /\ pc \in [Workers -> Labels]
    /\ index \in [Workers -> Nat]
    /\ next \in Nat
    /\ failed \in BOOLEAN
    /\ firstError \in Resources \cup {None}
    /\ files \in [Resources -> {"absent", "partial", "whole"}]
    /\ bad \in SUBSET Resources
    /\ outcome \in {"running", "ok", "error"}

\* No two threads ever write the same resource, and none writes one that
\* is finished or has failed.
OneWriter ==
    \A w \in Workers : Holding(w) =>
        /\ index[w] \in Resources \ bad
        /\ files[index[w]] = (IF pc[w] = "create" THEN "absent" ELSE "partial")
        /\ \A v \in Workers : Holding(v) /\ index[v] = index[w] => v = w

\* Ok is only returned when every file is complete: the counter has passed
\* the last resource and nobody failed, though threads stop at different
\* times and for different reasons.
OkIsComplete == outcome = "ok" => \A i \in Resources : files[i] = "whole"

\* An error is reported exactly when some export failed, and it is the
\* error of one that did; TLC checks it as part of KeepsPromise.
ErrorIsReal ==
    /\ outcome = "ok" => bad = {}
    /\ outcome = "error" => firstError \in bad

\* What makes these inductive: a taken resource is finished, failed or in
\* the hands of a thread ...
Accounted ==
    \A i \in Resources : i < next =>
        \/ files[i] = "whole"
        \/ i \in bad
        \/ \E w \in spawned : Holding(w) /\ index[w] = i

\* ... a failure is on its way to the mutex until it is there ...
FailureSurvives ==
    /\ firstError # None => firstError \in bad
    /\ bad # {} => \/ firstError # None
                   \/ \E w \in spawned : pc[w] \in {"flag", "report"}
    /\ failed => bad # {}

\* ... a thread that stopped saw the flag or the end, and a resource is
\* untouched until the counter has passed it (or the caller has reached it).
StopsForReason ==
    /\ \A w \in spawned : pc[w] = "done" => failed \/ next >= count
    /\ \A w \in spawned : pc[w] \in {"flag", "report"} => index[w] \in bad
    /\ \A w \in spawned : pc[w] = "report" => failed
    /\ \A w \in spawned : pc[w] # "done" => outcome = "running"
    /\ \A w \in spawned : Holding(w) => index[w] < next
    /\ \A w \in Workers \ spawned : pc[w] = "done"
    /\ \A i \in Resources : i >= next /\ files[i] # "absent" =>
          spawned = {} /\ i = next /\ files[i] = "partial"
    /\ \A i \in bad : files[i] # "whole" /\ (spawned # {} => i < next)

\* The export keeps its promise to the callers.
Batch == INSTANCE BatchExport WITH
            written <- {i \in Resources : files[i] = "whole"},
            error <- IF outcome = "error" THEN firstError ELSE None
KeepsPromise == Batch!Spec

\* Every export returns, failed threads included.
Returns == <>(outcome # "running")
=============================================================================
