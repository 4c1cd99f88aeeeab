---------------------------- MODULE BatchExport ----------------------------
(***************************************************************************)
(* What export_entries_parallel promises its callers, whatever number of   *)
(* threads it uses: it writes resources, each at most once, in any order;  *)
(* it says Ok only when every resource is written, and otherwise reports   *)
(* a resource that really failed.                                          *)
(***************************************************************************)
EXTENDS Integers

CONSTANTS None      \* no resource

VARIABLES count,    \* the number of resources, numbered from 0
          written,  \* those whose file is complete
          bad,      \* those that could not be exported
          outcome,  \* "running", "ok" or "error"
          error     \* the resource whose error is reported

vars == <<count, written, bad, outcome, error>>

Resources == 0..(count - 1)
Untouched == Resources \ (written \cup bad)

Init ==
    /\ count \in Nat
    /\ written = {} /\ bad = {}
    /\ outcome = "running" /\ error = None

Write ==
    /\ outcome = "running"
    /\ \E i \in Untouched : written' = written \cup {i}
    /\ UNCHANGED <<count, bad, outcome, error>>

Fail ==
    /\ outcome = "running"
    /\ \E i \in Untouched : bad' = bad \cup {i}
    /\ UNCHANGED <<count, written, outcome, error>>

Return ==
    /\ outcome = "running"
    /\ \/ written = Resources /\ outcome' = "ok" /\ error' = None
       \/ outcome' = "error" /\ error' \in bad
    /\ UNCHANGED <<count, written, bad>>

Next == Write \/ Fail \/ Return

Spec == Init /\ [][Next]_vars
=============================================================================
