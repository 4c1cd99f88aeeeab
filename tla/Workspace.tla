----------------------------- MODULE Workspace -----------------------------
(***************************************************************************)
(* What the tabs of the window promise, whatever copies the program keeps: *)
(* every open archive has one document, only the shown one can be edited,  *)
(* and to show another, or to open or close one, changes no document that  *)
(* stays open.                                                             *)
(***************************************************************************)
CONSTANTS Ids,    \* identities of the archives opened in a session
          None    \* no archive

VARIABLES docs,   \* the documents of the open archives: [text, dirty]
          shown   \* the archive shown, or None

vars == <<docs, shown>>

Init == docs = [i \in {} |-> i] /\ shown = None

\* All archives but i, with their documents.
Others(i) == LET all == docs IN [j \in DOMAIN all \ {i} |-> all[j]]

Open(i) == i \notin DOMAIN docs /\ i \in DOMAIN docs' /\ shown' = i

Edit(i) == shown = i /\ i \in DOMAIN docs' /\ shown' = i

\* The archive that a question is about need not be the shown one, and another
\* may be shown next.
Save(i) ==
    /\ i \in DOMAIN docs /\ i \in DOMAIN docs'
    /\ docs'[i].text = docs[i].text /\ ~docs'[i].dirty
    /\ shown' \in DOMAIN docs

Close(i) ==
    /\ i \in DOMAIN docs /\ i \notin DOMAIN docs'
    /\ shown' \in DOMAIN docs' \/ DOMAIN docs' = {}

Show == UNCHANGED docs /\ shown' \in DOMAIN docs

Next ==
    \/ Show
    \/ \E i \in Ids :
          /\ Open(i) \/ Edit(i) \/ Save(i) \/ Close(i)
          /\ Others(i)' = Others(i)

Spec == Init /\ [][Next]_vars
=============================================================================
