--------------------------- MODULE LinearHistory ---------------------------
(***************************************************************************)
(* What Undo and Redo promise the user of one archive tab, without any of  *)
(* the transactions that keep the promise: the document is a point on a    *)
(* time line of states.  An edit forgets the redone side and may forget    *)
(* the oldest states; Undo and Redo move to the neighbouring state; a save *)
(* forgets both sides.  The tab may claim to be clean only while the       *)
(* document is what the file on disk holds, unless a save wrote the file   *)
(* and was yet reported as failed, and none has succeeded since.           *)
(***************************************************************************)
EXTENDS Integers, Sequences

CONSTANTS States,    \* what a document can contain
          NoFile     \* the document was never saved

VARIABLES past,      \* the states Undo can still reach, oldest first
          now,       \* the document
          future,    \* the states Redo can still reach, nearest last
          disk,      \* the document the archive file holds, or NoFile
          dirty,     \* whether closing the tab asks first
          failedLate \* whether the last save wrote the file and failed

vars == <<past, now, future, disk, dirty, failedLate>>

LastOf(s)  == s[Len(s)]
FrontOf(s) == SubSeq(s, 1, Len(s) - 1)
SuffixesOf(s) == {SubSeq(s, i, Len(s)) : i \in 1..(Len(s) + 1)}

Init ==
    /\ past = <<>> /\ future = <<>>
    /\ now \in States
    /\ \/ disk = now /\ dirty = FALSE        \* an opened archive
       \/ disk = NoFile /\ dirty = TRUE      \* a new one
    /\ failedLate = FALSE

Edit ==
    /\ now' \in States
    /\ past' \in SuffixesOf(Append(past, now))
    /\ future' = <<>>
    /\ dirty' = TRUE
    /\ UNCHANGED <<disk, failedLate>>

Undo ==
    /\ past # <<>>
    /\ now' = LastOf(past)
    /\ past' = FrontOf(past)
    /\ future' = Append(future, now)
    /\ dirty' \in BOOLEAN /\ (~dirty' => disk = now' \/ failedLate)
    /\ UNCHANGED <<disk, failedLate>>

Redo ==
    /\ future # <<>>
    /\ now' = LastOf(future)
    /\ future' = FrontOf(future)
    /\ past' = Append(past, now)
    /\ dirty' = TRUE
    /\ UNCHANGED <<disk, failedLate>>

Save ==
    /\ disk' = now
    /\ dirty' = FALSE /\ failedLate' = FALSE
    /\ past' = <<>> /\ future' = <<>>
    /\ UNCHANGED now

SaveFailsLate ==
    /\ disk' = now /\ failedLate' = TRUE
    /\ UNCHANGED <<past, now, future, dirty>>

Next == Edit \/ Undo \/ Redo \/ Save \/ SaveFailsLate

Spec == Init /\ [][Next]_vars
=============================================================================
