-------------------------- MODULE EditHistoryProofs --------------------------
(***************************************************************************)
(* Proofs about EditHistory.  They hold of every archive, also of one that *)
(* was opened with several entries under one key and with a description    *)
(* that is not UTF-8: the types and the bounds of all of it; Undo, Redo    *)
(* and the dirty flag of what Shown keeps of a document, the entries under *)
(* all other keys and the description as it is read.                       *)
(***************************************************************************)
EXTENDS EditHistory, FiniteSetTheorems, WellFoundedInduction, TLAPS

----------------------------------------------------------------------------
(* Runs.                                                                   *)

\* A run is a short sequence of contents.
LEMMA RunIsSeq ==
    ASSUME NEW run \in Run
    PROVE  run \in Seq(Data) /\ Len(run) \in 0..MaxCopies
<1>1. PICK n \in 0..MaxCopies : run \in [1..n -> Data]
    BY DEF Run
<1>2. n \in Nat
    BY <1>1, BoundsAssumption
<1> QED
    BY <1>1, <1>2

\* And every short sequence is a run.
LEMMA SeqIsRun ==
    ASSUME NEW run \in Seq(Data), Len(run) <= MaxCopies
    PROVE  run \in Run
<1>1. run \in [1..Len(run) -> Data] /\ Len(run) \in 0..MaxCopies
    BY BoundsAssumption
<1> QED
    BY <1>1 DEF Run

\* The two runs of an archive without equal keys.
LEMMA ShortRuns == <<>> \in Run /\ \A d \in Data : <<d>> \in Run
<1>1. <<>> \in Seq(Data) /\ Len(<<>>) = 0 /\ 0 <= MaxCopies
    BY BoundsAssumption
<1>2. \A d \in Data : <<d>> \in Seq(Data) /\ Len(<<d>>) = 1 /\ 1 <= MaxCopies
    BY BoundsAssumption
<1>3. <<>> \in Run
    BY <1>1, SeqIsRun
<1> QED
    BY <1>2, <1>3, SeqIsRun

\* Putting an entry first keeps a run a run.
LEMMA WithFirstType ==
    ASSUME NEW run \in Run, NEW d \in Data
    PROVE  WithFirst(run, d) \in Run
<1>1. run \in Seq(Data) /\ Len(run) \in 0..MaxCopies
    BY RunIsSeq
<1> DEFINE rest == SubSeq(run, 2, Len(run))
<1>2. rest \in Seq(Data) /\ Len(rest) + 1 <= MaxCopies
    BY <1>1, BoundsAssumption
<1>3. <<d>> \in Seq(Data) /\ Len(<<d>>) = 1
    OBVIOUS
<1>4. <<d>> \o rest \in Seq(Data) /\ Len(<<d>> \o rest) <= MaxCopies
    BY <1>2, <1>3, BoundsAssumption
<1> QED
    BY <1>4, SeqIsRun DEF WithFirst

\* Replacing the entry at a position keeps a run a run.
LEMMA ReplaceType ==
    ASSUME NEW run \in Run, NEW i, NEW d \in Data
    PROVE  [run EXCEPT ![i] = d] \in Run
BY DEF Run

\* Any selection of positions of a run is a run.
LEMMA PickType ==
    ASSUME NEW run \in Run, NEW at \in Increasing(MaxCopies),
           Taken(at) \subseteq 1..Len(run)
    PROVE  Pick(run, at) \in Run
<1>1. PICK m \in 0..MaxCopies : at \in [1..m -> 1..MaxCopies]
    BY DEF Increasing
<1>2. run \in Seq(Data)
    BY RunIsSeq
<1>3. \A i \in 1..m : at[i] \in 1..Len(run)
    BY <1>1 DEF Taken
<1>4. Pick(run, at) \in [1..m -> Data]
    BY <1>1, <1>2, <1>3 DEF Pick
<1> QED
    BY <1>4 DEF Run

\* Applying a change to a run gives a run.
LEMMA AppliedType ==
    ASSUME NEW run \in Run, NEW target \in Run, NEW other \in Run
    PROVE  Applied(run, target, other) \in Run
<1>1. /\ run \in Seq(Data) /\ Len(run) \in 0..MaxCopies
      /\ target \in Seq(Data) /\ other \in Seq(Data)
    BY RunIsSeq
<1>2. CASE target = <<>>
    <2>1. /\ SubSeq(run, Len(other) + 1, Len(run)) \in Seq(Data)
          /\ Len(SubSeq(run, Len(other) + 1, Len(run))) <= MaxCopies
        BY <1>1, BoundsAssumption
    <2> QED
        BY <1>2, <2>1, SeqIsRun DEF Applied
<1>3. CASE target # <<>>
    <2>1. target[Len(target)] \in Data
        BY <1>1, <1>3
    <2> QED
        BY <1>3, <2>1, WithFirstType DEF Applied
<1> QED
    BY <1>2, <1>3

\* A run without equal keys.
LEMMA ShortRun ==
    ASSUME NEW run \in Run, Len(run) <= 1
    PROVE  run \in Seq(Data) /\ Len(run) \in 0..1
<1>1. run \in Seq(Data)
    BY RunIsSeq
<1> DEFINE n == Len(run)
<1>2. n \in Nat /\ n <= 1
    BY <1>1
<1> HIDE DEF n
<1>3. n \in 0..1
    BY <1>2
<1> QED
    BY <1>1, <1>3 DEF n

\* Where no more than one entry has a key, no operation adds a second one.
LEMMA WithFirstShort ==
    ASSUME NEW run \in Run, NEW d \in Data, Len(run) <= 1
    PROVE  WithFirst(run, d) = <<d>> /\ Len(WithFirst(run, d)) = 1
<1>1. run \in Seq(Data) /\ Len(run) \in 0..1
    BY ShortRun
<1>2. SubSeq(run, 2, Len(run)) \in Seq(Data) /\ Len(SubSeq(run, 2, Len(run))) = 0
    BY <1>1
<1>3. SubSeq(run, 2, Len(run)) = <<>>
    BY <1>2
<1>4. <<d>> \o <<>> = <<d>> /\ Len(<<d>>) = 1
    OBVIOUS
<1> QED
    BY <1>3, <1>4 DEF WithFirst

LEMMA AppliedShort ==
    ASSUME NEW run \in Run, NEW target \in Run, NEW other \in Run, Len(run) <= 1
    PROVE  Len(Applied(run, target, other)) <= 1
<1>1. /\ run \in Seq(Data) /\ Len(run) \in 0..1
      /\ target \in Seq(Data) /\ other \in Seq(Data)
    BY RunIsSeq, ShortRun
<1>2. CASE target = <<>>
    <2>1. Len(SubSeq(run, Len(other) + 1, Len(run))) <= 1
        BY <1>1
    <2> QED
        BY <1>2, <2>1 DEF Applied
<1>3. CASE target # <<>>
    <2>1. target[Len(target)] \in Data
        BY <1>1, <1>3
    <2>2. Len(WithFirst(run, target[Len(target)])) = 1 /\ 1 <= 1
        BY <2>1, WithFirstShort
    <2>3. Applied(run, target, other) = WithFirst(run, target[Len(target)])
        BY <1>3 DEF Applied
    <2> QED
        BY <2>2, <2>3
<1> QED
    BY <1>2, <1>3

\* What the entries of an archive are, key by key.
LEMMA RunsType ==
    ASSUME NEW r, r \in [Keys -> Run], \A k \in Single : Len(r[k]) <= 1
    PROVE  r \in Runs
BY DEF Runs, Single

LEMMA RunsFacts ==
    ASSUME NEW r \in Runs
    PROVE  /\ r \in [Keys -> Run]
           /\ \A k \in Keys : r[k] \in Run
           /\ \A k \in Single : k \in Keys /\ r[k] \in Run /\ Len(r[k]) <= 1
BY DEF Runs, Single

----------------------------------------------------------------------------
(* Documents and transactions.                                             *)

\* What an edit of resources says of a key it touches is two runs.
LEMMA ChangesType ==
    ASSUME NEW edit \in Edits, edit.kind # "description"
    PROVE  /\ DOMAIN edit.changes \subseteq Keys
           /\ \A k \in DOMAIN edit.changes :
                 edit.changes[k].before \in Run /\ edit.changes[k].after \in Run
<1>1. edit.changes \in UNION {[S -> ResourceChange] : S \in SUBSET Keys}
    BY DEF Edits
<1>2. PICK S \in SUBSET Keys : edit.changes \in [S -> ResourceChange]
    BY <1>1
<1> QED
    BY <1>2 DEF ResourceChange

\* Applying a transaction to a document, either way, gives a document.
LEMMA PatchedType ==
    ASSUME NEW doc \in States, NEW edit \in Edits, NEW forward \in BOOLEAN
    PROVE  Patched(doc, edit, forward) \in States
<1>0. doc.runs \in Runs /\ doc.text \in Texts \cup Foreign
    BY DEF States
<1>1. CASE edit.kind = "description"
    <2>1. edit.before \in Texts /\ edit.after \in Texts
        BY <1>1 DEF Edits
    <2> QED
        BY <1>1, <2>1 DEF Patched, States
<1>2. CASE edit.kind # "description"
    <2> DEFINE new(k) ==
                 IF k \notin DOMAIN edit.changes THEN doc.runs[k]
                 ELSE LET c == edit.changes[k] IN
                      IF forward THEN Applied(doc.runs[k], c.after, c.before)
                                 ELSE Applied(doc.runs[k], c.before, c.after)
               r == [k \in Keys |-> new(k)]
    <2>1. /\ DOMAIN doc.runs = Keys
          /\ \A k \in Keys : doc.runs[k] \in Run
          /\ \A k \in Single : k \in Keys /\ Len(doc.runs[k]) <= 1
        BY <1>0, RunsFacts
    <2>2. ASSUME NEW k \in Keys
          PROVE  new(k) \in Run /\ (Len(doc.runs[k]) <= 1 => Len(new(k)) <= 1)
        <3>1. CASE k \notin DOMAIN edit.changes
            BY <3>1, <2>1
        <3>2. CASE k \in DOMAIN edit.changes
            BY <3>2, <2>1, <1>2, ChangesType, AppliedType, AppliedShort
        <3> QED
            BY <3>1, <3>2
    <2> HIDE DEF new
    <2>3. r \in [Keys -> Run] /\ \A k \in Single : Len(r[k]) <= 1
        BY <2>1, <2>2
    <2>4. r \in Runs
        BY <2>3, RunsType
    <2> HIDE DEF r
    <2>5. Patched(doc, edit, forward) = [doc EXCEPT !.runs = r]
        BY <1>2, <2>1 DEF Patched, r, new
    <2> QED
        BY <2>4, <2>5 DEF States
<1> QED
    BY <1>1, <1>2

\* What is shown of a document is a document of the time line.
LEMMA ShownType ==
    ASSUME NEW doc \in States
    PROVE  Shown(doc) \in Shows
<1>1. doc.runs \in Runs /\ doc.text \in Texts \cup Foreign
    BY DEF States
<1>2. Read[doc.text] \in Texts
    BY <1>1, TextsAssumption
<1> QED
    BY <1>1, <1>2, RunsFacts DEF Shown, Shows

\* A transaction treats each key, and the description, by itself: what it
\* makes of a document is seen from what was shown of the document.
LEMMA PatchedShown ==
    ASSUME NEW doc \in States, NEW edit \in Edits, NEW forward \in BOOLEAN
    PROVE  Shown(Patched(doc, edit, forward)) = Patched(Shown(doc), edit, forward)
<1>0. doc.runs \in Runs /\ doc.text \in Texts \cup Foreign
    BY DEF States
<1>1. CASE edit.kind = "description"
    <2>1. edit.before \in Texts /\ edit.after \in Texts
        BY <1>1 DEF Edits
    <2> DEFINE t == IF forward THEN edit.after ELSE edit.before
    <2>2. Read[t] = t
        BY <2>1, TextsAssumption
    <2> HIDE DEF t
    <2>3. /\ Patched(doc, edit, forward) = [doc EXCEPT !.text = t]
          /\ Patched(Shown(doc), edit, forward) = [Shown(doc) EXCEPT !.text = t]
        BY <1>1 DEF Patched, t
    <2> QED
        BY <2>2, <2>3 DEF Shown, States
<1>2. CASE edit.kind # "description"
    <2> DEFINE new(run, k) ==
                 IF k \notin DOMAIN edit.changes THEN run
                 ELSE LET c == edit.changes[k] IN
                      IF forward THEN Applied(run, c.after, c.before)
                                 ELSE Applied(run, c.before, c.after)
    <2>1. DOMAIN doc.runs = Keys /\ Single \subseteq Keys
        BY <1>0, RunsFacts
    <2>2. Patched(doc, edit, forward)
            = [doc EXCEPT !.runs = [k \in Keys |-> new(doc.runs[k], k)]]
        BY <1>2, <2>1 DEF Patched
    <2>3. Patched(Shown(doc), edit, forward)
            = [Shown(doc) EXCEPT !.runs =
                  [k \in Single |-> new(Shown(doc).runs[k], k)]]
        BY <1>2 DEF Patched, Shown
    <2> HIDE DEF new
    <2>4. /\ Patched(doc, edit, forward).runs = [k \in Keys |-> new(doc.runs[k], k)]
          /\ Patched(doc, edit, forward).text = doc.text
        BY <2>2 DEF States
    <2>5. Shown(Patched(doc, edit, forward))
            = [runs |-> [k \in Single |-> new(doc.runs[k], k)],
               text |-> Read[doc.text]]
        BY <2>1, <2>4 DEF Shown
    <2>6. \A k \in Single : Shown(doc).runs[k] = doc.runs[k]
        BY DEF Shown
    <2>7. [k \in Single |-> new(Shown(doc).runs[k], k)]
            = [k \in Single |-> new(doc.runs[k], k)]
        BY <2>6
    <2> QED
        BY <2>3, <2>5, <2>7 DEF Shown
<1> QED
    BY <1>1, <1>2

\* The document is one, and what is shown of it a state of the time line.
LEMMA DocumentType == TypeOK => Document \in States /\ Shown(Document) \in Shows
<1> SUFFICES ASSUME TypeOK PROVE Document \in States /\ Shown(Document) \in Shows
    OBVIOUS
<1>1. Document \in States
    BY DEF TypeOK, Document, States
<1> QED
    BY <1>1, ShownType

\* The record of a resource edit is an edit.
LEMMA ResourcesType ==
    ASSUME NEW S \in SUBSET Keys, NEW c \in [S -> ResourceChange]
    PROVE  Resources(c) \in Edits
BY DEF Resources, Edits

\* The record of a description edit is an edit.
LEMMA DescriptionType ==
    ASSUME NEW b \in Texts, NEW a \in Texts
    PROVE  Description(b, a) \in Edits
BY DEF Description, Edits

\* The loop of record goes round at most once for each transaction, and at
\* least once if the history has more than MaxSteps of them.
LEMMA ExpiredRange ==
    ASSUME NEW stack, NEW n \in Nat, Len(stack) = n, NEW total
    PROVE  /\ Expired(stack, total) \in 0..n
           /\ n > MaxSteps => Expired(stack, total) > 0
<1> DEFINE tooLarge(i) == \/ Len(stack) - i > MaxSteps
                          \/ Minus(total, BytesUpTo(stack)[i]) > MaxBytes
           rounds == {i \in 0..(n - 1) : tooLarge(i)}
<1>1. Expired(stack, total) = Cardinality(rounds)
    BY DEF Expired
<1> HIDE DEF tooLarge
<1>2. IsFiniteSet(0..(n - 1)) /\ Cardinality(0..(n - 1)) = n
    <2>1. 0 \in Int /\ n - 1 \in Int /\ (0 > n - 1 <=> n = 0)
        OBVIOUS
    <2> QED
        BY <2>1, FS_Interval
<1>3. rounds \subseteq 0..(n - 1)
    OBVIOUS
<1>4. IsFiniteSet(rounds) /\ Cardinality(rounds) <= n
    BY <1>2, <1>3, FS_Subset
<1>5. Cardinality(rounds) \in Nat
    BY <1>4, FS_CardinalityType
<1>6. ASSUME n > MaxSteps PROVE Cardinality(rounds) # 0
    <2>1. tooLarge(0)
        BY <1>6, BoundsAssumption DEF tooLarge
    <2>2. 0 \in rounds
        BY <2>1, <1>6, BoundsAssumption
    <2> QED
        BY <2>2, <1>4, FS_EmptySet
<1> QED
    BY <1>1, <1>4, <1>5, <1>6

\* What record leaves: the stack and the time line, each with the new edit
\* at its end, less the same number n of their oldest elements.
LEMMA RecordEffect ==
    ASSUME TypeOK, NEW edit \in Edits, NEW size \in Nat, Record(edit, size)
    PROVE  /\ redo' = <<>> /\ future' = <<>> /\ bytes' \in Nat
           /\ \/ undo' = <<>> /\ past' = <<>>
              \/ \E n \in 0..(Len(undo) + 1), t \in Transactions :
                    /\ t.edit = edit /\ t.dirtyBefore = dirty
                    /\ undo' = SubSeq(Append(undo, t), n + 1, Len(undo) + 1)
                    /\ past' = SubSeq(Append(past, Shown(Document)), n + 1, Len(undo) + 1)
                    /\ Len(undo) + 1 > MaxSteps => n > 0
<1>1. CASE size > MaxBytes
    BY <1>1 DEF Record, ClearHistory
<1>2. CASE ~(size > MaxBytes)
    <2> DEFINE t == [edit |-> edit, dirtyBefore |-> dirty,
                     dirtyAfter |-> TRUE, bytes |-> size]
               stack == Append(undo, t)
               total == Minus(bytes, StackBytes(redo)) + size
               n == Expired(stack, total)
    <2>1. size \in Nat
        BY BoundsAssumption
    <2>2. t \in Transactions
        BY <2>1 DEF Transactions, TypeOK
    <2>3. Len(stack) = Len(undo) + 1 /\ Len(undo) \in Nat
        BY <2>2 DEF TypeOK
    <2> HIDE DEF t
    <2> HIDE DEF stack, total
    <2>4. n \in 0..(Len(undo) + 1) /\ (Len(undo) + 1 > MaxSteps => n > 0)
        <3>1. Len(undo) + 1 \in Nat
            BY <2>3
        <3> QED
            BY <2>3, <3>1, ExpiredRange
    <2>5. Minus(total, BytesUpTo(stack)[n]) \in Nat
        BY DEF Minus
    <2>6. /\ undo' = SubSeq(stack, n + 1, Len(stack))
          /\ past' = SubSeq(Append(past, Shown(Document)), n + 1, Len(stack))
          /\ bytes' = Minus(total, BytesUpTo(stack)[n])
          /\ redo' = <<>> /\ future' = <<>>
        BY <1>2 DEF Record, t, stack, total
    <2>7. t.edit = edit /\ t.dirtyBefore = dirty
        BY DEF t
    <2> HIDE DEF n
    <2> QED
        BY <2>2, <2>3, <2>4, <2>5, <2>6, <2>7 DEF stack
<1> QED
    BY <1>1, <1>2

----------------------------------------------------------------------------
(* Types.                                                                  *)

\* A suffix of a stack is a stack, as long as what it keeps.
LEMMA SuffixType ==
    ASSUME NEW S, NEW s \in Seq(S), NEW n \in 0..Len(s)
    PROVE  /\ SubSeq(s, n + 1, Len(s)) \in Seq(S)
           /\ Len(SubSeq(s, n + 1, Len(s))) = Len(s) - n
           /\ \A i \in 1..(Len(s) - n) : SubSeq(s, n + 1, Len(s))[i] = s[i + n]
OBVIOUS

\* Appending to a stack.
LEMMA AppendType ==
    ASSUME NEW S, NEW s \in Seq(S), NEW e \in S
    PROVE  /\ Append(s, e) \in Seq(S)
           /\ Len(Append(s, e)) = Len(s) + 1
           /\ \A i \in 1..Len(s) : Append(s, e)[i] = s[i]
           /\ Append(s, e)[Len(s) + 1] = e
OBVIOUS

\* A prefix of a stack.
LEMMA PrefixType ==
    ASSUME NEW S, NEW s \in Seq(S), NEW n \in 0..Len(s)
    PROVE  /\ SubSeq(s, 1, n) \in Seq(S)
           /\ Len(SubSeq(s, 1, n)) = n
           /\ \A i \in 1..n : SubSeq(s, 1, n)[i] = s[i]
OBVIOUS

\* A stack without its last element.
LEMMA FrontType ==
    ASSUME NEW S, NEW s \in Seq(S), s # <<>>
    PROVE  /\ SubSeq(s, 1, Len(s) - 1) \in Seq(S)
           /\ Len(SubSeq(s, 1, Len(s) - 1)) = Len(s) - 1
           /\ \A i \in 1..(Len(s) - 1) : SubSeq(s, 1, Len(s) - 1)[i] = s[i]
           /\ Len(s) \in 1..Len(s) /\ s[Len(s)] \in S
<1>1. Len(s) \in Nat \ {0}
    OBVIOUS
<1>2. Len(s) - 1 \in 0..Len(s)
    BY <1>1
<1>3. Len(s) \in 1..Len(s) /\ s[Len(s)] \in S
    BY <1>1
<1>4. /\ SubSeq(s, 1, Len(s) - 1) \in Seq(S)
      /\ Len(SubSeq(s, 1, Len(s) - 1)) = Len(s) - 1
      /\ \A i \in 1..(Len(s) - 1) : SubSeq(s, 1, Len(s) - 1)[i] = s[i]
    BY <1>2, PrefixType, Zenon
<1> QED
    BY <1>3, <1>4

\* An empty stack.
LEMMA EmptyType == ASSUME NEW S PROVE <<>> \in Seq(S) /\ Len(<<>>) = 0
OBVIOUS

\* Recording an edit keeps the types and the bound on the number of steps.
LEMMA RecordType ==
    ASSUME TypeOK, NEW edit \in Edits, NEW size \in Nat, Record(edit, size)
    PROVE  /\ undo' \in Seq(Transactions) /\ redo' \in Seq(Transactions)
           /\ bytes' \in Nat
           /\ past' \in Seq(Shows) /\ future' \in Seq(Shows)
           /\ Len(past') = Len(undo') /\ Len(future') = Len(redo')
           /\ StepsBounded => StepsBounded'
<1>1. /\ redo' = <<>> /\ future' = <<>> /\ bytes' \in Nat
      /\ \/ undo' = <<>> /\ past' = <<>>
         \/ \E n \in 0..(Len(undo) + 1), t \in Transactions :
               /\ t.edit = edit /\ t.dirtyBefore = dirty
               /\ undo' = SubSeq(Append(undo, t), n + 1, Len(undo) + 1)
               /\ past' = SubSeq(Append(past, Shown(Document)), n + 1, Len(undo) + 1)
               /\ Len(undo) + 1 > MaxSteps => n > 0
    BY RecordEffect
<1>3. ASSUME NEW n \in 0..(Len(undo) + 1), NEW t \in Transactions,
             undo' = SubSeq(Append(undo, t), n + 1, Len(undo) + 1),
             past' = SubSeq(Append(past, Shown(Document)), n + 1, Len(undo) + 1),
             Len(undo) + 1 > MaxSteps => n > 0
      PROVE  /\ undo' \in Seq(Transactions) /\ past' \in Seq(Shows)
             /\ Len(past') = Len(undo')
             /\ StepsBounded => Len(undo') <= MaxSteps
    <2>1. /\ undo \in Seq(Transactions) /\ past \in Seq(Shows)
          /\ redo \in Seq(Transactions)
          /\ Len(past) = Len(undo) /\ Shown(Document) \in Shows
        BY DocumentType, ShownType DEF TypeOK
    <2>2. /\ Append(undo, t) \in Seq(Transactions)
          /\ Append(past, Shown(Document)) \in Seq(Shows)
          /\ Len(Append(undo, t)) = Len(undo) + 1
          /\ Len(Append(past, Shown(Document))) = Len(undo) + 1
        BY <2>1, AppendType
    <2>3. /\ undo' \in Seq(Transactions) /\ past' \in Seq(Shows)
          /\ Len(undo') = Len(undo) + 1 - n /\ Len(past') = Len(undo) + 1 - n
        BY <1>3, <2>2, SuffixType
    <2>4. StepsBounded => Len(undo) <= MaxSteps
        BY <2>1, BoundsAssumption DEF StepsBounded
    <2>5. Len(undo) \in Nat /\ Len(past') = Len(undo')
        BY <2>1, <2>3
    <2>6. ASSUME StepsBounded PROVE Len(undo') <= MaxSteps
        <3>1. Len(undo) <= MaxSteps
            BY <2>4, <2>6
        <3> QED
            BY <3>1, <2>3, <2>5, <1>3, BoundsAssumption
    <2> QED
        BY <2>3, <2>5, <2>6
<1>4. Len(redo') = 0 /\ redo' \in Seq(Transactions) /\ future' \in Seq(Shows)
      /\ Len(future') = 0
    BY <1>1
<1>5. undo' \in Seq(Transactions) /\ past' \in Seq(Shows)
      /\ Len(past') = Len(undo') /\ (StepsBounded => Len(undo') <= MaxSteps)
    <2>1. CASE undo' = <<>> /\ past' = <<>>
        <3>1. 0 <= MaxSteps
            BY BoundsAssumption
        <3> QED
            BY <2>1, <3>1, EmptyType
    <2>2. CASE ~(undo' = <<>> /\ past' = <<>>)
        <3>1. PICK n \in 0..(Len(undo) + 1), t \in Transactions :
               /\ undo' = SubSeq(Append(undo, t), n + 1, Len(undo) + 1)
               /\ past' = SubSeq(Append(past, Shown(Document)), n + 1, Len(undo) + 1)
               /\ Len(undo) + 1 > MaxSteps => n > 0
            BY <1>1, <2>2
        <3> QED
            BY <3>1, <1>3
    <2> QED
        BY <2>1, <2>2
<1>6. ASSUME StepsBounded PROVE StepsBounded'
    <2>1. Len(undo') \in Nat /\ Len(undo') <= MaxSteps
        BY <1>5, <1>6
    <2> QED
        BY <2>1, <1>4, BoundsAssumption DEF StepsBounded
<1> QED
    BY <1>1, <1>4, <1>5, <1>6

\* A run without equal keys is empty or one entry ...
LEMMA UniqueRun ==
    ASSUME NEW run \in Run, Len(run) <= 1
    PROVE  \/ run = <<>>
           \/ Len(run) = 1 /\ run[1] \in Data /\ run = <<run[1]>>
<1>1. run \in Seq(Data) /\ Len(run) \in 0..1
    BY ShortRun
<1> QED
    BY <1>1

\* ... and a change takes it from what was before to what is after.
LEMMA UniqueApplied ==
    ASSUME NEW a \in Run, NEW b \in Run, Len(a) <= 1, Len(b) <= 1
    PROVE  Applied(a, b, a) = b
<1>1. CASE b = <<>>
    <2>1. a \in Seq(Data)
        BY RunIsSeq
    <2>2. SubSeq(a, Len(a) + 1, Len(a)) = <<>>
        BY <2>1
    <2> QED
        BY <1>1, <2>2 DEF Applied
<1>2. CASE b # <<>>
    <2>1. Len(b) = 1 /\ b[1] \in Data /\ b = <<b[1]>>
        BY <1>2, UniqueRun
    <2>2. WithFirst(a, b[1]) = <<b[1]>>
        BY <2>1, WithFirstShort
    <2> QED
        BY <1>2, <2>1, <2>2 DEF Applied
<1> QED
    BY <1>1, <1>2

\* The selections there are in such a run.
LEMMA UniquePositions ==
    ASSUME NEW at \in Increasing(MaxCopies), \A i \in Taken(at) : i = 1
    PROVE  at \in {<<>>, <<1>>}
<1>1. PICK m \in 0..MaxCopies : at \in [1..m -> 1..MaxCopies]
    BY DEF Increasing
<1>2. \A i, j \in DOMAIN at : i < j => at[i] < at[j]
    BY DEF Increasing
<1>3. m \in Nat /\ DOMAIN at = 1..m
    BY <1>1, BoundsAssumption
<1>4. \A i \in 1..m : at[i] = 1
    BY <1>3 DEF Taken
<1>5. m \in 0..1
    <2> SUFFICES ASSUME m > 1 PROVE FALSE
        BY <1>3
    <2>1. 1 \in 1..m /\ 2 \in 1..m
        BY <1>3
    <2> QED
        BY <1>2, <1>3, <1>4, <2>1
<1>6. at \in Seq(1..1) /\ Len(at) = m
    BY <1>1, <1>3, <1>4
<1> QED
    BY <1>5, <1>6

\* A resource edit whose changes say what each key held before and after
\* leads, for keys that are not held twice, from the one document to the
\* other and back.
LEMMA ResourcesLink ==
    ASSUME NEW r0 \in Runs, NEW r1 \in Runs, NEW t,
           NEW S \in SUBSET Keys, NEW c \in [S -> ResourceChange],
           \A k \in S : k \in Single =>
                           c[k].before = r0[k] /\ c[k].after = r1[k],
           \A k \in Keys \ S : k \in Single => r1[k] = r0[k]
    PROVE  Links(Resources(c), Shown([runs |-> r0, text |-> t]),
                               Shown([runs |-> r1, text |-> t]))
<1> DEFINE d0 == Shown([runs |-> r0, text |-> t])
           d1 == Shown([runs |-> r1, text |-> t])
<1>0. \A k \in Single : /\ k \in Keys /\ r0[k] \in Run /\ r1[k] \in Run
                         /\ Len(r0[k]) <= 1 /\ Len(r1[k]) <= 1
    BY RunsFacts
<1>1. \A k \in Single : k \in S =>
            /\ Applied(r0[k], c[k].after, c[k].before) = r1[k]
            /\ Applied(r1[k], c[k].before, c[k].after) = r0[k]
    BY <1>0, UniqueApplied
<1>2. Resources(c).kind = "resources" /\ Resources(c).changes = c
    BY DEF Resources
<1>3. DOMAIN c = S
    OBVIOUS
<1>4. /\ d0 = [runs |-> [k \in Single |-> r0[k]], text |-> Read[t]]
      /\ d1 = [runs |-> [k \in Single |-> r1[k]], text |-> Read[t]]
    BY DEF Shown
<1> HIDE DEF d0, d1
<1>5. Patched(d0, Resources(c), TRUE) = d1
    <2>1. [k \in Single |-> IF k \notin S THEN r0[k]
                          ELSE Applied(r0[k], c[k].after, c[k].before)]
            = [k \in Single |-> r1[k]]
        BY <1>0, <1>1
    <2> QED
        BY <1>2, <1>3, <1>4, <2>1 DEF Patched
<1>6. Patched(d1, Resources(c), FALSE) = d0
    <2>1. [k \in Single |-> IF k \notin S THEN r1[k]
                          ELSE Applied(r1[k], c[k].before, c[k].after)]
            = [k \in Single |-> r0[k]]
        BY <1>0, <1>1
    <2> QED
        BY <1>2, <1>3, <1>4, <2>1 DEF Patched
<1> QED
    BY <1>5, <1>6 DEF Links, d0, d1

\* A description edit leads from the one text, as it is read, to the other
\* and back.
LEMMA DescriptionLink ==
    ASSUME NEW r, NEW b \in Texts \cup Foreign, NEW a \in Texts
    PROVE  Links(Description(Read[b], a), Shown([runs |-> r, text |-> b]),
                                          Shown([runs |-> r, text |-> a]))
<1>1. Read[a] = a
    BY TextsAssumption
<1> QED
    BY <1>1 DEF Links, Description, Patched, Shown

\* Each of the four edits is one Commit of a well-typed transaction to a
\* well-typed document; the transaction links what is shown of the two.
LEMMA EditStep ==
    ASSUME TypeOK, Import \/ Merge \/ Delete \/ Describe
    PROVE  /\ \E edit \in Edits :
                  Commit(edit) /\ Links(edit, Shown(Document), Shown(Document)')
           /\ runs' \in Runs /\ text' \in Texts \cup Foreign
<1>0. runs \in Runs /\ runs \in [Keys -> Run] /\ text \in Texts \cup Foreign
    BY RunsFacts DEF TypeOK
<1>00. \A k \in Single : k \in Keys /\ runs[k] \in Run /\ Len(runs[k]) <= 1
    BY <1>0, RunsFacts
<1>1. CASE Import
    <2>1. PICK incoming \in Incoming :
            LET new(k) == IF runs[k] = <<>> THEN <<incoming[k]>>
                          ELSE [runs[k] EXCEPT ![Len(runs[k])] = incoming[k]]
                old(k) == IF runs[k] = <<>> THEN <<>>
                          ELSE <<runs[k][Len(runs[k])]>>
            IN  /\ runs' = [k \in Keys |-> IF k \in DOMAIN incoming
                                           THEN new(k) ELSE runs[k]]
                /\ UNCHANGED text
                /\ Commit(Resources([k \in DOMAIN incoming |->
                          [before |-> old(k), after |-> <<incoming[k]>>]]))
        BY <1>1 DEF Import
    <2>0. PICK S \in SUBSET Keys : incoming \in [S -> Data]
        BY DEF Incoming
    <2> DEFINE new(k) == IF runs[k] = <<>> THEN <<incoming[k]>>
                         ELSE [runs[k] EXCEPT ![Len(runs[k])] = incoming[k]]
               old(k) == IF runs[k] = <<>> THEN <<>>
                         ELSE <<runs[k][Len(runs[k])]>>
    <2>2. ASSUME NEW k \in S
          PROVE  new(k) \in Run /\ old(k) \in Run
        <3>1. runs[k] \in Run /\ incoming[k] \in Data
            BY <1>0, <2>0
        <3>2. runs[k] \in Seq(Data)
            BY <3>1, RunIsSeq
        <3>3. <<incoming[k]>> \in Run /\ <<>> \in Run
            BY <3>1, ShortRuns
        <3>4. runs[k] # <<>> => /\ runs[k][Len(runs[k])] \in Data
                                /\ <<runs[k][Len(runs[k])]>> \in Run
            BY <3>2, ShortRuns
        <3>5. [runs[k] EXCEPT ![Len(runs[k])] = incoming[k]] \in Run
            BY <3>1, ReplaceType
        <3> QED
            BY <3>3, <3>4, <3>5
    <2>3. \A k \in S : <<incoming[k]>> \in Run
        BY <2>0, ShortRuns
    <2> HIDE DEF new, old
    <2>4. [k \in DOMAIN incoming |->
              [before |-> old(k), after |-> <<incoming[k]>>]] \in [S -> ResourceChange]
        BY <2>0, <2>2, <2>3 DEF ResourceChange
    <2>5. ASSUME NEW k \in S, k \in Single
          PROVE  old(k) = runs[k] /\ new(k) = <<incoming[k]>> /\ Len(new(k)) = 1
        <3>1. runs[k] \in Run /\ Len(runs[k]) <= 1 /\ Len(<<incoming[k]>>) = 1
            BY <1>00, <2>5
        <3>2. CASE runs[k] = <<>>
            BY <3>1, <3>2 DEF old, new
        <3>3. CASE runs[k] # <<>>
            <4>1. Len(runs[k]) = 1 /\ runs[k] = <<runs[k][1]>>
                BY <3>1, <3>3, UniqueRun
            <4>2. [<<runs[k][1]>> EXCEPT ![1] = incoming[k]] = <<incoming[k]>>
                OBVIOUS
            <4> QED
                BY <3>1, <3>3, <4>1, <4>2 DEF old, new
        <3> QED
            BY <3>2, <3>3
    <2>51. runs' = [k \in Keys |-> IF k \in S THEN new(k) ELSE runs[k]]
        BY <2>0, <2>1 DEF new
    <2>52. runs' \in [Keys -> Run] /\ \A k \in Single : Len(runs'[k]) <= 1
        <3>1. \A k \in Keys : (IF k \in S THEN new(k) ELSE runs[k]) \in Run
            BY <1>0, <2>2
        <3>2. runs' \in [Keys -> Run]
            BY <2>51, <3>1
        <3>3. ASSUME NEW k \in Single PROVE Len(runs'[k]) <= 1
            <4>1. k \in Keys /\ Len(runs[k]) <= 1 /\ 1 <= 1
                BY <1>00
            <4>2. k \in S => runs'[k] = new(k) /\ Len(new(k)) = 1
                BY <2>5, <2>51, <4>1
            <4>3. k \notin S => runs'[k] = runs[k]
                BY <2>51, <4>1
            <4> QED
                BY <4>1, <4>2, <4>3
        <3> QED
            BY <3>2, <3>3
    <2>53. runs' \in Runs
        BY <2>52, RunsType
    <2>6. Commit(Resources([k \in DOMAIN incoming |->
                          [before |-> old(k), after |-> <<incoming[k]>>]]))
        BY <2>1 DEF old
    <2>7. Links(Resources([k \in DOMAIN incoming |->
                          [before |-> old(k), after |-> <<incoming[k]>>]]),
                Shown(Document), Shown(Document)')
        <3>1. \A k \in Keys \ S : runs'[k] = runs[k]
            BY <2>51
        <3>2. \A k \in S : k \in Single => old(k) = runs[k] /\ <<incoming[k]>> = runs'[k]
            BY <2>5, <2>51
        <3> QED
            BY <1>0, <2>0, <2>1, <2>4, <2>53, <3>1, <3>2, ResourcesLink
            DEF Document
    <2> QED
        BY <1>0, <2>0, <2>1, <2>4, <2>53, <2>6, <2>7, ResourcesType
<1>2. CASE Merge
    <2>1. PICK incoming \in Incoming :
            /\ runs' = [k \in Keys |-> IF k \in DOMAIN incoming
                          THEN WithFirst(runs[k], incoming[k]) ELSE runs[k]]
            /\ UNCHANGED text
            /\ Commit(Resources([k \in DOMAIN incoming |->
                  [before |-> SubSeq(runs[k], 1, IF runs[k] = <<>> THEN 0 ELSE 1),
                   after |-> <<incoming[k]>>]]))
        BY <1>2 DEF Merge
    <2>0. PICK S \in SUBSET Keys : incoming \in [S -> Data]
        BY DEF Incoming
    <2> DEFINE old(k) == SubSeq(runs[k], 1, IF runs[k] = <<>> THEN 0 ELSE 1)
    <2>2. ASSUME NEW k \in S
          PROVE  /\ WithFirst(runs[k], incoming[k]) \in Run
                 /\ old(k) \in Run /\ <<incoming[k]>> \in Run
        <3>1. runs[k] \in Run /\ incoming[k] \in Data
            BY <1>0, <2>0
        <3>2. runs[k] \in Seq(Data)
            BY <3>1, RunIsSeq
        <3>3. <<incoming[k]>> \in Run
            BY <3>1, ShortRuns
        <3>4. old(k) \in Seq(Data) /\ Len(old(k)) <= 1
            BY <3>2
        <3> HIDE DEF old
        <3>5. old(k) \in Run
            BY <3>4, SeqIsRun, BoundsAssumption
        <3> QED
            BY <3>1, <3>3, <3>5, WithFirstType
    <2>3. ASSUME NEW k \in S, k \in Single
          PROVE  /\ old(k) = runs[k]
                 /\ WithFirst(runs[k], incoming[k]) = <<incoming[k]>>
                 /\ Len(WithFirst(runs[k], incoming[k])) = 1
        <3>1. runs[k] \in Run /\ incoming[k] \in Data /\ Len(runs[k]) <= 1
            BY <1>00, <2>0, <2>3
        <3>2. runs[k] = <<>> \/ (Len(runs[k]) = 1 /\ runs[k] = <<runs[k][1]>>)
            BY <3>1, UniqueRun
        <3>3. /\ WithFirst(runs[k], incoming[k]) = <<incoming[k]>>
              /\ Len(WithFirst(runs[k], incoming[k])) = 1
            BY <3>1, WithFirstShort
        <3>4. CASE runs[k] = <<>>
            BY <3>3, <3>4
        <3>5. CASE runs[k] # <<>>
            <4>1. runs[k] \in Seq(Data) /\ Len(runs[k]) = 1
                BY <3>1, <3>2, <3>5, RunIsSeq
            <4>2. SubSeq(runs[k], 1, 1) = runs[k]
                BY <4>1
            <4> QED
                BY <3>3, <3>5, <4>2
        <3> QED
            BY <3>4, <3>5
    <2>31. runs' = [k \in Keys |-> IF k \in S THEN WithFirst(runs[k], incoming[k])
                                   ELSE runs[k]]
        BY <2>0, <2>1
    <2>32. runs' \in [Keys -> Run] /\ \A k \in Single : Len(runs'[k]) <= 1
        <3>1. \A k \in Keys : (IF k \in S THEN WithFirst(runs[k], incoming[k]) ELSE runs[k]) \in Run
            BY <1>0, <2>2
        <3>2. runs' \in [Keys -> Run]
            BY <2>31, <3>1
        <3>3. ASSUME NEW k \in Single PROVE Len(runs'[k]) <= 1
            <4>1. k \in Keys /\ Len(runs[k]) <= 1 /\ 1 <= 1
                BY <1>00
            <4>2. k \in S => runs'[k] = WithFirst(runs[k], incoming[k]) /\ Len(WithFirst(runs[k], incoming[k])) = 1
                BY <2>3, <2>31, <4>1
            <4>3. k \notin S => runs'[k] = runs[k]
                BY <2>31, <4>1
            <4> QED
                BY <4>1, <4>2, <4>3
        <3> QED
            BY <3>2, <3>3
    <2>33. runs' \in Runs
        BY <2>32, RunsType
    <2> HIDE DEF old
    <2>4. [k \in DOMAIN incoming |->
              [before |-> old(k), after |-> <<incoming[k]>>]] \in [S -> ResourceChange]
        BY <2>0, <2>2 DEF ResourceChange
    <2>5. Commit(Resources([k \in DOMAIN incoming |->
                          [before |-> old(k), after |-> <<incoming[k]>>]]))
        BY <2>1 DEF old
    <2>6. Links(Resources([k \in DOMAIN incoming |->
                          [before |-> old(k), after |-> <<incoming[k]>>]]),
                Shown(Document), Shown(Document)')
        <3>1. \A k \in Keys \ S : runs'[k] = runs[k]
            BY <2>31
        <3>2. \A k \in S : k \in Single => old(k) = runs[k] /\ <<incoming[k]>> = runs'[k]
            BY <2>3, <2>31
        <3> QED
            BY <1>0, <2>0, <2>1, <2>4, <2>33, <3>1, <3>2, ResourcesLink DEF Document
    <2> QED
        BY <1>0, <2>0, <2>1, <2>33, <2>4, <2>5, <2>6, ResourcesType
<1>3. CASE Delete
    <2>1. PICK gone \in [Keys -> Increasing(MaxCopies)],
               kept \in [Keys -> Increasing(MaxCopies)] :
            LET touched == {k \in Keys : gone[k] # <<>>} IN
            /\ \A k \in Keys :
                  /\ Taken(gone[k]) \cup Taken(kept[k]) = 1..Len(runs[k])
                  /\ Taken(gone[k]) \cap Taken(kept[k]) = {}
            /\ runs' = [k \in Keys |-> Pick(runs[k], kept[k])]
            /\ UNCHANGED text
            /\ Commit(Resources([k \in touched |->
                      [before |-> Pick(runs[k], gone[k]), after |-> <<>>]]))
        BY <1>3 DEF Delete, Selections
    <2> DEFINE touched == {k \in Keys : gone[k] # <<>>}
    <2>2. \A k \in Keys : Pick(runs[k], gone[k]) \in Run /\ Pick(runs[k], kept[k]) \in Run
        BY <1>0, <2>1, PickType
    <2>3. <<>> \in Run
        BY ShortRuns
    <2>4. [k \in touched |-> [before |-> Pick(runs[k], gone[k]), after |-> <<>>]]
             \in [touched -> ResourceChange]
        BY <2>2, <2>3 DEF ResourceChange
    <2>5. touched \in SUBSET Keys
        OBVIOUS
    <2>6. ASSUME NEW k \in Single
          PROVE  /\ k \in touched => /\ Pick(runs[k], gone[k]) = runs[k]
                                    /\ Pick(runs[k], kept[k]) = <<>>
                 /\ k \notin touched => Pick(runs[k], kept[k]) = runs[k]
        <3>0. k \in Keys /\ runs[k] \in Run /\ Len(runs[k]) <= 1
            BY <1>00
        <3>1. runs[k] = <<>> \/ (Len(runs[k]) = 1 /\ runs[k] = <<runs[k][1]>>)
            BY <3>0, UniqueRun
        <3>2. /\ Taken(gone[k]) \cup Taken(kept[k]) = 1..Len(runs[k])
              /\ Taken(gone[k]) \cap Taken(kept[k]) = {}
            BY <2>1, <3>0
        <3>3. 1..0 = {} /\ 1..1 = {1} /\ Len(<<>>) = 0
            OBVIOUS
        <3>4. \A i \in Taken(gone[k]) \cup Taken(kept[k]) : i = 1
            BY <3>1, <3>2, <3>3
        <3>5. gone[k] \in {<<>>, <<1>>} /\ kept[k] \in {<<>>, <<1>>}
            BY <2>1, <3>0, <3>4, UniquePositions
        <3>6. Taken(<<>>) = {} /\ Taken(<<1>>) = {1}
            BY DEF Taken
        <3>7. Pick(runs[k], <<>>) = <<>> /\ Pick(runs[k], <<1>>) = <<runs[k][1]>>
            BY DEF Pick
        <3> QED
            BY <3>0, <3>1, <3>2, <3>3, <3>5, <3>6, <3>7
    <2>62. runs' \in [Keys -> Run] /\ \A k \in Single : Len(runs'[k]) <= 1
        BY <1>00, <2>1, <2>2, <2>6, EmptyType
    <2>63. runs' \in Runs
        BY <2>62, RunsType
    <2>7. Commit(Resources([k \in touched |->
                      [before |-> Pick(runs[k], gone[k]), after |-> <<>>]]))
        BY <2>1
    <2>8. Links(Resources([k \in touched |->
                      [before |-> Pick(runs[k], gone[k]), after |-> <<>>]]),
                Shown(Document), Shown(Document)')
        <3>1. \A k \in touched : k \in Single =>
                  runs'[k] = <<>> /\ Pick(runs[k], gone[k]) = runs[k]
            BY <2>1, <2>6
        <3>2. \A k \in Keys \ touched : k \in Single => runs'[k] = runs[k]
            BY <2>1, <2>6
        <3> HIDE DEF touched
        <3> QED
            BY <1>0, <2>1, <2>4, <2>5, <2>63, <3>1, <3>2, ResourcesLink DEF Document
    <2> HIDE DEF touched
    <2> QED
        BY <1>0, <2>1, <2>4, <2>5, <2>63, <2>7, <2>8, ResourcesType
<1>4. CASE Describe
    <2>1. PICK t \in Texts :
              text' = t /\ runs' = runs /\ Commit(Description(Read[text], t))
        BY <1>4 DEF Describe
    <2>2. Links(Description(Read[text], t), Shown(Document), Shown(Document)')
        BY <1>0, <2>1, DescriptionLink DEF Document
    <2>3. Description(Read[text], t) \in Edits
        BY <1>0, TextsAssumption, DescriptionType
    <2> QED
        BY <1>0, <2>1, <2>2, <2>3
<1> QED
    BY <1>1, <1>2, <1>3, <1>4

\* The types and the bound on the number of steps, together.
TypeInv == TypeOK /\ StepsBounded

\* One step of any action keeps them.
LEMMA TypeStep == TypeInv /\ [Next]_vars => TypeInv'
<1> SUFFICES ASSUME TypeInv, [Next]_vars PROVE TypeInv'
    OBVIOUS
<1>0. TypeOK /\ StepsBounded
    BY DEF TypeInv
<1>1. CASE Import \/ Merge \/ Delete \/ Describe
    <2>1. /\ \E edit \in Edits : Commit(edit)
          /\ runs' \in Runs /\ text' \in Texts \cup Foreign
        BY <1>0, <1>1, EditStep
    <2>2. PICK edit \in Edits, size \in Nat :
              Record(edit, size) /\ dirty' = TRUE /\ disk' = disk
                                /\ failedLate' = failedLate
        BY <2>1, BoundsAssumption DEF Commit
    <2>3. /\ undo' \in Seq(Transactions) /\ redo' \in Seq(Transactions)
          /\ bytes' \in Nat
          /\ past' \in Seq(Shows) /\ future' \in Seq(Shows)
          /\ Len(past') = Len(undo') /\ Len(future') = Len(redo')
          /\ StepsBounded'
        BY <1>0, <2>2, RecordType
    <2> QED
        BY <1>0, <2>1, <2>2, <2>3 DEF TypeInv, TypeOK
<1>2. CASE Undo
    <2> DEFINE t == undo[Len(undo)]
    <2>1. /\ undo \in Seq(Transactions) /\ undo # <<>>
          /\ past \in Seq(Shows) /\ Len(past) = Len(undo) /\ past # <<>>
          /\ redo \in Seq(Transactions) /\ future \in Seq(Shows)
        BY <1>0, <1>2 DEF Undo, TypeOK
    <2>2. t \in Transactions
        BY <2>1, FrontType
    <2>3. t.edit \in Edits /\ t.dirtyBefore \in BOOLEAN
        BY <2>2 DEF Transactions
    <2>4. Document \in States /\ Patched(Document, t.edit, FALSE) \in States
        BY <1>0, <2>3, DocumentType, PatchedType
    <2>5. /\ runs' = Patched(Document, t.edit, FALSE).runs
          /\ text' = Patched(Document, t.edit, FALSE).text
          /\ dirty' = t.dirtyBefore
          /\ redo' = Append(redo, t)
          /\ undo' = SubSeq(undo, 1, Len(undo) - 1)
          /\ past' = SubSeq(past, 1, Len(past) - 1)
          /\ future' = Append(future, Shown(Document))
          /\ bytes' = bytes /\ disk' = disk /\ failedLate' = failedLate
        BY <1>2 DEF Undo, ApplyEdit
    <2> HIDE DEF t
    <2>6. /\ runs' \in Runs /\ text' \in Texts \cup Foreign
          /\ Shown(Document) \in Shows
        BY <2>4, <2>5, ShownType DEF States
    <2>7. /\ undo' \in Seq(Transactions) /\ Len(undo') = Len(undo) - 1
          /\ past' \in Seq(Shows) /\ Len(past') = Len(undo) - 1
        BY <2>1, <2>5, FrontType
    <2>8. /\ redo' \in Seq(Transactions) /\ Len(redo') = Len(redo) + 1
          /\ future' \in Seq(Shows) /\ Len(future') = Len(future) + 1
        BY <2>1, <2>2, <2>5, <2>6, AppendType
    <2>9. TypeOK'
        BY <1>0, <2>3, <2>5, <2>6, <2>7, <2>8 DEF TypeOK
    <2>10. StepsBounded'
        BY <1>0, <2>1, <2>7, <2>8, BoundsAssumption DEF StepsBounded
    <2> QED
        BY <2>9, <2>10 DEF TypeInv
<1>3. CASE Redo
    <2> DEFINE t == redo[Len(redo)]
    <2>1. /\ redo \in Seq(Transactions) /\ redo # <<>>
          /\ future \in Seq(Shows) /\ Len(future) = Len(redo) /\ future # <<>>
          /\ undo \in Seq(Transactions) /\ past \in Seq(Shows)
        BY <1>0, <1>3 DEF Redo, TypeOK
    <2>2. t \in Transactions
        BY <2>1, FrontType
    <2>3. t.edit \in Edits /\ t.dirtyAfter \in BOOLEAN
        BY <2>2 DEF Transactions
    <2>4. Document \in States /\ Patched(Document, t.edit, TRUE) \in States
        BY <1>0, <2>3, DocumentType, PatchedType
    <2>5. /\ runs' = Patched(Document, t.edit, TRUE).runs
          /\ text' = Patched(Document, t.edit, TRUE).text
          /\ dirty' = t.dirtyAfter
          /\ undo' = Append(undo, t)
          /\ redo' = SubSeq(redo, 1, Len(redo) - 1)
          /\ future' = SubSeq(future, 1, Len(future) - 1)
          /\ past' = Append(past, Shown(Document))
          /\ bytes' = bytes /\ disk' = disk /\ failedLate' = failedLate
        BY <1>3 DEF Redo, ApplyEdit
    <2> HIDE DEF t
    <2>6. /\ runs' \in Runs /\ text' \in Texts \cup Foreign
          /\ Shown(Document) \in Shows
        BY <2>4, <2>5, ShownType DEF States
    <2>7. /\ redo' \in Seq(Transactions) /\ Len(redo') = Len(redo) - 1
          /\ future' \in Seq(Shows) /\ Len(future') = Len(redo) - 1
        BY <2>1, <2>5, FrontType
    <2>8. /\ undo' \in Seq(Transactions) /\ Len(undo') = Len(undo) + 1
          /\ past' \in Seq(Shows) /\ Len(past') = Len(past) + 1
        BY <2>1, <2>2, <2>5, <2>6, AppendType
    <2>9. TypeOK'
        BY <1>0, <2>3, <2>5, <2>6, <2>7, <2>8 DEF TypeOK
    <2>10. StepsBounded'
        BY <1>0, <2>1, <2>7, <2>8, BoundsAssumption DEF StepsBounded
    <2> QED
        BY <2>9, <2>10 DEF TypeInv
<1>4. CASE Save
    <2>1. Document \in States /\ disk' = Document /\ dirty' = FALSE
          /\ failedLate' = FALSE
          /\ runs' = runs /\ text' = text
          /\ undo' = <<>> /\ redo' = <<>> /\ bytes' = 0
          /\ past' = <<>> /\ future' = <<>>
        BY <1>0, <1>4, DocumentType DEF Save, ClearHistory
    <2>2. StepsBounded'
        BY <2>1, EmptyType, BoundsAssumption DEF StepsBounded
    <2> QED
        BY <1>0, <1>4, <2>1, <2>2, EmptyType DEF TypeInv, TypeOK
<1>5. CASE SaveFailsLate
    <2>1. Document \in States
        BY <1>0, DocumentType
    <2> QED
        BY <1>0, <1>5, <2>1 DEF SaveFailsLate, history, TypeInv, TypeOK, StepsBounded
<1>6. CASE UNCHANGED vars
    BY <1>0, <1>6 DEF vars, history, TypeInv, TypeOK, StepsBounded
<1> QED
    BY <1>1, <1>2, <1>3, <1>4, <1>5, <1>6 DEF Next

\* The initial states have the types.
LEMMA TypeInit == Init => TypeInv
<1> SUFFICES ASSUME Init PROVE TypeInv
    OBVIOUS
<1>1. <<>> \in Run
    BY ShortRuns
<1>2. /\ runs \in Runs /\ text \in Texts \cup Foreign /\ dirty \in BOOLEAN
      /\ failedLate \in BOOLEAN
    <2>1. ASSUME runs = [k \in Keys |-> <<>>] PROVE runs \in Runs
        <3>1. Len(<<>>) = 0 /\ 0 <= 1
            OBVIOUS
        <3> QED
            BY <1>1, <2>1, <3>1 DEF Runs
    <2> QED
        BY <2>1, TextsAssumption DEF Init
<1>3. disk \in States \cup {NoFile}
    BY <1>2 DEF Init, Document, States
<1> QED
    BY <1>2, <1>3, BoundsAssumption DEF Init, TypeInv, TypeOK, StepsBounded

\* The tab's state is well typed, however many entries a file holds under
\* one key: in particular no run of equal keys ever grows.
THEOREM TypeCorrect == Spec => []TypeOK
<1>1. TypeInv => TypeOK
    BY DEF TypeInv
<1> QED
    BY <1>1, TypeInit, TypeStep, PTL DEF Spec

\* record bounds only the undo stack, and still undo and redo together never
\* hold more than MaxSteps transactions.
THEOREM StepsStayBounded == Spec => []StepsBounded
<1>1. TypeInv => StepsBounded
    BY DEF TypeInv
<1> QED
    BY <1>1, TypeInit, TypeStep, PTL DEF Spec

----------------------------------------------------------------------------
(* The estimated bytes.  BytesUpTo is recursive, so what it computes is an *)
(* induction over the natural numbers: Induct, from the fact that < is     *)
(* well founded on them, for a set instead of a predicate.                 *)

Less == {pair \in Nat \X Nat : pair[1] < pair[2]}

\* < is well founded.
LEMMA LessIsWellFounded == IsWellFoundedOn(Less, Nat)
BY NatLessThanWellFounded DEF OpToRel, Less

\* So every set of natural numbers that is not empty has a least element.
LEMMA Smallest ==
    ASSUME NEW S, S \subseteq Nat, S # {}
    PROVE  \E n \in S : \A m \in S : n <= m
<1>1. PICK n \in S : \A m \in S : <<m, n>> \notin Less
    BY LessIsWellFounded, WFMin
<1>2. ASSUME NEW m \in S, m < n PROVE FALSE
    <2>1. <<m, n>> \in Nat \X Nat /\ <<m, n>>[1] < <<m, n>>[2]
        BY <1>2
    <2>2. <<m, n>> \in Less
        BY <2>1 DEF Less
    <2> QED
        BY <1>1, <2>2
<1> QED
    BY <1>2

\* Induction: a set with 0 and the successor of each of its members.
LEMMA Induct ==
    ASSUME NEW S, 0 \in S, \A n \in Nat : n \in S => n + 1 \in S
    PROVE  Nat \subseteq S
<1> SUFFICES ASSUME Nat \ S # {} PROVE FALSE
    OBVIOUS
<1>1. PICK n \in Nat \ S : \A m \in Nat \ S : n <= m
    BY Smallest
<1>2. n # 0
    OBVIOUS
<1>3. n - 1 \in Nat /\ n - 1 \in S
    BY <1>1, <1>2
<1>4. (n - 1) + 1 = n
    OBVIOUS
<1> QED
    BY <1>3, <1>4

\* What the recursive definition in BytesUpTo says of its function.
Adds(sum, stack) ==
    sum = [n \in 0..Len(stack) |->
              IF n = 0 THEN 0 ELSE sum[n - 1] + stack[n].bytes]

\* Every transaction of a stack has a size.
LEMMA SizeType ==
    ASSUME NEW stack \in Seq(Transactions)
    PROVE  Len(stack) \in Nat /\ \A n \in 1..Len(stack) : stack[n].bytes \in Nat
<1>1. \A t \in Transactions : t.bytes \in Nat
    BY DEF Transactions
<1>2. Len(stack) \in Nat /\ \A n \in 1..Len(stack) : stack[n] \in Transactions
    OBVIOUS
<1> QED
    BY <1>1, <1>2

\* Such a function exists for every stack.
LEMMA SumExists ==
    ASSUME NEW stack \in Seq(Transactions)
    PROVE  \E sum : Adds(sum, stack)
<1> DEFINE SumTo(f, m) == /\ f[0] = 0
                          /\ \A n \in 1..m : f[n] = f[n - 1] + stack[n].bytes
           Has(m) == \E f \in [0..m -> Nat] : SumTo(f, m)
           S == {m \in Nat : m <= Len(stack) => Has(m)}
<1>0. Len(stack) \in Nat /\ \A n \in 1..Len(stack) : stack[n].bytes \in Nat
    BY SizeType
<1>1. 0 \in S
    <2> DEFINE f == [n \in 0..0 |-> 0]
    <2>1. f \in [0..0 -> Nat] /\ SumTo(f, 0)
        OBVIOUS
    <2> QED
        BY <2>1
<1>2. ASSUME NEW m \in Nat, Has(m), m + 1 <= Len(stack)
      PROVE  Has(m + 1)
    <2>1. PICK f \in [0..m -> Nat] : SumTo(f, m)
        BY <1>2
    <2> DEFINE g == [n \in 0..(m + 1) |->
                        IF n = m + 1 THEN f[m] + stack[m + 1].bytes ELSE f[n]]
    <2>2. m + 1 \in 1..Len(stack) /\ stack[m + 1].bytes \in Nat /\ f[m] \in Nat
        BY <1>0, <1>2
    <2>3. g \in [0..(m + 1) -> Nat]
        BY <2>2
    <2>4. \A n \in 0..m : g[n] = f[n]
        OBVIOUS
    <2>5. g[m + 1] = g[m] + stack[m + 1].bytes
        OBVIOUS
    <2>6. ASSUME NEW n \in 1..(m + 1) PROVE g[n] = g[n - 1] + stack[n].bytes
        <3>1. CASE n = m + 1
            BY <3>1, <2>5
        <3>2. CASE n # m + 1
            <4>1. n \in 0..m /\ n - 1 \in 0..m /\ n \in 1..m
                BY <3>2
            <4> HIDE DEF g
            <4> QED
                BY <4>1, <2>1, <2>4
        <3> QED
            BY <3>1, <3>2
    <2>7. g[0] = 0
        BY <2>1
    <2> HIDE DEF g
    <2> QED
        BY <2>3, <2>6, <2>7
<1> HIDE DEF Has
<1>3. \A m \in Nat : m \in S => m + 1 \in S
    BY <1>0, <1>2
<1> HIDE DEF S
<1>4. Len(stack) \in S
    BY <1>0, <1>1, <1>3, Induct
<1>5. PICK f \in [0..Len(stack) -> Nat] : SumTo(f, Len(stack))
    BY <1>0, <1>4 DEF S, Has
<1>6. ASSUME NEW n \in 0..Len(stack)
      PROVE  f[n] = IF n = 0 THEN 0 ELSE f[n - 1] + stack[n].bytes
    <2>1. n = 0 \/ n \in 1..Len(stack)
        BY <1>0
    <2> QED
        BY <1>5, <2>1
<1> HIDE DEF SumTo
<1>7. f = [n \in 0..Len(stack) |->
              IF n = 0 THEN 0 ELSE f[n - 1] + stack[n].bytes]
    BY <1>6
<1> QED
    BY <1>7 DEF Adds

\* So BytesUpTo is one: it starts at 0 and adds one transaction at a time.
LEMMA BytesUpToSteps ==
    ASSUME NEW stack \in Seq(Transactions)
    PROVE  /\ BytesUpTo(stack)[0] = 0
           /\ \A n \in 1..Len(stack) :
                 BytesUpTo(stack)[n] = BytesUpTo(stack)[n - 1] + stack[n].bytes
           /\ \A n \in 0..Len(stack) : BytesUpTo(stack)[n] \in Nat
<1> DEFINE B == BytesUpTo(stack)
<1>0. Len(stack) \in Nat /\ \A n \in 1..Len(stack) : stack[n].bytes \in Nat
    BY SizeType
<1>1. B = CHOOSE sum : Adds(sum, stack)
    BY DEF BytesUpTo, Adds
<1> HIDE DEF B
<1>2. Adds(B, stack)
    BY <1>1, SumExists
<1>3. B = [n \in 0..Len(stack) |->
              IF n = 0 THEN 0 ELSE B[n - 1] + stack[n].bytes]
    BY <1>2 DEF Adds
<1>4. \A n \in 0..Len(stack) :
          B[n] = IF n = 0 THEN 0 ELSE B[n - 1] + stack[n].bytes
    <2> DEFINE F(n) == IF n = 0 THEN 0 ELSE B[n - 1] + stack[n].bytes
    <2>1. B = [n \in 0..Len(stack) |-> F(n)]
        BY <1>3
    <2> HIDE DEF F
    <2>2. \A n \in 0..Len(stack) : B[n] = F(n)
        BY <2>1
    <2> QED
        BY <2>2 DEF F
<1>5. B[0] = 0
    BY <1>0, <1>4
<1>6. \A n \in 1..Len(stack) : B[n] = B[n - 1] + stack[n].bytes
    <2> TAKE n \in 1..Len(stack)
    <2>1. n \in 0..Len(stack) /\ n # 0
        BY <1>0
    <2> QED
        BY <2>1, <1>4
<1> DEFINE S == {m \in Nat : m <= Len(stack) => B[m] \in Nat}
<1>7. ASSUME NEW m \in Nat, m \in S, m + 1 <= Len(stack) PROVE B[m + 1] \in Nat
    <2>0. m <= Len(stack) => B[m] \in Nat
        BY <1>7
    <2>1. m + 1 \in 1..Len(stack) /\ (m + 1) - 1 = m /\ B[m] \in Nat
        BY <1>0, <1>7, <2>0
    <2>2. B[m + 1] = B[m] + stack[m + 1].bytes
        BY <2>1, <1>6
    <2> QED
        BY <2>1, <2>2, <1>0
<1>8. 0 \in S /\ \A m \in Nat : m \in S => m + 1 \in S
    BY <1>5, <1>7
<1> HIDE DEF S
<1>9. \A n \in 0..Len(stack) : n \in S
    BY <1>8, Induct
<1>10. \A n \in 0..Len(stack) : B[n] \in Nat
    BY <1>9, <1>0 DEF S
<1> QED
    BY <1>5, <1>6, <1>10 DEF B

\* Where one stack holds what another does from a position on, the sums
\* grow alike.
LEMMA SumsAgree ==
    ASSUME NEW s \in Seq(Transactions), NEW t \in Seq(Transactions),
           NEW a \in Nat, NEW m \in Nat, a + m <= Len(s), m <= Len(t),
           \A i \in 1..m : t[i] = s[i + a]
    PROVE  BytesUpTo(s)[a + m] = BytesUpTo(s)[a] + BytesUpTo(t)[m]
<1> DEFINE B == BytesUpTo(s)
           C == BytesUpTo(t)
           S == {n \in Nat : n <= m => B[a + n] = B[a] + C[n]}
<1>0. /\ Len(s) \in Nat /\ Len(t) \in Nat
      /\ \A n \in 1..Len(t) : t[n].bytes \in Nat
    BY SizeType
<1>1. /\ C[0] = 0
      /\ \A n \in 1..Len(s) : B[n] = B[n - 1] + s[n].bytes
      /\ \A n \in 1..Len(t) : C[n] = C[n - 1] + t[n].bytes
      /\ \A n \in 0..Len(s) : B[n] \in Nat
      /\ \A n \in 0..Len(t) : C[n] \in Nat
    BY BytesUpToSteps
<1> HIDE DEF B, C
<1>2. 0 \in S
    <2>1. a \in 0..Len(s) /\ a + 0 = a
        BY <1>0
    <2>2. B[a] \in Nat /\ C[0] = 0
        BY <2>1, <1>1
    <2> QED
        BY <2>1, <2>2
<1> HIDE DEF S
<1>3. ASSUME NEW n \in Nat, n + 1 <= m, B[a + n] = B[a] + C[n]
      PROVE  B[a + (n + 1)] = B[a] + C[n + 1]
    <2>1. /\ a + n + 1 \in 1..Len(s) /\ n + 1 \in 1..Len(t) /\ n + 1 \in 1..m
          /\ a \in 0..Len(s) /\ n \in 0..Len(t)
        BY <1>0, <1>3
    <2>2. /\ a + n + 1 - 1 = a + n /\ n + 1 - 1 = n
          /\ n + 1 + a = a + n + 1 /\ a + (n + 1) = a + n + 1
        OBVIOUS
    <2>3. B[a + n + 1] = B[a + n] + s[a + n + 1].bytes
        <3>1. B[a + n + 1] = B[a + n + 1 - 1] + s[a + n + 1].bytes
            BY <2>1, <1>1
        <3> QED
            BY <3>1, <2>2
    <2>4. C[n + 1] = C[n] + t[n + 1].bytes
        <3> DEFINE next == n + 1
        <3>1. next \in 1..Len(t)
            BY <2>1
        <3> HIDE DEF next
        <3>2. C[next] = C[next - 1] + t[next].bytes
            BY <3>1, <1>1
        <3> QED
            BY <3>2, <2>2 DEF next
    <2>5. t[n + 1] = s[a + n + 1]
        BY <2>1, <2>2
    <2>6. B[a] \in Nat /\ C[n] \in Nat /\ t[n + 1].bytes \in Nat
        BY <2>1, <1>0, <1>1
    <2> DEFINE x == B[a]
               y == C[n]
               z == t[n + 1].bytes
    <2>7. B[a + n + 1] = (x + y) + z /\ C[n + 1] = y + z /\ x \in Nat /\ y \in Nat /\ z \in Nat
        BY <1>3, <2>3, <2>4, <2>5, <2>6
    <2> HIDE DEF x, y, z
    <2>8. (x + y) + z = x + (y + z)
        BY <2>7
    <2>9. B[a + n + 1] = x + C[n + 1]
        BY <2>7, <2>8
    <2> QED
        BY <2>2, <2>9 DEF x
<1>4. ASSUME NEW n \in Nat, n \in S PROVE n + 1 \in S
    <2>1. n + 1 <= m => n <= m
        OBVIOUS
    <2>2. n + 1 <= m => B[a + n] = B[a] + C[n]
        BY <1>4, <2>1 DEF S
    <2>3. n + 1 <= m => B[a + (n + 1)] = B[a] + C[n + 1]
        BY <1>3, <2>2
    <2> QED
        BY <2>3 DEF S
<1>5. m \in S
    BY <1>2, <1>4, Induct
<1> QED
    BY <1>5 DEF S, B, C

\* An empty stack has no bytes; appending, taking away the last transaction
\* and taking away the n oldest change the sum by what they move.
LEMMA EmptyBytes == StackBytes(<<>>) = 0
BY EmptyType, BytesUpToSteps DEF StackBytes

LEMMA AppendBytes ==
    ASSUME NEW s \in Seq(Transactions), NEW t \in Transactions
    PROVE  /\ StackBytes(s) \in Nat /\ t.bytes \in Nat
           /\ StackBytes(Append(s, t)) = StackBytes(s) + t.bytes
<1> DEFINE w == Append(s, t)
<1>1. /\ w \in Seq(Transactions) /\ Len(w) = Len(s) + 1
      /\ \A i \in 1..Len(s) : w[i] = s[i]
      /\ w[Len(s) + 1] = t
    BY AppendType
<1> HIDE DEF w
<1>2. Len(s) \in Nat /\ t.bytes \in Nat
    BY DEF Transactions
<1>3. BytesUpTo(s)[Len(s)] \in Nat /\ BytesUpTo(w)[0] = 0
    BY <1>1, <1>2, BytesUpToSteps
<1>4. BytesUpTo(w)[0 + Len(s)] = BytesUpTo(w)[0] + BytesUpTo(s)[Len(s)]
    <2>1. 0 \in Nat /\ 0 + Len(s) <= Len(w) /\ Len(s) <= Len(s)
          /\ \A i \in 1..Len(s) : s[i] = w[i + 0]
        BY <1>1, <1>2
    <2> HIDE DEF w
    <2> QED
        BY <1>1, <1>2, <2>1, SumsAgree
<1>5. BytesUpTo(w)[Len(s) + 1] = BytesUpTo(w)[Len(s)] + t.bytes
    <2>1. Len(s) + 1 \in 1..Len(w) /\ Len(s) + 1 - 1 = Len(s)
        BY <1>1, <1>2
    <2> QED
        BY <2>1, <1>1, BytesUpToSteps
<1>6. 0 + Len(s) = Len(s)
    BY <1>2
<1>7. BytesUpTo(w)[Len(s)] = BytesUpTo(s)[Len(s)]
    BY <1>3, <1>4, <1>6
<1>8. StackBytes(w) = BytesUpTo(w)[Len(s) + 1] /\ StackBytes(s) = BytesUpTo(s)[Len(s)]
    BY <1>1 DEF StackBytes
<1> QED
    BY <1>2, <1>3, <1>5, <1>7, <1>8 DEF w

LEMMA SuffixBytes ==
    ASSUME NEW s \in Seq(Transactions), NEW n \in 0..Len(s)
    PROVE  /\ BytesUpTo(s)[n] \in Nat
           /\ StackBytes(s) \in Nat
           /\ StackBytes(SubSeq(s, n + 1, Len(s))) \in Nat
           /\ StackBytes(s) = BytesUpTo(s)[n] + StackBytes(SubSeq(s, n + 1, Len(s)))
<1> DEFINE r == SubSeq(s, n + 1, Len(s))
<1>1. /\ r \in Seq(Transactions) /\ Len(r) = Len(s) - n
      /\ \A i \in 1..(Len(s) - n) : r[i] = s[i + n]
    BY SuffixType
<1> HIDE DEF r
<1>2. Len(s) \in Nat /\ n \in Nat /\ Len(s) - n \in Nat /\ n + (Len(s) - n) = Len(s)
    OBVIOUS
<1>3. BytesUpTo(s)[n + (Len(s) - n)] = BytesUpTo(s)[n] + BytesUpTo(r)[Len(s) - n]
    <2>1. n + (Len(s) - n) <= Len(s) /\ Len(s) - n <= Len(r)
        BY <1>1, <1>2
    <2> QED
        BY <1>1, <1>2, <2>1, SumsAgree
<1>4. /\ BytesUpTo(s)[n] \in Nat
      /\ BytesUpTo(r)[Len(r)] \in Nat
      /\ BytesUpTo(s)[Len(s)] \in Nat
    BY <1>1, <1>2, BytesUpToSteps
<1> QED
    BY <1>1, <1>2, <1>3, <1>4 DEF StackBytes, r

LEMMA FrontBytes ==
    ASSUME NEW s \in Seq(Transactions), s # <<>>
    PROVE  /\ StackBytes(SubSeq(s, 1, Len(s) - 1)) \in Nat
           /\ s[Len(s)].bytes \in Nat
           /\ StackBytes(s) = StackBytes(SubSeq(s, 1, Len(s) - 1)) + s[Len(s)].bytes
<1> DEFINE f == SubSeq(s, 1, Len(s) - 1)
<1>1. f \in Seq(Transactions) /\ s[Len(s)] \in Transactions
    BY FrontType
<1>2. Append(f, s[Len(s)]) = s
    OBVIOUS
<1> HIDE DEF f
<1>3. /\ StackBytes(f) \in Nat /\ s[Len(s)].bytes \in Nat
      /\ StackBytes(Append(f, s[Len(s)])) = StackBytes(f) + s[Len(s)].bytes
    BY <1>1, AppendBytes
<1> QED
    BY <1>2, <1>3 DEF f

\* The loop of record stops where what is left is small enough, or nothing
\* is left: the stacks it passes by are exactly those that are too large.
LEMMA ExpiredEnough ==
    ASSUME NEW stack \in Seq(Transactions), NEW total \in Nat
    PROVE  LET n == Expired(stack, total) IN
           /\ n \in 0..Len(stack)
           /\ n = Len(stack) \/ Minus(total, BytesUpTo(stack)[n]) <= MaxBytes
<1> DEFINE B == BytesUpTo(stack)
           tooLarge(i) == \/ Len(stack) - i > MaxSteps
                          \/ Minus(total, B[i]) > MaxBytes
           rounds == {i \in 0..(Len(stack) - 1) : tooLarge(i)}
           n == Expired(stack, total)
<1>1. Len(stack) \in Nat /\ n \in 0..Len(stack)
    BY ExpiredRange
<1>2. n = Cardinality(rounds)
    BY DEF Expired
<1>3. \A i \in 0..Len(stack) : B[i] \in Nat
    BY BytesUpToSteps
<1>4. ASSUME NEW i \in 0..Len(stack), NEW j \in 0..Len(stack), i <= j
      PROVE  B[i] <= B[j]
    <2> DEFINE r == SubSeq(stack, i + 1, Len(stack))
    <2>1. /\ r \in Seq(Transactions) /\ Len(r) = Len(stack) - i
          /\ \A k \in 1..(Len(stack) - i) : r[k] = stack[k + i]
        BY SuffixType
    <2> HIDE DEF r
    <2>2. j - i \in Nat /\ i + (j - i) = j /\ j <= Len(stack) /\ j - i <= Len(r)
          /\ i \in Nat /\ j - i \in 0..Len(r)
          /\ \A k \in 1..(j - i) : k \in 1..(Len(stack) - i)
        BY <1>1, <1>4, <2>1
    <2>3. \A k \in 1..(j - i) : r[k] = stack[k + i]
        BY <2>1, <2>2
    <2>4. B[i + (j - i)] = B[i] + BytesUpTo(r)[j - i]
        BY <1>1, <2>1, <2>2, <2>3, SumsAgree
    <2>5. BytesUpTo(r)[j - i] \in Nat /\ B[i] \in Nat
        BY <2>1, <2>2, <1>3, BytesUpToSteps
    <2> HIDE DEF B
    <2> QED
        BY <2>2, <2>4, <2>5
<1> HIDE DEF B, n
<1>5. ASSUME n # Len(stack), Minus(total, B[n]) > MaxBytes PROVE FALSE
    <2>1. n \in 0..(Len(stack) - 1) /\ n \in Nat
        BY <1>1, <1>5
    <2>2. B[n] \in Nat /\ total - B[n] \in Nat /\ total - B[n] > MaxBytes
        BY <1>1, <1>3, <1>5, BoundsAssumption DEF Minus
    <2>3. ASSUME NEW i \in 0..n PROVE i \in rounds
        <3>1. i \in 0..Len(stack) /\ i \in 0..(Len(stack) - 1) /\ i <= n
            BY <1>1, <2>1
        <3>2. B[i] <= B[n] /\ B[i] \in Nat
            BY <1>1, <1>3, <1>4, <3>1
        <3>3. total - B[i] \in Nat /\ total - B[i] > MaxBytes
            BY <2>2, <3>2, BoundsAssumption
        <3>4. Minus(total, B[i]) > MaxBytes
            BY <3>3 DEF Minus
        <3> QED
            BY <3>1, <3>4
    <2>4. IsFiniteSet(0..(Len(stack) - 1))
        BY <1>1, FS_Interval
    <2>5. rounds \subseteq 0..(Len(stack) - 1) /\ 0..n \subseteq rounds
        BY <2>3
    <2> HIDE DEF rounds
    <2>6. IsFiniteSet(rounds)
        BY <2>4, <2>5, FS_Subset
    <2>7. Cardinality(0..n) <= Cardinality(rounds)
        BY <2>5, <2>6, FS_Subset
    <2>8. Cardinality(0..n) = n + 1
        <3>1. 0 \in Int /\ n \in Int /\ ~(0 > n) /\ n - 0 + 1 = n + 1
            BY <2>1
        <3> QED
            BY <3>1, FS_Interval
    <2> QED
        BY <1>2, <2>1, <2>7, <2>8
<1>6. Minus(total, B[n]) \in Nat
    BY DEF Minus
<1>7. n = Len(stack) \/ Minus(total, B[n]) <= MaxBytes
    BY <1>5, <1>6, BoundsAssumption
<1> QED
    BY <1>1, <1>7 DEF B, n

\* Recording an edit keeps the byte total the sum over both stacks, which
\* means that neither of its saturating subtractions saturates, and keeps
\* it within the bound, although one transaction may have all of it.
LEMMA RecordBytes ==
    ASSUME TypeOK, BytesBounded, NEW edit \in Edits, NEW size \in Nat,
           Record(edit, size)
    PROVE  BytesBounded'
<1>1. CASE size > MaxBytes
    <2>1. undo' = <<>> /\ redo' = <<>> /\ bytes' = 0
        BY <1>1 DEF Record, ClearHistory
    <2>2. bytes' = StackBytes(undo') + StackBytes(redo') /\ bytes' <= MaxBytes
        BY <2>1, EmptyBytes, BoundsAssumption
    <2> QED
        BY <2>2 DEF BytesBounded, StackBytes, BytesUpTo
<1>2. CASE ~(size > MaxBytes)
    <2> DEFINE t == [edit |-> edit, dirtyBefore |-> dirty,
                     dirtyAfter |-> TRUE, bytes |-> size]
               stack == Append(undo, t)
               total == Minus(bytes, StackBytes(redo)) + size
               n == Expired(stack, total)
               rest == SubSeq(stack, n + 1, Len(stack))
    <2>1. t \in Transactions /\ t.bytes = size
        BY DEF Transactions, TypeOK
    <2>2. undo' = rest /\ bytes' = Minus(total, BytesUpTo(stack)[n]) /\ redo' = <<>>
        BY <1>2 DEF Record
    <2> HIDE DEF t
    <2>3. undo \in Seq(Transactions) /\ redo \in Seq(Transactions) /\ bytes \in Nat
        BY DEF TypeOK
    <2>4. /\ stack \in Seq(Transactions)
          /\ StackBytes(undo) \in Nat
          /\ StackBytes(stack) = StackBytes(undo) + size
        BY <2>1, <2>3, AppendType, AppendBytes
    <2>5. StackBytes(redo) \in Nat
        BY <2>1, <2>3, AppendBytes
    <2>6. bytes - StackBytes(redo) = StackBytes(undo)
        BY <2>4, <2>5 DEF BytesBounded
    <2>7. Minus(bytes, StackBytes(redo)) = StackBytes(undo)
        BY <2>4, <2>6 DEF Minus
    <2>8. total = StackBytes(stack) /\ total \in Nat
        BY <2>4, <2>7
    <2> HIDE DEF stack, total
    <2>9. /\ n \in 0..Len(stack)
          /\ n = Len(stack) \/ Minus(total, BytesUpTo(stack)[n]) <= MaxBytes
        BY <2>4, <2>8, ExpiredEnough
    <2> HIDE DEF n
    <2>10. /\ BytesUpTo(stack)[n] \in Nat
           /\ StackBytes(rest) \in Nat
           /\ StackBytes(stack) = BytesUpTo(stack)[n] + StackBytes(rest)
        BY <2>4, <2>9, SuffixBytes
    <2>11. n = Len(stack) => rest = <<>>
        BY <2>4
    <2> HIDE DEF rest
    <2>12. total - BytesUpTo(stack)[n] = StackBytes(rest)
        BY <2>8, <2>10
    <2>13. bytes' = StackBytes(rest)
        BY <2>2, <2>10, <2>12 DEF Minus
    <2>14. bytes' <= MaxBytes
        BY <2>2, <2>9, <2>11, <2>13, EmptyBytes, BoundsAssumption
    <2>15. bytes' = StackBytes(undo') + StackBytes(redo')
        BY <2>2, <2>10, <2>13, EmptyBytes
    <2> QED
        BY <2>14, <2>15 DEF BytesBounded, StackBytes, BytesUpTo
<1> QED
    BY <1>1, <1>2

\* One step of any action keeps the byte total right.
LEMMA BytesStep ==
    TypeInv /\ BytesBounded /\ [Next]_vars => BytesBounded'
<1> SUFFICES ASSUME TypeInv, BytesBounded, [Next]_vars PROVE BytesBounded'
    OBVIOUS
<1>0. /\ TypeOK
      /\ undo \in Seq(Transactions) /\ redo \in Seq(Transactions)
      /\ bytes = StackBytes(undo) + StackBytes(redo) /\ bytes <= MaxBytes
    BY DEF TypeInv, TypeOK, BytesBounded
<1>1. CASE Import \/ Merge \/ Delete \/ Describe
    <2>1. PICK edit \in Edits : Commit(edit)
        BY <1>0, <1>1, EditStep
    <2>2. PICK size \in Nat : Record(edit, size)
        BY <2>1, BoundsAssumption DEF Commit
    <2> QED
        BY <1>0, <2>2, RecordBytes
<1>2. ASSUME bytes' = bytes,
             StackBytes(undo') + StackBytes(redo') = StackBytes(undo) + StackBytes(redo)
      PROVE  BytesBounded'
    BY <1>0, <1>2 DEF BytesBounded, StackBytes, BytesUpTo
<1>3. CASE Undo
    <2> DEFINE t == undo[Len(undo)]
               front == SubSeq(undo, 1, Len(undo) - 1)
    <2>1. undo # <<>> /\ undo' = front /\ redo' = Append(redo, t) /\ bytes' = bytes
        BY <1>3 DEF Undo
    <2>2. /\ StackBytes(front) \in Nat /\ t.bytes \in Nat /\ t \in Transactions
          /\ StackBytes(undo) = StackBytes(front) + t.bytes
        BY <1>0, <2>1, FrontBytes, FrontType
    <2>3. StackBytes(redo) \in Nat /\ StackBytes(redo') = StackBytes(redo) + t.bytes
        BY <1>0, <2>1, <2>2, AppendBytes
    <2> HIDE DEF front, t
    <2> QED
        BY <2>1, <2>2, <2>3, <1>2
<1>4. CASE Redo
    <2> DEFINE t == redo[Len(redo)]
               front == SubSeq(redo, 1, Len(redo) - 1)
    <2>1. redo # <<>> /\ redo' = front /\ undo' = Append(undo, t) /\ bytes' = bytes
        BY <1>4 DEF Redo
    <2>2. /\ StackBytes(front) \in Nat /\ t.bytes \in Nat /\ t \in Transactions
          /\ StackBytes(redo) = StackBytes(front) + t.bytes
        BY <1>0, <2>1, FrontBytes, FrontType
    <2>3. StackBytes(undo) \in Nat /\ StackBytes(undo') = StackBytes(undo) + t.bytes
        BY <1>0, <2>1, <2>2, AppendBytes
    <2> HIDE DEF front, t
    <2> QED
        BY <2>1, <2>2, <2>3, <1>2
<1>5. CASE Save
    <2>1. undo' = <<>> /\ redo' = <<>> /\ bytes' = 0
        BY <1>5 DEF Save, ClearHistory
    <2>2. bytes' = StackBytes(undo') + StackBytes(redo') /\ bytes' <= MaxBytes
        BY <2>1, EmptyBytes, BoundsAssumption
    <2> QED
        BY <2>2 DEF BytesBounded, StackBytes, BytesUpTo
<1>6. CASE SaveFailsLate \/ UNCHANGED vars
    <2>1. undo' = undo /\ redo' = redo /\ bytes' = bytes
        BY <1>6 DEF SaveFailsLate, vars, history
    <2> QED
        BY <2>1, <1>2
<1> QED
    BY <1>1, <1>3, <1>4, <1>5, <1>6 DEF Next

\* The running byte total is the sum over both stacks after every operation,
\* so that the saturating subtractions of record never hide a miscount, and
\* it stays within MAX_UNDO_BYTES: the loop of record expires enough.
THEOREM BytesStayBounded == Spec => []BytesBounded
<1>1. Init => BytesBounded
    <2> SUFFICES ASSUME Init PROVE BytesBounded
        OBVIOUS
    <2>1. undo = <<>> /\ redo = <<>> /\ bytes = 0
        BY DEF Init
    <2>2. StackBytes(undo) = 0 /\ StackBytes(redo) = 0
        BY <2>1, EmptyBytes
    <2> QED
        BY <2>1, <2>2, BoundsAssumption DEF BytesBounded
<1> QED
    BY <1>1, TypeInit, TypeStep, BytesStep, PTL DEF Spec

----------------------------------------------------------------------------
(* Undo and Redo: what each action makes of the two stacks and of the time  *)
(* line, element by element.                                               *)

\* An edit: the new transaction leads from the document to the next one, and
\* the others are older ones that kept their neighbours on the time line.
LEMMA EditShape ==
    ASSUME TypeOK, NEW edit \in Edits, NEW size \in Nat, Record(edit, size)
    PROVE  /\ redo' = <<>>
           /\ \A i \in 1..Len(undo') :
                \/ /\ undo'[i].edit = edit /\ undo'[i].dirtyBefore = dirty
                   /\ past'[i] = Shown(Document) /\ AfterUndo(i)' = Shown(Document)'
                \/ \E j \in 1..Len(undo) :
                      /\ undo'[i] = undo[j] /\ past'[i] = past[j]
                      /\ AfterUndo(i)' = AfterUndo(j)
<1>1. /\ redo' = <<>>
      /\ \/ undo' = <<>> /\ past' = <<>>
         \/ \E n \in 0..(Len(undo) + 1), t \in Transactions :
               /\ t.edit = edit /\ t.dirtyBefore = dirty
               /\ undo' = SubSeq(Append(undo, t), n + 1, Len(undo) + 1)
               /\ past' = SubSeq(Append(past, Shown(Document)), n + 1, Len(undo) + 1)
    BY RecordEffect
<1> SUFFICES ASSUME NEW i \in 1..Len(undo')
             PROVE  \/ /\ undo'[i].edit = edit /\ undo'[i].dirtyBefore = dirty
                       /\ past'[i] = Shown(Document) /\ AfterUndo(i)' = Shown(Document)'
                    \/ \E j \in 1..Len(undo) :
                          /\ undo'[i] = undo[j] /\ past'[i] = past[j]
                          /\ AfterUndo(i)' = AfterUndo(j)
    BY <1>1
<1>2. undo' # <<>>
    BY EmptyType
<1>3. PICK n \in 0..(Len(undo) + 1), t \in Transactions :
          /\ t.edit = edit /\ t.dirtyBefore = dirty
          /\ undo' = SubSeq(Append(undo, t), n + 1, Len(undo) + 1)
          /\ past' = SubSeq(Append(past, Shown(Document)), n + 1, Len(undo) + 1)
    BY <1>1, <1>2
<1>4. /\ undo \in Seq(Transactions) /\ past \in Seq(Shows)
      /\ Len(past) = Len(undo) /\ Shown(Document) \in Shows /\ Len(undo) \in Nat
    BY DocumentType DEF TypeOK
<1> DEFINE u == Append(undo, t)
           p == Append(past, Shown(Document))
           L == Len(undo)
<1>5. /\ u \in Seq(Transactions) /\ Len(u) = L + 1
      /\ \A k \in 1..L : u[k] = undo[k]
      /\ u[L + 1] = t
    BY <1>4, AppendType
<1>6. /\ p \in Seq(Shows) /\ Len(p) = L + 1
      /\ \A k \in 1..L : p[k] = past[k]
      /\ p[L + 1] = Shown(Document)
    BY <1>4, AppendType
<1>7. undo' = SubSeq(u, n + 1, Len(u)) /\ past' = SubSeq(p, n + 1, Len(p))
    BY <1>3, <1>5, <1>6
<1> HIDE DEF u, p
<1>8. /\ Len(undo') = L + 1 - n
      /\ \A k \in 1..(L + 1 - n) : undo'[k] = u[k + n] /\ past'[k] = p[k + n]
    <2>1. n \in 0..Len(u) /\ n \in 0..Len(p)
        BY <1>3, <1>5, <1>6
    <2>2. /\ Len(undo') = L + 1 - n
          /\ \A k \in 1..(L + 1 - n) : undo'[k] = u[k + n]
        BY <1>5, <1>7, <2>1, SuffixType
    <2>3. \A k \in 1..(L + 1 - n) : past'[k] = p[k + n]
        <3>1. p \in Seq(Shows) /\ Len(p) = L + 1 /\ n \in 0..Len(p)
            BY <1>6, <2>1
        <3>2. \A k \in 1..(Len(p) - n) : SubSeq(p, n + 1, Len(p))[k] = p[k + n]
            BY <3>1, SuffixType
        <3> QED
            BY <1>7, <3>1, <3>2
    <2> QED
        BY <2>2, <2>3
<1> DEFINE j == i + n
<1>9. /\ i \in 1..(L + 1 - n) /\ j \in 1..(L + 1)
      /\ i = L + 1 - n <=> j = L + 1
    BY <1>4, <1>8
<1>10. undo'[i] = u[j] /\ past'[i] = p[j]
    BY <1>8, <1>9
<1>11. i # L + 1 - n => i + 1 \in 1..(L + 1 - n) /\ past'[i + 1] = p[j + 1]
    <2>1. i # L + 1 - n => i + 1 \in 1..(L + 1 - n) /\ (i + 1) + n = j + 1
        BY <1>3, <1>4, <1>9
    <2> QED
        BY <1>8, <2>1
<1> HIDE DEF j
<1>12. CASE j = L + 1
    <2>1. undo'[i] = t /\ past'[i] = Shown(Document)
        BY <1>5, <1>6, <1>10, <1>12
    <2>2. i = Len(undo')
        BY <1>8, <1>9, <1>12
    <2>3. AfterUndo(i)' = Shown(Document)'
        BY <2>2 DEF AfterUndo
    <2> QED
        BY <1>3, <2>1, <2>3
<1>13. CASE j # L + 1
    <2>1. j \in 1..L /\ j + 1 \in 1..(L + 1)
        BY <1>4, <1>9, <1>13
    <2>2. undo'[i] = undo[j] /\ past'[i] = past[j]
        BY <1>5, <1>6, <1>10, <2>1
    <2>3. i # Len(undo')
        BY <1>8, <1>9, <1>13
    <2>4. AfterUndo(i)' = p[j + 1]
        BY <1>9, <1>11, <1>13, <2>3 DEF AfterUndo
    <2>5. AfterUndo(j) = p[j + 1]
        <3>1. CASE j = L
            BY <1>6, <3>1 DEF AfterUndo
        <3>2. CASE j # L
            <4>1. j + 1 \in 1..L
                BY <1>4, <2>1, <3>2
            <4> QED
                BY <1>6, <3>2, <4>1 DEF AfterUndo
        <3> QED
            BY <3>1, <3>2
    <2> QED
        BY <2>1, <2>2, <2>4, <2>5
<1> QED
    BY <1>12, <1>13

\* Undo takes the document to the newest state of the past ...
LEMMA UndoDocument ==
    ASSUME TypeOK, Linked, Undo
    PROVE  Shown(Document)' = past[Len(past)]
<1>1. /\ undo \in Seq(Transactions) /\ undo # <<>>
      /\ past \in Seq(Shows) /\ Len(past) = Len(undo)
    BY DEF Undo, TypeOK
<1>2. Len(undo) \in 1..Len(undo) /\ undo[Len(undo)] \in Transactions
    BY <1>1, FrontType
<1>3. undo[Len(undo)].edit \in Edits
    BY <1>2 DEF Transactions
<1> DEFINE back == Patched(Document, undo[Len(undo)].edit, FALSE)
<1>4. back \in States
    BY <1>3, DocumentType, PatchedType
<1>5. Shown(back) = past[Len(undo)]
    <2>1. Shown(back) = Patched(Shown(Document), undo[Len(undo)].edit, FALSE)
        BY <1>3, DocumentType, PatchedShown
    <2>2. Patched(Shown(Document), undo[Len(undo)].edit, FALSE) = past[Len(undo)]
        BY <1>2 DEF Linked, Links, AfterUndo
    <2> QED
        BY <2>1, <2>2
<1>6. runs' = back.runs /\ text' = back.text
    BY DEF Undo, ApplyEdit
<1> HIDE DEF back
<1>7. Shown(Document)' = Shown(back)
    BY <1>6 DEF Shown, Document
<1> QED
    BY <1>1, <1>5, <1>7

\* ... and Redo to the newest one of the future.
LEMMA RedoDocument ==
    ASSUME TypeOK, Linked, Redo
    PROVE  Shown(Document)' = future[Len(future)]
<1>1. /\ redo \in Seq(Transactions) /\ redo # <<>>
      /\ future \in Seq(Shows) /\ Len(future) = Len(redo)
    BY DEF Redo, TypeOK
<1>2. Len(redo) \in 1..Len(redo) /\ redo[Len(redo)] \in Transactions
    BY <1>1, FrontType
<1>3. redo[Len(redo)].edit \in Edits
    BY <1>2 DEF Transactions
<1> DEFINE again == Patched(Document, redo[Len(redo)].edit, TRUE)
<1>4. again \in States
    BY <1>3, DocumentType, PatchedType
<1>5. Shown(again) = future[Len(redo)]
    <2>1. Shown(again) = Patched(Shown(Document), redo[Len(redo)].edit, TRUE)
        BY <1>3, DocumentType, PatchedShown
    <2>2. Patched(Shown(Document), redo[Len(redo)].edit, TRUE) = future[Len(redo)]
        BY <1>2 DEF Linked, Links, BeforeRedo
    <2> QED
        BY <2>1, <2>2
<1>6. runs' = again.runs /\ text' = again.text
    BY DEF Redo, ApplyEdit
<1> HIDE DEF again
<1>7. Shown(Document)' = Shown(again)
    BY <1>6 DEF Shown, Document
<1> QED
    BY <1>1, <1>5, <1>7

\* Undo: one transaction changes sides; all others keep their neighbours.
LEMMA UndoShape ==
    ASSUME TypeOK, Linked, Undo
    PROVE  /\ \A i \in 1..Len(undo') :
                /\ i \in 1..Len(undo)
                /\ undo'[i] = undo[i] /\ past'[i] = past[i]
                /\ AfterUndo(i)' = AfterUndo(i)
           /\ \A i \in 1..Len(redo') :
                \/ /\ i \in 1..Len(redo)
                   /\ redo'[i] = redo[i] /\ future'[i] = future[i]
                   /\ BeforeRedo(i)' = BeforeRedo(i)
                \/ /\ redo'[i] = undo[Len(undo)] /\ future'[i] = Shown(Document)
                   /\ BeforeRedo(i)' = Shown(Document)'
<1>1. /\ undo \in Seq(Transactions) /\ undo # <<>>
      /\ past \in Seq(Shows) /\ Len(past) = Len(undo) /\ past # <<>>
      /\ redo \in Seq(Transactions) /\ future \in Seq(Shows)
      /\ Len(future) = Len(redo)
    BY DEF Undo, TypeOK
<1>2. /\ undo[Len(undo)] \in Transactions /\ Shown(Document) \in Shows
      /\ Len(undo) \in Nat \ {0} /\ Len(redo) \in Nat
    BY <1>1, FrontType, DocumentType
<1>3. /\ undo' = SubSeq(undo, 1, Len(undo) - 1)
      /\ past' = SubSeq(past, 1, Len(past) - 1)
      /\ redo' = Append(redo, undo[Len(undo)])
      /\ future' = Append(future, Shown(Document))
    BY DEF Undo
<1>4. /\ Len(undo') = Len(undo) - 1 /\ Len(past') = Len(undo) - 1
      /\ \A i \in 1..(Len(undo) - 1) : undo'[i] = undo[i] /\ past'[i] = past[i]
    BY <1>1, <1>3, FrontType
<1>5. /\ Len(redo') = Len(redo) + 1
      /\ \A i \in 1..Len(redo) : redo'[i] = redo[i] /\ future'[i] = future[i]
      /\ redo'[Len(redo) + 1] = undo[Len(undo)]
      /\ future'[Len(redo) + 1] = Shown(Document)
    BY <1>1, <1>2, <1>3, AppendType
<1>6. ASSUME NEW i \in 1..Len(undo')
      PROVE  /\ i \in 1..Len(undo)
             /\ undo'[i] = undo[i] /\ past'[i] = past[i]
             /\ AfterUndo(i)' = AfterUndo(i)
    <2>1. Shown(Document)' = past[Len(undo)]
        BY <1>1, UndoDocument
    <2>2. i \in 1..(Len(undo) - 1) /\ i # Len(undo)
        BY <1>2, <1>4
    <2>3. AfterUndo(i) = past[i + 1]
        BY <2>2 DEF AfterUndo
    <2>4. CASE i = Len(undo) - 1
        BY <1>2, <1>4, <2>1, <2>2, <2>3, <2>4 DEF AfterUndo
    <2>5. CASE i # Len(undo) - 1
        <3>1. i + 1 \in 1..(Len(undo) - 1)
            BY <1>2, <2>2, <2>5
        <3> QED
            BY <1>2, <1>4, <2>2, <2>3, <2>5, <3>1 DEF AfterUndo
    <2> QED
        BY <2>4, <2>5
<1>7. ASSUME NEW i \in 1..Len(redo')
      PROVE  \/ /\ i \in 1..Len(redo)
                /\ redo'[i] = redo[i] /\ future'[i] = future[i]
                /\ BeforeRedo(i)' = BeforeRedo(i)
             \/ /\ redo'[i] = undo[Len(undo)] /\ future'[i] = Shown(Document)
                /\ BeforeRedo(i)' = Shown(Document)'
    <2>1. CASE i = Len(redo) + 1
        BY <1>5, <2>1 DEF BeforeRedo
    <2>2. CASE i # Len(redo) + 1
        <3>1. i \in 1..Len(redo)
            BY <1>2, <1>5, <2>2
        <3>2. BeforeRedo(i)' = future'[i + 1]
            BY <1>5, <2>2 DEF BeforeRedo
        <3>3. BeforeRedo(i) = future'[i + 1]
            BY <1>2, <1>5, <3>1 DEF BeforeRedo
        <3> QED
            BY <1>5, <3>1, <3>2, <3>3
    <2> QED
        BY <2>1, <2>2
<1> QED
    BY <1>6, <1>7

\* Redo: the same with the sides exchanged.
LEMMA RedoShape ==
    ASSUME TypeOK, Linked, Redo
    PROVE  /\ \A i \in 1..Len(redo') :
                /\ i \in 1..Len(redo)
                /\ redo'[i] = redo[i] /\ future'[i] = future[i]
                /\ BeforeRedo(i)' = BeforeRedo(i)
           /\ \A i \in 1..Len(undo') :
                \/ /\ i \in 1..Len(undo)
                   /\ undo'[i] = undo[i] /\ past'[i] = past[i]
                   /\ AfterUndo(i)' = AfterUndo(i)
                \/ /\ undo'[i] = redo[Len(redo)] /\ past'[i] = Shown(Document)
                   /\ AfterUndo(i)' = Shown(Document)'
<1>1. /\ redo \in Seq(Transactions) /\ redo # <<>>
      /\ future \in Seq(Shows) /\ Len(future) = Len(redo) /\ future # <<>>
      /\ undo \in Seq(Transactions) /\ past \in Seq(Shows)
      /\ Len(past) = Len(undo)
    BY DEF Redo, TypeOK
<1>2. /\ redo[Len(redo)] \in Transactions /\ Shown(Document) \in Shows
      /\ Len(redo) \in Nat \ {0} /\ Len(undo) \in Nat
    BY <1>1, FrontType, DocumentType
<1>3. /\ redo' = SubSeq(redo, 1, Len(redo) - 1)
      /\ future' = SubSeq(future, 1, Len(future) - 1)
      /\ undo' = Append(undo, redo[Len(redo)])
      /\ past' = Append(past, Shown(Document))
    BY DEF Redo
<1>4. /\ Len(redo') = Len(redo) - 1 /\ Len(future') = Len(redo) - 1
      /\ \A i \in 1..(Len(redo) - 1) : redo'[i] = redo[i] /\ future'[i] = future[i]
    BY <1>1, <1>3, FrontType
<1>5. /\ Len(undo') = Len(undo) + 1
      /\ \A i \in 1..Len(undo) : undo'[i] = undo[i] /\ past'[i] = past[i]
      /\ undo'[Len(undo) + 1] = redo[Len(redo)]
      /\ past'[Len(undo) + 1] = Shown(Document)
    BY <1>1, <1>2, <1>3, AppendType
<1>6. ASSUME NEW i \in 1..Len(redo')
      PROVE  /\ i \in 1..Len(redo)
             /\ redo'[i] = redo[i] /\ future'[i] = future[i]
             /\ BeforeRedo(i)' = BeforeRedo(i)
    <2>1. Shown(Document)' = future[Len(redo)]
        BY <1>1, RedoDocument
    <2>2. i \in 1..(Len(redo) - 1) /\ i # Len(redo)
        BY <1>2, <1>4
    <2>3. BeforeRedo(i) = future[i + 1]
        BY <2>2 DEF BeforeRedo
    <2>4. CASE i = Len(redo) - 1
        BY <1>2, <1>4, <2>1, <2>2, <2>3, <2>4 DEF BeforeRedo
    <2>5. CASE i # Len(redo) - 1
        <3>1. i + 1 \in 1..(Len(redo) - 1)
            BY <1>2, <2>2, <2>5
        <3> QED
            BY <1>2, <1>4, <2>2, <2>3, <2>5, <3>1 DEF BeforeRedo
    <2> QED
        BY <2>4, <2>5
<1>7. ASSUME NEW i \in 1..Len(undo')
      PROVE  \/ /\ i \in 1..Len(undo)
                /\ undo'[i] = undo[i] /\ past'[i] = past[i]
                /\ AfterUndo(i)' = AfterUndo(i)
             \/ /\ undo'[i] = redo[Len(redo)] /\ past'[i] = Shown(Document)
                /\ AfterUndo(i)' = Shown(Document)'
    <2>1. CASE i = Len(undo) + 1
        BY <1>5, <2>1 DEF AfterUndo
    <2>2. CASE i # Len(undo) + 1
        <3>1. i \in 1..Len(undo)
            BY <1>2, <1>5, <2>2
        <3>2. AfterUndo(i)' = past'[i + 1]
            BY <1>5, <2>2 DEF AfterUndo
        <3>3. AfterUndo(i) = past'[i + 1]
            BY <1>2, <1>5, <3>1 DEF AfterUndo
        <3> QED
            BY <1>5, <3>1, <3>2, <3>3
    <2> QED
        BY <2>1, <2>2
<1> QED
    BY <1>6, <1>7

----------------------------------------------------------------------------
(* The invariants.                                                         *)

\* Every step keeps the transactions linked.
LEMMA LinkStep == TypeInv /\ Linked /\ [Next]_vars => Linked'
<1> SUFFICES ASSUME TypeInv, Linked, [Next]_vars PROVE Linked'
    OBVIOUS
<1>0. TypeOK
    BY DEF TypeInv
<1>1. CASE Import \/ Merge \/ Delete \/ Describe
    <2>1. PICK edit \in Edits : Commit(edit) /\ Links(edit, Shown(Document), Shown(Document)')
        BY <1>0, <1>1, EditStep
    <2>2. PICK size \in Nat : Record(edit, size)
        BY <2>1, BoundsAssumption DEF Commit
    <2>3. /\ redo' = <<>>
          /\ \A i \in 1..Len(undo') :
                \/ /\ undo'[i].edit = edit
                   /\ past'[i] = Shown(Document) /\ AfterUndo(i)' = Shown(Document)'
                \/ \E j \in 1..Len(undo) :
                      /\ undo'[i] = undo[j] /\ past'[i] = past[j]
                      /\ AfterUndo(i)' = AfterUndo(j)
        BY <1>0, <2>2, EditShape
    <2>4. 1..Len(redo') = {}
        BY <2>3
    <2>5. \A i \in 1..Len(undo') : Links(undo'[i].edit, past'[i], AfterUndo(i)')
        BY <2>1, <2>3 DEF Linked
    <2> QED
        BY <2>4, <2>5 DEF Linked, Links, Patched
<1>2. CASE Undo
    <2>1. Undo /\ Len(undo) \in 1..Len(undo)
        BY <1>0, <1>2, FrontType DEF Undo, TypeOK
    <2>2. Shown(Document)' = past[Len(undo)]
        BY <1>0, <2>1, UndoDocument DEF TypeOK
    <2>3. Links(undo[Len(undo)].edit, Shown(Document)', Shown(Document))
        BY <2>1, <2>2 DEF Linked, AfterUndo
    <2>4. \A i \in 1..Len(undo') : Links(undo'[i].edit, past'[i], AfterUndo(i)')
        BY <1>0, <2>1, UndoShape DEF Linked
    <2>5. \A i \in 1..Len(redo') : Links(redo'[i].edit, BeforeRedo(i)', future'[i])
        BY <1>0, <2>1, <2>3, UndoShape DEF Linked
    <2> QED
        BY <2>4, <2>5 DEF Linked, Links, Patched
<1>3. CASE Redo
    <2>1. Redo /\ Len(redo) \in 1..Len(redo)
        BY <1>0, <1>3, FrontType DEF Redo, TypeOK
    <2>2. Shown(Document)' = future[Len(redo)]
        BY <1>0, <2>1, RedoDocument DEF TypeOK
    <2>3. Links(redo[Len(redo)].edit, Shown(Document), Shown(Document)')
        BY <2>1, <2>2 DEF Linked, BeforeRedo
    <2>4. \A i \in 1..Len(redo') : Links(redo'[i].edit, BeforeRedo(i)', future'[i])
        BY <1>0, <2>1, RedoShape DEF Linked
    <2>5. \A i \in 1..Len(undo') : Links(undo'[i].edit, past'[i], AfterUndo(i)')
        BY <1>0, <2>1, <2>3, RedoShape DEF Linked
    <2> QED
        BY <2>4, <2>5 DEF Linked, Links, Patched
<1>4. CASE Save
    <2>1. undo' = <<>> /\ redo' = <<>>
        BY <1>4 DEF Save, ClearHistory
    <2> QED
        BY <2>1 DEF Linked
<1>5. CASE SaveFailsLate \/ UNCHANGED vars
    <2>1. /\ undo' = undo /\ redo' = redo /\ past' = past /\ future' = future
          /\ Shown(Document)' = Shown(Document)
        BY <1>5 DEF SaveFailsLate, vars, history, Document, Shown
    <2>2. \A i : AfterUndo(i)' = AfterUndo(i) /\ BeforeRedo(i)' = BeforeRedo(i)
        BY <2>1 DEF AfterUndo, BeforeRedo
    <2>3. \A i \in 1..Len(undo') : Links(undo'[i].edit, past'[i], AfterUndo(i)')
        BY <2>1, <2>2 DEF Linked
    <2>4. \A i \in 1..Len(redo') : Links(redo'[i].edit, BeforeRedo(i)', future'[i])
        BY <2>1, <2>2 DEF Linked
    <2> QED
        BY <2>3, <2>4 DEF Linked, Links, Patched
<1> QED
    BY <1>1, <1>2, <1>3, <1>4, <1>5 DEF Next

\* What the dirty flag needs on top.
CleanInv == CleanLinked /\ CleanIsSaved

\* Until a save fails late, every step keeps the flag honest.
LEMMA CleanStep ==
    /\ TypeInv /\ Linked /\ CleanInv /\ [Next]_vars
    => CleanInv'
<1> SUFFICES ASSUME TypeInv, Linked, CleanInv, [Next]_vars
             PROVE  CleanInv'
    OBVIOUS
<1>0. TypeOK
    BY DEF TypeInv
<1>1. CASE Import \/ Merge \/ Delete \/ Describe
    <2>1. PICK edit \in Edits : Commit(edit)
        BY <1>0, <1>1, EditStep
    <2>2. PICK size \in Nat : Record(edit, size) /\ dirty' = TRUE /\ Saved' = Saved
                                /\ failedLate' = failedLate
        BY <2>1, BoundsAssumption DEF Commit, Saved
    <2>3. /\ redo' = <<>>
          /\ \A i \in 1..Len(undo') :
                \/ undo'[i].dirtyBefore = dirty /\ past'[i] = Shown(Document)
                \/ \E j \in 1..Len(undo) : undo'[i] = undo[j] /\ past'[i] = past[j]
        BY <1>0, <2>2, EditShape
    <2>4. 1..Len(redo') = {}
        BY <2>3
    <2>5. \A i \in 1..Len(undo') : ~undo'[i].dirtyBefore => Saved' = past'[i] \/ failedLate'
        BY <2>2, <2>3 DEF CleanInv, CleanLinked, CleanIsSaved
    <2> QED
        BY <2>2, <2>4, <2>5 DEF CleanInv, CleanLinked, CleanIsSaved
<1>2. CASE Undo
    <2>1. /\ Undo /\ Len(undo) \in 1..Len(undo) /\ Saved' = Saved
          /\ failedLate' = failedLate
          /\ dirty' = undo[Len(undo)].dirtyBefore
        BY <1>0, <1>2, FrontType DEF Undo, TypeOK, Saved
    <2>2. Shown(Document)' = past[Len(undo)]
        BY <1>0, <2>1, UndoDocument DEF TypeOK
    <2>3. ~undo[Len(undo)].dirtyBefore => Saved = Shown(Document)' \/ failedLate
        BY <2>1, <2>2 DEF CleanInv, CleanLinked
    <2>4. \A i \in 1..Len(undo') : ~undo'[i].dirtyBefore => Saved' = past'[i] \/ failedLate'
        BY <1>0, <2>1, UndoShape DEF CleanInv, CleanLinked
    <2>5. \A i \in 1..Len(redo') : ~redo'[i].dirtyBefore => Saved' = BeforeRedo(i)' \/ failedLate'
        BY <1>0, <2>1, <2>3, UndoShape DEF CleanInv, CleanLinked
    <2> QED
        BY <2>1, <2>3, <2>4, <2>5 DEF CleanInv, CleanLinked, CleanIsSaved
<1>3. CASE Redo
    <2>1. /\ Redo /\ Len(redo) \in 1..Len(redo) /\ Saved' = Saved
          /\ failedLate' = failedLate
          /\ dirty' = redo[Len(redo)].dirtyAfter
          /\ redo[Len(redo)] \in Transactions
        BY <1>0, <1>3, FrontType DEF Redo, TypeOK, Saved
    <2>2. dirty' = TRUE
        BY <2>1 DEF Transactions
    <2>3. ~redo[Len(redo)].dirtyBefore => Saved = Shown(Document) \/ failedLate
        BY <2>1 DEF CleanInv, CleanLinked, BeforeRedo
    <2>4. \A i \in 1..Len(redo') : ~redo'[i].dirtyBefore => Saved' = BeforeRedo(i)' \/ failedLate'
        BY <1>0, <2>1, RedoShape DEF CleanInv, CleanLinked
    <2>5. \A i \in 1..Len(undo') : ~undo'[i].dirtyBefore => Saved' = past'[i] \/ failedLate'
        BY <1>0, <2>1, <2>3, RedoShape DEF CleanInv, CleanLinked
    <2> QED
        BY <2>2, <2>4, <2>5 DEF CleanInv, CleanLinked, CleanIsSaved
<1>4. CASE Save
    <2>1. /\ undo' = <<>> /\ redo' = <<>> /\ Saved' = Shown(Document)
          /\ Shown(Document)' = Shown(Document)
        <3>1. Document \in States /\ Document # NoFile
            BY <1>0, DocumentType, NoFileAssumption
        <3> QED
            BY <1>4, <3>1 DEF Save, ClearHistory, Document, Shown, Saved
    <2> QED
        BY <2>1 DEF CleanInv, CleanLinked, CleanIsSaved
<1>5. CASE UNCHANGED vars
    <2>1. /\ undo' = undo /\ redo' = redo /\ past' = past /\ future' = future
          /\ Saved' = Saved /\ dirty' = dirty /\ Shown(Document)' = Shown(Document)
          /\ failedLate' = failedLate
        BY <1>5 DEF vars, history, Document, Shown, Saved
    <2> QED
        BY <2>1 DEF CleanInv, CleanLinked, CleanIsSaved, BeforeRedo
<1>6. CASE SaveFailsLate
    BY <1>6 DEF SaveFailsLate, history, CleanInv, CleanLinked, CleanIsSaved
<1> QED
    BY <1>1, <1>2, <1>3, <1>4, <1>5, <1>6 DEF Next

\* The initial states have an empty history, and are clean only if opened.
LEMMA LinkInit == Init => Linked /\ CleanInv
<1> SUFFICES ASSUME Init PROVE Linked /\ CleanInv
    OBVIOUS
<1>1. ~dirty => disk = Document /\ Document # NoFile
    BY TypeInit, DocumentType, NoFileAssumption DEF Init, TypeInv
<1>2. ~dirty => Saved = Shown(Document)
    BY <1>1 DEF Saved
<1> QED
    BY <1>2 DEF Init, Linked, CleanInv, CleanLinked, CleanIsSaved

\* A tab whose dirty flag is off holds what its file holds, but for keys that
\* the file held twice and bytes of the description that are not read: Undo
\* never turns the flag off in any other state.
THEOREM CleanTabIsSaved ==
    Spec => []CleanIsSaved
<1> DEFINE IInv == TypeInv /\ Linked /\ CleanInv
<1>1. Init => IInv
    BY TypeInit, LinkInit
<1>2. IInv /\ [Next]_vars => IInv'
    BY TypeStep, LinkStep, CleanStep
<1>3. IInv => CleanIsSaved
    BY DEF CleanInv
<1> HIDE DEF IInv
<1> QED
    BY <1>1, <1>2, <1>3, PTL DEF Spec

\* Undo returns to what was shown of the document before the edit, also when
\* saves fail after their rename.
THEOREM UndoIsExact ==
    Spec => UndoReturns
<1> DEFINE IInv == TypeInv /\ Linked
<1>1. Init => IInv
    BY TypeInit, LinkInit
<1>2. IInv /\ [Next]_vars => IInv'
    BY TypeStep, LinkStep
<1>3. IInv /\ [Next]_vars => [Undo => Shown(Document)' = past[Len(past)]]_vars
    BY UndoDocument DEF TypeInv
<1> HIDE DEF IInv
<1> QED
    BY <1>1, <1>2, <1>3, PTL DEF Spec, UndoReturns

----------------------------------------------------------------------------
(* The refinement.                                                         *)

\* The initial states of a tab are initial states of the promise.
LEMMA PromiseInit == Init => Promise!Init
<1> SUFFICES ASSUME Init PROVE Promise!Init
    OBVIOUS
<1>1. Document \in States /\ Document # NoFile /\ Shown(Document) \in Shows
    BY TypeInit, DocumentType, NoFileAssumption DEF TypeInv
<1>2. \/ Saved = Shown(Document) /\ dirty = FALSE
      \/ Saved = NoFile /\ dirty = TRUE
    BY <1>1 DEF Init, Saved
<1> QED
    BY <1>1, <1>2 DEF Init, Promise!Init

\* Every step is a step of the promise or invisible to it.
LEMMA PromiseStep ==
    /\ TypeInv /\ Linked /\ CleanInv /\ [Next]_vars /\ TypeInv' /\ CleanInv'
    => [Promise!Next]_(Promise!vars)
<1> SUFFICES ASSUME TypeInv, Linked, CleanInv, [Next]_vars, TypeInv', CleanInv'
             PROVE  Promise!Next \/ UNCHANGED Promise!vars
    OBVIOUS
<1>0. TypeOK /\ TypeOK'
    BY DEF TypeInv
<1>00. /\ Shown(Document) \in Shows /\ Shown(Document)' \in Shows
       /\ Document \in States /\ Document # NoFile
    <2>1. Document' \in States
        BY <1>0 DEF TypeOK, Document, States, Runs, Run
    <2>2. Shown(Document') \in Shows
        BY <2>1, ShownType
    <2> QED
        BY <1>0, <2>2, DocumentType, NoFileAssumption DEF Shown, Shows, Run
<1>000. ~dirty' => Saved' = Shown(Document)' \/ failedLate'
    BY DEF CleanInv, CleanIsSaved
<1>1. CASE Import \/ Merge \/ Delete \/ Describe
    <2>1. PICK edit \in Edits : Commit(edit)
        BY <1>0, <1>1, EditStep
    <2>2. PICK size \in Nat : Record(edit, size) /\ dirty' = TRUE /\ Saved' = Saved
                                /\ failedLate' = failedLate
        BY <2>1, BoundsAssumption DEF Commit, Saved
    <2>3. /\ future' = <<>>
          /\ \/ past' = <<>>
             \/ \E n \in 0..(Len(past) + 1) :
                   past' = SubSeq(Append(past, Shown(Document)), n + 1, Len(past) + 1)
        BY <1>0, <2>2, RecordEffect DEF TypeOK
    <2>4. /\ past \in Seq(Shows) /\ Append(past, Shown(Document)) \in Seq(Shows)
          /\ Len(Append(past, Shown(Document))) = Len(past) + 1 /\ Len(past) \in Nat
        <3>1. past \in Seq(Shows)
            BY <1>0 DEF TypeOK
        <3> QED
            BY <1>00, <3>1, AppendType
    <2>5. \E n \in 0..(Len(past) + 1) :
              past' = SubSeq(Append(past, Shown(Document)), n + 1, Len(past) + 1)
        <3>1. CASE past' = <<>>
            <4>1. SubSeq(Append(past, Shown(Document)), Len(past) + 1 + 1, Len(past) + 1) = <<>>
                BY <2>4
            <4>2. Len(past) + 1 \in 0..(Len(past) + 1)
                BY <2>4
            <4> QED
                BY <3>1, <4>1, <4>2
        <3> QED
            BY <2>3, <3>1
    <2>6. past' \in Promise!SuffixesOf(Append(past, Shown(Document)))
        <3>1. PICK n \in 0..(Len(past) + 1) :
                past' = SubSeq(Append(past, Shown(Document)), n + 1, Len(past) + 1)
            BY <2>5
        <3>2. n + 1 \in 1..(Len(Append(past, Shown(Document))) + 1)
            BY <2>4, <3>1
        <3> QED
            BY <2>4, <3>1, <3>2 DEF Promise!SuffixesOf
    <2>7. Promise!Edit
        BY <1>00, <2>2, <2>3, <2>6 DEF Promise!Edit
    <2> QED
        BY <2>7 DEF Promise!Next
<1>2. CASE Undo
    <2>1. Shown(Document)' = past[Len(past)] /\ past # <<>>
        BY <1>0, <1>2, UndoDocument DEF Undo, TypeOK
    <2>2. Promise!Undo
        BY <1>0, <1>2, <1>000, <2>1
        DEF Undo, TypeOK, Saved, Promise!Undo, Promise!LastOf, Promise!FrontOf
    <2> QED
        BY <2>2 DEF Promise!Next
<1>3. CASE Redo
    <2>1. Shown(Document)' = future[Len(future)] /\ future # <<>>
        BY <1>0, <1>3, RedoDocument DEF Redo, TypeOK
    <2>2. redo[Len(redo)] \in Transactions
        BY <1>0, <1>3, FrontType DEF Redo, TypeOK
    <2>3. dirty' = TRUE
        BY <1>3, <2>2 DEF Redo, Transactions
    <2>4. Promise!Redo
        BY <1>3, <2>1, <2>3 DEF Redo, Saved, Promise!Redo, Promise!LastOf, Promise!FrontOf
    <2> QED
        BY <2>4 DEF Promise!Next
<1>4. CASE Save
    <2>1. Saved' = Shown(Document) /\ Shown(Document)' = Shown(Document)
        BY <1>4, <1>00 DEF Save, Document, Shown, Saved
    <2> QED
        BY <1>4, <2>1 DEF Save, ClearHistory, Promise!Next, Promise!Save
<1>5. CASE UNCHANGED vars
    BY <1>5 DEF vars, history, Document, Shown, Saved, Promise!vars
<1>6. CASE SaveFailsLate
    <2>1. Saved' = Shown(Document) /\ Shown(Document)' = Shown(Document)
        BY <1>6, <1>00 DEF SaveFailsLate, Document, Shown, Saved
    <2> QED
        BY <1>6, <2>1 DEF SaveFailsLate, history, Promise!Next, Promise!SaveFailsLate
<1> QED
    BY <1>1, <1>2, <1>3, <1>4, <1>5, <1>6 DEF Next

\* The transactions implement the linear history they stand for.
THEOREM HistoryIsLinear ==
    Spec => KeepsPromise
<1> DEFINE IInv == TypeInv /\ Linked /\ CleanInv
<1>1. Init => IInv
    BY TypeInit, LinkInit
<1>2. IInv /\ [Next]_vars => IInv'
    BY TypeStep, LinkStep, CleanStep
<1>3. IInv /\ IInv' /\ [Next]_vars => [Promise!Next]_(Promise!vars)
    BY PromiseStep
<1> HIDE DEF IInv
<1> QED
    BY <1>1, <1>2, <1>3, PromiseInit, PTL DEF Spec, KeepsPromise, Promise!Spec
=============================================================================
