---------------------------- MODULE ArchiveProofs ----------------------------
(***************************************************************************)
(* Proofs about the data of archives: that the entries of a tab read what  *)
(* the user put there (ArchiveData), for any number of tabs, files and     *)
(* keys, and that an export by many threads writes them (ParallelExport),  *)
(* for any number of threads and resources.                                *)
(***************************************************************************)
EXTENDS ArchiveData, ParallelExport, FiniteSetTheorems, TLAPS

----------------------------------------------------------------------------
(* Layout.                                                                 *)

\* Functions from some of the keys.
LEMMA PartialDef ==
    ASSUME NEW S, NEW f
    PROVE  f \in Partial(S) <=> DOMAIN f \in SUBSET Keys /\ f \in [DOMAIN f -> S]
BY DEF Partial

\* A set of keys is finite, and its ranks are positive, and increase.
LEMMA RankType ==
    ASSUME NEW K \in SUBSET Keys, NEW k \in K
    PROVE  /\ IsFiniteSet(K) /\ Cardinality(K) \in 0..KeyCount
           /\ Rank(K, k) \in 1..Cardinality(K)
<1>1. KeyCount \in Nat /\ IsFiniteSet(1..KeyCount) /\ Cardinality(1..KeyCount) = KeyCount
    BY DataAssumption, FS_Interval
<1>2. /\ IsFiniteSet(K) /\ Cardinality(K) <= KeyCount /\ Cardinality(K) \in Nat
    BY <1>1, FS_Subset, FS_CardinalityType DEF Keys
<1> DEFINE below == {j \in K : j <= k}
<1>3. below \in SUBSET K /\ k \in below
    BY DEF Keys
<1>4. /\ IsFiniteSet(below) /\ Cardinality(below) <= Cardinality(K)
      /\ Cardinality(below) \in Nat /\ Cardinality(below) # 0
    BY <1>2, <1>3, FS_Subset, FS_CardinalityType, FS_EmptySet
<1> HIDE DEF below
<1>5. Cardinality(below) \in 1..Cardinality(K)
    BY <1>2, <1>4
<1> QED
    BY <1>1, <1>2, <1>5 DEF Rank, below

LEMMA RankInjective ==
    ASSUME NEW K \in SUBSET Keys, NEW k \in K, NEW l \in K, Rank(K, k) = Rank(K, l)
    PROVE  k = l
<1>1. ASSUME NEW i \in K, NEW j \in K, i < j, Rank(K, i) = Rank(K, j)
      PROVE  FALSE
    <2> DEFINE I == {m \in K : m <= i}
               J == {m \in K : m <= j}
    <2>1. K \subseteq Nat
        BY DataAssumption DEF Keys
    <2>2. I \in SUBSET J /\ j \in J /\ j \notin I
        <3>1. i \in Nat /\ j \in Nat /\ \A m \in K : m \in Nat
            BY <2>1
        <3>2. \A m \in K : m <= i => m <= j
            BY <3>1, <1>1
        <3>3. ~(j <= i) /\ j <= j
            BY <3>1, <1>1
        <3> QED
            BY <3>2, <3>3
    <2>3. IsFiniteSet(K) /\ J \in SUBSET K
        BY RankType
    <2>4. IsFiniteSet(J)
        BY <2>3, FS_Subset
    <2>5. Cardinality(I) = Cardinality(J)
        BY <1>1 DEF Rank
    <2> HIDE DEF I, J
    <2> QED
        BY <2>2, <2>4, <2>5, FS_Subset
<1>2. k \in Nat /\ l \in Nat
    BY DataAssumption DEF Keys
<1> QED
    BY <1>1, <1>2

\* A slice is a source.
LEMMA SliceType ==
    ASSUME NEW p \in Paths, NEW contents \in Partial(Contents), NEW k \in DOMAIN contents
    PROVE  Slice(p, contents, k) \in Sources
<1>1. DOMAIN contents \in SUBSET Keys
    BY PartialDef
<1>2. /\ Cardinality(DOMAIN contents) \in 0..KeyCount
      /\ Rank(DOMAIN contents, k) \in 1..Cardinality(DOMAIN contents)
    BY <1>1, RankType
<1>3. Size(contents) + Rank(DOMAIN contents, k) \in 1..(2 * KeyCount)
    BY <1>2, DataAssumption DEF Size
<1> QED
    BY <1>3 DEF Slice, Sources

LEMMA SlicesType ==
    ASSUME NEW p \in Paths, NEW contents \in Partial(Contents)
    PROVE  /\ Slices(p, contents) \in Partial(Sources)
           /\ DOMAIN Slices(p, contents) = DOMAIN contents
BY SliceType, PartialDef DEF Slices

\* Read, of the files f.
ReadIn(f, source) ==
    IF source.kind = "file" THEN source.content
    ELSE LET contents == f[source.path]
             here == {k \in DOMAIN contents :
                        Slice(source.path, contents, k).place = source.place}
         IN IF here = {} THEN Garbage ELSE contents[CHOOSE k \in here : TRUE]

\* What is read of a file is what it was given to hold, at each key: the
\* places of the slices are all different.
LEMMA SliceReads ==
    ASSUME NEW f, NEW p \in Paths, f[p] \in Partial(Contents), NEW k \in DOMAIN f[p]
    PROVE  ReadIn(f, Slice(p, f[p], k)) = f[p][k]
<1> DEFINE contents == f[p]
           source == Slice(p, contents, k)
           here == {l \in DOMAIN contents :
                        Slice(p, contents, l).place = source.place}
<1>1. DOMAIN contents \in SUBSET Keys
    BY PartialDef
<1>2. \A l \in DOMAIN contents :
          Slice(p, contents, l).place = Size(contents) + Rank(DOMAIN contents, l)
    BY DEF Slice
<1>3. /\ Size(contents) \in Nat
      /\ \A l \in DOMAIN contents : Rank(DOMAIN contents, l) \in Nat
    BY <1>1, RankType DEF Size
<1>4. ASSUME NEW l \in here PROVE l = k
    <2>1. Rank(DOMAIN contents, l) = Rank(DOMAIN contents, k)
        BY <1>2, <1>3
    <2> QED
        BY <2>1, <1>1, RankInjective
<1>5. here = {k}
    BY <1>4
<1>6. source.kind = "slice" /\ source.path = p
    BY DEF Slice
<1>7. ReadIn(f, source) = IF here = {} THEN Garbage ELSE contents[CHOOSE l \in here : TRUE]
    BY <1>6 DEF ReadIn
<1> HIDE DEF here
<1>8. here # {} /\ (CHOOSE l \in here : TRUE) = k
    BY <1>5
<1> QED
    BY <1>7, <1>8

\* Something can be read at each source.
LEMMA ReadType ==
    ASSUME NEW f \in [Paths -> Partial(Contents)], NEW source \in Sources
    PROVE  ReadIn(f, source) \in Contents
<1>1. CASE source.kind = "file"
    BY <1>1 DEF ReadIn, Sources, Contents
<1>2. CASE source.kind # "file"
    <2> DEFINE contents == f[source.path]
               here == {k \in DOMAIN contents :
                          Slice(source.path, contents, k).place = source.place}
    <2>1. source.path \in Paths
        BY <1>2 DEF Sources
    <2>2. contents \in Partial(Contents)
        BY <2>1
    <2>3. contents \in [DOMAIN contents -> Contents]
        BY <2>2, PartialDef
    <2>4. \A k \in here : contents[k] \in Contents
        BY <2>3
    <2>5. ReadIn(f, source) = IF here = {} THEN Garbage ELSE contents[CHOOSE k \in here : TRUE]
        BY <1>2 DEF ReadIn
    <2> HIDE DEF here, contents
    <2>6. here # {} => (CHOOSE k \in here : TRUE) \in here
        OBVIOUS
    <2> QED
        BY <2>4, <2>5, <2>6 DEF Contents
<1> QED
    BY <1>1, <1>2

\* Only the file of a slice matters.
LEMMA ReadFrame ==
    ASSUME NEW f, NEW g, NEW source,
           source.kind # "file" => g[source.path] = f[source.path]
    PROVE  ReadIn(g, source) = ReadIn(f, source)
<1>1. CASE source.kind = "file"
    BY <1>1 DEF ReadIn
<1>2. CASE source.kind # "file"
    <2> DEFINE body(contents) ==
                  LET here == {k \in DOMAIN contents :
                                 Slice(source.path, contents, k).place = source.place}
                  IN IF here = {} THEN Garbage ELSE contents[CHOOSE k \in here : TRUE]
    <2>1. /\ ReadIn(g, source) = body(g[source.path])
          /\ ReadIn(f, source) = body(f[source.path])
        BY <1>2 DEF ReadIn
    <2> HIDE DEF body
    <2>2. g[source.path] = f[source.path]
        BY <1>2
    <2> QED
        BY <2>1, <2>2
<1> QED
    BY <1>1, <1>2

----------------------------------------------------------------------------
(* Entries and what they should read.                                      *)

\* Entries and the contents they are for: of the same keys.
Paired(held, contents) ==
    /\ held \in Partial(Sources) /\ contents \in Partial(Contents)
    /\ DOMAIN contents = DOMAIN held

Reads(f, held, contents) == \A k \in DOMAIN held : ReadIn(f, held[k]) = contents[k]

\* No entries.
LEMMA EmptyPaired == Paired(<<>>, <<>>) /\ \A f : Reads(f, <<>>, <<>>)
<1>1. DOMAIN <<>> = {}
    OBVIOUS
<1>2. <<>> \in [{} -> Sources] /\ <<>> \in [{} -> Contents]
    OBVIOUS
<1> QED
    BY <1>1, <1>2, PartialDef DEF Paired, Reads

\* The slices of a file read what it holds.
LEMMA SlicesRead ==
    ASSUME NEW f \in [Paths -> Partial(Contents)], NEW p \in Paths
    PROVE  Paired(Slices(p, f[p]), f[p]) /\ Reads(f, Slices(p, f[p]), f[p])
<1>1. Paired(Slices(p, f[p]), f[p])
    BY SlicesType DEF Paired
<1>2. \A k \in DOMAIN f[p] : Slices(p, f[p])[k] = Slice(p, f[p], k)
    BY DEF Slices
<1>3. DOMAIN Slices(p, f[p]) = DOMAIN f[p]
    BY DEF Slices
<1> QED
    BY <1>1, <1>2, <1>3, SliceReads DEF Reads

\* Putting entries in place of others, or beside them.
LEMMA WithPaired ==
    ASSUME NEW new, NEW contents, NEW old, NEW before,
           Paired(new, contents), Paired(old, before)
    PROVE  Paired(With(new, old), With(contents, before))
<1>1. /\ new \in [DOMAIN new -> Sources] /\ DOMAIN new \in SUBSET Keys
      /\ old \in [DOMAIN old -> Sources] /\ DOMAIN old \in SUBSET Keys
      /\ contents \in [DOMAIN new -> Contents] /\ before \in [DOMAIN old -> Contents]
      /\ DOMAIN contents = DOMAIN new /\ DOMAIN before = DOMAIN old
    BY PartialDef DEF Paired
<1>2. /\ With(new, old) \in [DOMAIN new \cup DOMAIN old -> Sources]
      /\ With(contents, before) \in [DOMAIN new \cup DOMAIN old -> Contents]
      /\ DOMAIN With(new, old) = DOMAIN new \cup DOMAIN old
      /\ DOMAIN With(contents, before) = DOMAIN new \cup DOMAIN old
      /\ DOMAIN new \cup DOMAIN old \in SUBSET Keys
    BY <1>1 DEF With
<1> QED
    BY <1>2, PartialDef DEF Paired

LEMMA WithReads ==
    ASSUME NEW f, NEW new, NEW contents, NEW old, NEW before,
           DOMAIN contents = DOMAIN new, DOMAIN before = DOMAIN old,
           Reads(f, new, contents), Reads(f, old, before)
    PROVE  Reads(f, With(new, old), With(contents, before))
BY DEF Reads, With

\* Leaving entries out.
LEMMA RestrictPaired ==
    ASSUME NEW held, NEW contents, Paired(held, contents), NEW K, K \subseteq DOMAIN held
    PROVE  /\ Paired(Restrict(held, K), Restrict(contents, K))
           /\ \A f : Reads(f, held, contents) =>
                        Reads(f, Restrict(held, K), Restrict(contents, K))
<1>1. /\ held \in [DOMAIN held -> Sources] /\ DOMAIN held \in SUBSET Keys
      /\ contents \in [DOMAIN held -> Contents]
    BY PartialDef DEF Paired
<1>2. /\ Restrict(held, K) \in [K -> Sources] /\ Restrict(contents, K) \in [K -> Contents]
      /\ DOMAIN Restrict(held, K) = K /\ DOMAIN Restrict(contents, K) = K
      /\ K \in SUBSET Keys
      /\ \A k \in K : Restrict(held, K)[k] = held[k] /\ Restrict(contents, K)[k] = contents[k]
    BY <1>1 DEF Restrict
<1> QED
    BY <1>2, PartialDef DEF Paired, Reads

\* One entry of a file outside.
LEMMA OnePaired ==
    ASSUME NEW k \in Keys, NEW c \in Outside, NEW held, NEW contents,
           held = [j \in {k} |-> [kind |-> "file", content |-> c]],
           contents = [j \in {k} |-> c]
    PROVE  Paired(held, contents) /\ \A f : Reads(f, held, contents)
<1> DEFINE source == [kind |-> "file", content |-> c]
<1>1. source \in Sources /\ c \in Contents
    BY DEF Sources, Contents
<1>2. \A f : ReadIn(f, source) = c
    BY DEF ReadIn
<1> HIDE DEF source
<1>3. held = [j \in {k} |-> source]
    BY DEF source
<1>4. /\ held \in [{k} -> Sources] /\ contents \in [{k} -> Contents]
      /\ DOMAIN held = {k} /\ DOMAIN contents = {k}
      /\ held[k] = source /\ contents[k] = c
      /\ {k} \in SUBSET Keys
    BY <1>1, <1>3
<1>5. Paired(held, contents)
    BY <1>4, PartialDef DEF Paired
<1>6. \A f : Reads(f, held, contents)
    BY <1>2, <1>4 DEF Reads
<1> QED
    BY <1>5, <1>6

----------------------------------------------------------------------------
(* The steps.                                                              *)

\* What a tab holds and what undo would bring back are well typed, and read
\* what they should in the files f.
Matched(held, contents, back, meant) ==
    /\ Paired(held, contents)
    /\ back \in Seq(Partial(Sources)) /\ meant \in Seq(Partial(Contents))
    /\ Len(meant) = Len(back)
    /\ \A i \in 1..Len(back) : Paired(back[i], meant[i])

Right(f, held, contents, back, meant) ==
    /\ Reads(f, held, contents)
    /\ \A i \in 1..Len(back) : Reads(f, back[i], meant[i])

\* The inductive invariant: every tab's entries match their contents, those
\* it would bring back by undo too, and those of undisturbed tabs read them.
TabsMatch ==
    /\ file \in [Paths -> Partial(Contents)]
    /\ Open \subseteq Tabs
    /\ path \in [Open -> Paths \cup {NoPath}]
    /\ DOMAIN entries = Open /\ DOMAIN intended = Open
    /\ DOMAIN past = Open /\ DOMAIN wanted = Open
    /\ \A t \in Open : Matched(entries[t], intended[t], past[t], wanted[t])
    /\ disturbed \subseteq Open /\ steps \in 0..MaxSteps

TabsRight ==
    \A t \in Open \ disturbed : Right(file, entries[t], intended[t], past[t], wanted[t])

DataInv == TabsMatch /\ TabsRight

\* A function restricted to fewer.
LEMMA RestrictIs ==
    ASSUME NEW f, NEW S
    PROVE  /\ DOMAIN Restrict(f, S) = S
           /\ \A u \in S : Restrict(f, S)[u] = f[u]
BY DEF Restrict

\* A new tab matches and reads what it should, and the others are as before.
LEMMA AddTabStep ==
    ASSUME DataInv, NEW t \in Tabs, t \notin Open, NEW p \in Paths \cup {NoPath},
           NEW held, NEW contents, Paired(held, contents), Reads(file, held, contents),
           path' = Extend(path, t, p), entries' = Extend(entries, t, held),
           past' = Extend(past, t, <<>>), intended' = Extend(intended, t, contents),
           wanted' = Extend(wanted, t, <<>>),
           file' = file, disturbed' = disturbed, steps' \in 0..MaxSteps
    PROVE  DataInv'
<1>1. /\ DOMAIN path' = Open \cup {t} /\ DOMAIN entries' = Open \cup {t}
      /\ DOMAIN past' = Open \cup {t} /\ DOMAIN intended' = Open \cup {t}
      /\ DOMAIN wanted' = Open \cup {t}
    BY DEF DataInv, TabsMatch, Open, Extend
<1>2. /\ path'[t] = p /\ entries'[t] = held /\ past'[t] = <<>>
      /\ intended'[t] = contents /\ wanted'[t] = <<>>
    BY DEF Extend
<1>3. \A u \in Open :
         /\ path'[u] = path[u] /\ entries'[u] = entries[u] /\ past'[u] = past[u]
         /\ intended'[u] = intended[u] /\ wanted'[u] = wanted[u]
    BY DEF DataInv, TabsMatch, Open, Extend
<1>4. path' \in [Open \cup {t} -> Paths \cup {NoPath}]
    BY <1>1, <1>2, <1>3 DEF Extend, DataInv, TabsMatch
<1>5. Matched(held, contents, <<>>, <<>>) /\ Right(file, held, contents, <<>>, <<>>)
    <2>1. /\ <<>> \in Seq(Partial(Sources)) /\ <<>> \in Seq(Partial(Contents))
          /\ Len(<<>>) = 0 /\ 1..0 = {}
        OBVIOUS
    <2> QED
        BY <2>1 DEF Matched, Right
<1>6. \A u \in Open \cup {t} : Matched(entries'[u], intended'[u], past'[u], wanted'[u])
    BY <1>2, <1>3, <1>5 DEF DataInv, TabsMatch
<1>7. \A u \in (Open \cup {t}) \ disturbed :
          Right(file, entries'[u], intended'[u], past'[u], wanted'[u])
    BY <1>2, <1>3, <1>5 DEF DataInv, TabsRight
<1>8. Open' = Open \cup {t}
    BY <1>1 DEF Open
<1>9. TabsMatch'
    BY <1>1, <1>4, <1>6, <1>8 DEF DataInv, TabsMatch
<1>10. TabsRight'
    BY <1>7, <1>8 DEF TabsRight
<1> QED
    BY <1>9, <1>10 DEF DataInv

\* Closing a tab leaves the others as they were.
LEMMA CloseTabStep ==
    ASSUME DataInv, NEW t \in Open, CloseTab(t)
    PROVE  DataInv'
<1> DEFINE left == Open \ {t}
<1>0. steps' \in 0..MaxSteps /\ file' = file /\ disturbed' = disturbed \ {t}
    BY DataAssumption DEF CloseTab, Step, DataInv, TabsMatch
<1>1. /\ DOMAIN path' = left /\ DOMAIN entries' = left /\ DOMAIN past' = left
      /\ DOMAIN intended' = left /\ DOMAIN wanted' = left
    BY RestrictIs DEF CloseTab
<1>2. \A u \in left :
         /\ path'[u] = path[u] /\ entries'[u] = entries[u] /\ past'[u] = past[u]
         /\ intended'[u] = intended[u] /\ wanted'[u] = wanted[u]
    BY RestrictIs DEF CloseTab
<1>3. path' \in [left -> Paths \cup {NoPath}]
    BY DEF CloseTab, Restrict, DataInv, TabsMatch
<1>4. Open' = left
    BY <1>1 DEF Open
<1>5. \A u \in left : Matched(entries'[u], intended'[u], past'[u], wanted'[u])
    BY <1>2 DEF DataInv, TabsMatch
<1>6. \A u \in left \ disturbed' :
          Right(file, entries'[u], intended'[u], past'[u], wanted'[u])
    BY <1>0, <1>2 DEF DataInv, TabsRight
<1>7. TabsMatch'
    BY <1>0, <1>1, <1>3, <1>4, <1>5 DEF DataInv, TabsMatch
<1>8. TabsRight'
    BY <1>0, <1>4, <1>6 DEF TabsRight
<1> QED
    BY <1>7, <1>8 DEF DataInv

\* A step in one tab, t: the others are as before, and t is right as it was
\* disturbed before or is right now.
LEMMA OneTabStep ==
    ASSUME DataInv, NEW t \in Open,
           NEW held, NEW contents, NEW back, NEW meant,
           Matched(held, contents, back, meant),
           t \notin disturbed => Right(file, held, contents, back, meant),
           entries' = [entries EXCEPT ![t] = held], intended' = [intended EXCEPT ![t] = contents],
           past' = [past EXCEPT ![t] = back], wanted' = [wanted EXCEPT ![t] = meant],
           path' = path, file' = file, disturbed' = disturbed, steps' \in 0..MaxSteps
    PROVE  DataInv'
<1>1. /\ DOMAIN entries = Open /\ DOMAIN intended = Open /\ DOMAIN past = Open
      /\ DOMAIN wanted = Open
    BY DEF DataInv, TabsMatch
<1>2. /\ DOMAIN entries' = Open /\ DOMAIN past' = Open
      /\ DOMAIN intended' = Open /\ DOMAIN wanted' = Open
    BY <1>1
<1>3. /\ entries'[t] = held /\ past'[t] = back
      /\ intended'[t] = contents /\ wanted'[t] = meant
    BY <1>1
<1>4. \A u \in Open \ {t} :
         /\ entries'[u] = entries[u] /\ past'[u] = past[u]
         /\ intended'[u] = intended[u] /\ wanted'[u] = wanted[u]
    BY <1>1
<1>5. Open' = Open
    BY DEF Open
<1>6. \A u \in Open : Matched(entries'[u], intended'[u], past'[u], wanted'[u])
    BY <1>3, <1>4 DEF DataInv, TabsMatch
<1>7. \A u \in Open \ disturbed :
          Right(file, entries'[u], intended'[u], past'[u], wanted'[u])
    BY <1>3, <1>4 DEF DataInv, TabsRight
<1>8. TabsMatch'
    BY <1>2, <1>5, <1>6 DEF DataInv, TabsMatch
<1>9. TabsRight'
    BY <1>5, <1>7 DEF TabsRight
<1> QED
    BY <1>8, <1>9 DEF DataInv

\* Remembering what a tab holds for undo.
LEMMA AppendMatched ==
    ASSUME NEW held, NEW contents, NEW back, NEW meant,
           Matched(held, contents, back, meant),
           NEW new, NEW chosen, Paired(new, chosen)
    PROVE  /\ Matched(new, chosen, Append(back, held), Append(meant, contents))
           /\ \A f : Right(f, held, contents, back, meant) /\ Reads(f, new, chosen)
                        => Right(f, new, chosen, Append(back, held), Append(meant, contents))
<1>1. /\ back \in Seq(Partial(Sources)) /\ meant \in Seq(Partial(Contents))
      /\ Len(meant) = Len(back) /\ Len(back) \in Nat
      /\ held \in Partial(Sources) /\ contents \in Partial(Contents)
    BY DEF Matched, Paired
<1> DEFINE b == Append(back, held)
           m == Append(meant, contents)
<1>2. /\ b \in Seq(Partial(Sources)) /\ m \in Seq(Partial(Contents))
      /\ Len(b) = Len(back) + 1 /\ Len(m) = Len(back) + 1
      /\ \A i \in 1..Len(back) : b[i] = back[i] /\ m[i] = meant[i]
      /\ b[Len(back) + 1] = held /\ m[Len(back) + 1] = contents
    BY <1>1
<1>3. \A i \in 1..(Len(back) + 1) : i \in 1..Len(back) \/ i = Len(back) + 1
    BY <1>1
<1> HIDE DEF b, m
<1>4. Matched(new, chosen, b, m)
    BY <1>2, <1>3 DEF Matched
<1>5. ASSUME NEW f, Right(f, held, contents, back, meant), Reads(f, new, chosen)
      PROVE  Right(f, new, chosen, b, m)
    BY <1>2, <1>3, <1>5 DEF Right
<1> QED
    BY <1>4, <1>5 DEF b, m

\* Taking the latest of what undo would bring back.
LEMMA LastMatched ==
    ASSUME NEW held, NEW contents, NEW back, NEW meant,
           Matched(held, contents, back, meant), back # <<>>
    PROVE  /\ Matched(Last(back), Last(meant), Front(back), Front(meant))
           /\ \A f : Right(f, held, contents, back, meant)
                        => Right(f, Last(back), Last(meant), Front(back), Front(meant))
<1>1. /\ back \in Seq(Partial(Sources)) /\ meant \in Seq(Partial(Contents))
      /\ Len(meant) = Len(back) /\ Len(back) \in Nat \ {0}
    BY DEF Matched
<1>2. Last(back) = back[Len(back)] /\ Last(meant) = meant[Len(back)]
    BY <1>1 DEF Last
<1> DEFINE b == Front(back)
           m == Front(meant)
<1>3. /\ b \in Seq(Partial(Sources)) /\ m \in Seq(Partial(Contents))
      /\ Len(b) = Len(back) - 1 /\ Len(m) = Len(back) - 1
      /\ \A i \in 1..(Len(back) - 1) : b[i] = back[i] /\ m[i] = meant[i]
    BY <1>1 DEF Front
<1>4. /\ Len(back) \in 1..Len(back)
      /\ \A i \in 1..(Len(back) - 1) : i \in 1..Len(back)
    BY <1>1
<1> HIDE DEF b, m
<1>5. Matched(Last(back), Last(meant), b, m)
    BY <1>2, <1>3, <1>4 DEF Matched
<1>6. ASSUME NEW f, Right(f, held, contents, back, meant)
      PROVE  Right(f, Last(back), Last(meant), b, m)
    BY <1>2, <1>3, <1>4, <1>6 DEF Right
<1> QED
    BY <1>5, <1>6 DEF b, m

\* What the invariant says of one tab.
LEMMA TabFacts ==
    ASSUME DataInv, NEW t \in Open
    PROVE  /\ Matched(entries[t], intended[t], past[t], wanted[t])
           /\ Paired(entries[t], intended[t])
           /\ t \notin disturbed =>
                 /\ Right(file, entries[t], intended[t], past[t], wanted[t])
                 /\ Reads(file, entries[t], intended[t])
<1>1. Matched(entries[t], intended[t], past[t], wanted[t])
    BY DEF DataInv, TabsMatch
<1>2. t \notin disturbed => Right(file, entries[t], intended[t], past[t], wanted[t])
    BY DEF DataInv, TabsRight
<1> QED
    BY <1>1, <1>2 DEF Matched, Right

\* An edit of a tab that brings entries that match their contents.
LEMMA EditStep ==
    ASSUME DataInv, NEW t \in Open, NEW held, NEW contents,
           Paired(held, contents), t \notin disturbed => Reads(file, held, contents),
           steps < MaxSteps, steps' = steps + 1,
           entries' = [entries EXCEPT ![t] = held],
           past' = [past EXCEPT ![t] = Append(past[t], entries[t])],
           intended' = [intended EXCEPT ![t] = contents],
           wanted' = [wanted EXCEPT ![t] = Append(wanted[t], intended[t])],
           file' = file, path' = path, disturbed' = disturbed
    PROVE  DataInv'
<1>0. steps' \in 0..MaxSteps
    BY DataAssumption DEF DataInv, TabsMatch
<1> DEFINE back == Append(past[t], entries[t])
           meant == Append(wanted[t], intended[t])
<1>1. /\ Matched(entries[t], intended[t], past[t], wanted[t])
      /\ t \notin disturbed => Right(file, entries[t], intended[t], past[t], wanted[t])
    BY TabFacts
<1>2. /\ Matched(held, contents, back, meant)
      /\ t \notin disturbed => Right(file, held, contents, back, meant)
    BY <1>1, AppendMatched
<1>3. past' = [past EXCEPT ![t] = back] /\ wanted' = [wanted EXCEPT ![t] = meant]
    OBVIOUS
<1> HIDE DEF back, meant
<1> QED
    BY <1>0, <1>2, <1>3, OneTabStep

\* open_path and new_archive.
LEMMA OpenStep ==
    ASSUME DataInv, NEW t \in Tabs, NewArchive(t) \/ \E p \in Paths : OpenPath(t, p)
    PROVE  DataInv'
<1>1. CASE NewArchive(t)
    <2>1. steps' \in 0..MaxSteps
        BY <1>1, DataAssumption DEF NewArchive, Step, DataInv, TabsMatch
    <2>2. /\ t \notin Open
          /\ path' = Extend(path, t, NoPath) /\ entries' = Extend(entries, t, <<>>)
          /\ past' = Extend(past, t, <<>>) /\ intended' = Extend(intended, t, <<>>)
          /\ wanted' = Extend(wanted, t, <<>>) /\ file' = file /\ disturbed' = disturbed
        BY <1>1 DEF NewArchive, AddTab
    <2>3. Paired(<<>>, <<>>) /\ Reads(file, <<>>, <<>>)
        BY EmptyPaired
    <2> QED
        BY <2>1, <2>2, <2>3, AddTabStep
<1>2. ASSUME NEW p \in Paths, OpenPath(t, p) PROVE DataInv'
    <2>1. steps' \in 0..MaxSteps
        BY <1>2, DataAssumption DEF OpenPath, Step, DataInv, TabsMatch
    <2> DEFINE held == Slices(p, file[p])
               contents == file[p]
    <2>2. /\ t \notin Open
          /\ path' = Extend(path, t, p) /\ entries' = Extend(entries, t, held)
          /\ past' = Extend(past, t, <<>>) /\ intended' = Extend(intended, t, contents)
          /\ wanted' = Extend(wanted, t, <<>>) /\ file' = file /\ disturbed' = disturbed
        BY <1>2 DEF OpenPath, AddTab
    <2>3. Paired(held, contents) /\ Reads(file, held, contents)
        BY SlicesRead DEF DataInv, TabsMatch
    <2> HIDE DEF held, contents
    <2> QED
        BY <2>1, <2>2, <2>3, AddTabStep
<1> QED
    BY <1>1, <1>2

\* The edits.
LEMMA ChangeStep ==
    ASSUME DataInv, NEW t \in Open,
           \/ \E p \in Paths : Merge(t, p)
           \/ \E k \in Keys : Delete(t, k)
           \/ \E k \in Keys, c \in Outside : Add(t, k, c)
    PROVE  DataInv'
<1>0. /\ Paired(entries[t], intended[t])
      /\ t \notin disturbed => Reads(file, entries[t], intended[t])
      /\ DOMAIN intended[t] = DOMAIN entries[t]
    BY TabFacts DEF Paired
<1>1. ASSUME NEW p \in Paths, Merge(t, p) PROVE DataInv'
    <2> DEFINE new == Slices(p, file[p])
               chosen == file[p]
               held == With(new, entries[t])
               contents == With(chosen, intended[t])
    <2>1. Paired(new, chosen) /\ Reads(file, new, chosen)
        BY SlicesRead DEF DataInv, TabsMatch
    <2>2. /\ steps < MaxSteps /\ steps' = steps + 1
          /\ entries' = [entries EXCEPT ![t] = held]
          /\ past' = [past EXCEPT ![t] = Append(past[t], entries[t])]
          /\ intended' = [intended EXCEPT ![t] = contents]
          /\ wanted' = [wanted EXCEPT ![t] = Append(wanted[t], intended[t])]
          /\ file' = file /\ path' = path /\ disturbed' = disturbed
        BY <1>1 DEF Merge, Edit, Step
    <2> HIDE DEF new, chosen
    <2>3. Paired(held, contents)
        BY <1>0, <2>1, WithPaired
    <2>4. t \notin disturbed => Reads(file, held, contents)
        BY <1>0, <2>1, WithReads DEF Paired
    <2> HIDE DEF held, contents
    <2> QED
        BY <2>2, <2>3, <2>4, EditStep
<1>2. ASSUME NEW k \in Keys, Delete(t, k) PROVE DataInv'
    <2> DEFINE held == Restrict(entries[t], DOMAIN entries[t] \ {k})
               contents == Restrict(intended[t], DOMAIN intended[t] \ {k})
    <2>1. /\ steps < MaxSteps /\ steps' = steps + 1
          /\ entries' = [entries EXCEPT ![t] = held]
          /\ past' = [past EXCEPT ![t] = Append(past[t], entries[t])]
          /\ intended' = [intended EXCEPT ![t] = contents]
          /\ wanted' = [wanted EXCEPT ![t] = Append(wanted[t], intended[t])]
          /\ file' = file /\ path' = path /\ disturbed' = disturbed
        BY <1>2 DEF Delete, Edit, Step
    <2>2. Paired(held, contents) /\ (t \notin disturbed => Reads(file, held, contents))
        BY <1>0, RestrictPaired
    <2> HIDE DEF held, contents
    <2> QED
        BY <2>1, <2>2, EditStep
<1>3. ASSUME NEW k \in Keys, NEW c \in Outside, Add(t, k, c) PROVE DataInv'
    <2> DEFINE new == [j \in {k} |-> [kind |-> "file", content |-> c]]
               chosen == [j \in {k} |-> c]
               held == With(new, entries[t])
               contents == With(chosen, intended[t])
    <2>1. Paired(new, chosen) /\ Reads(file, new, chosen)
        BY OnePaired
    <2>2. /\ steps < MaxSteps /\ steps' = steps + 1
          /\ entries' = [entries EXCEPT ![t] = held]
          /\ past' = [past EXCEPT ![t] = Append(past[t], entries[t])]
          /\ intended' = [intended EXCEPT ![t] = contents]
          /\ wanted' = [wanted EXCEPT ![t] = Append(wanted[t], intended[t])]
          /\ file' = file /\ path' = path /\ disturbed' = disturbed
        BY <1>3 DEF Add, Edit, Step
    <2> HIDE DEF new, chosen
    <2>3. Paired(held, contents)
        BY <1>0, <2>1, WithPaired
    <2>4. t \notin disturbed => Reads(file, held, contents)
        BY <1>0, <2>1, WithReads DEF Paired
    <2> HIDE DEF held, contents
    <2> QED
        BY <2>2, <2>3, <2>4, EditStep
<1> QED
    BY <1>1, <1>2, <1>3

\* undo_edit.
LEMMA UndoStep ==
    ASSUME DataInv, NEW t \in Open, Undo(t)
    PROVE  DataInv'
<1>0. steps' \in 0..MaxSteps
    BY DataAssumption DEF Undo, Step, DataInv, TabsMatch
<1> DEFINE held == Last(past[t])
           contents == Last(wanted[t])
           back == Front(past[t])
           meant == Front(wanted[t])
<1>1. /\ past[t] # <<>>
      /\ entries' = [entries EXCEPT ![t] = held] /\ past' = [past EXCEPT ![t] = back]
      /\ intended' = [intended EXCEPT ![t] = contents]
      /\ wanted' = [wanted EXCEPT ![t] = meant]
      /\ file' = file /\ path' = path /\ disturbed' = disturbed
    BY DEF Undo
<1>2. /\ Matched(entries[t], intended[t], past[t], wanted[t])
      /\ t \notin disturbed => Right(file, entries[t], intended[t], past[t], wanted[t])
    BY TabFacts
<1>3. /\ Matched(held, contents, back, meant)
      /\ t \notin disturbed => Right(file, held, contents, back, meant)
    BY <1>1, <1>2, LastMatched
<1> HIDE DEF held, contents, back, meant
<1> QED
    BY <1>0, <1>1, <1>3, OneTabStep

----------------------------------------------------------------------------
(* Saving.                                                                 *)

\* Entries without a slice of a file read the same when it is replaced.
LEMMA ReadsKept ==
    ASSUME NEW f \in [Paths -> Partial(Contents)], NEW p \in Paths, NEW new,
           NEW g, g = [f EXCEPT ![p] = new],
           NEW held \in Partial(Sources), ~HoldsSlice(held, p), NEW contents,
           Reads(f, held, contents)
    PROVE  Reads(g, held, contents)
<1>1. \A q \in Paths : q # p => g[q] = f[q]
    OBVIOUS
<1>2. ASSUME NEW k \in DOMAIN held PROVE ReadIn(g, held[k]) = ReadIn(f, held[k])
    <2>1. held[k] \in Sources
        BY PartialDef
    <2>2. ASSUME held[k].kind # "file" PROVE g[held[k].path] = f[held[k].path]
        <3>1. held[k].kind = "slice" /\ held[k].path \in Paths
            BY <2>1, <2>2 DEF Sources
        <3>2. held[k].path # p
            BY <3>1 DEF HoldsSlice
        <3> QED
            BY <1>1, <3>1, <3>2
    <2> QED
        BY <2>2, ReadFrame
<1> QED
    BY <1>2 DEF Reads

\* A tab that needs no slice of a file is right when it is replaced.
LEMMA RightKept ==
    ASSUME NEW f \in [Paths -> Partial(Contents)], NEW p \in Paths, NEW new,
           NEW g, g = [f EXCEPT ![p] = new],
           NEW held, NEW contents, NEW back, NEW meant,
           Matched(held, contents, back, meant), Right(f, held, contents, back, meant),
           ~HoldsSlice(held, p), \A i \in DOMAIN back : ~HoldsSlice(back[i], p)
    PROVE  Right(g, held, contents, back, meant)
<1>1. /\ held \in Partial(Sources) /\ DOMAIN back = 1..Len(back)
      /\ \A i \in 1..Len(back) : back[i] \in Partial(Sources)
    BY DEF Matched, Paired
<1>2. Reads(g, held, contents)
    BY <1>1, ReadsKept DEF Right
<1>3. ASSUME NEW i \in 1..Len(back) PROVE Reads(g, back[i], meant[i])
    BY <1>1, ReadsKept DEF Right
<1> QED
    BY <1>2, <1>3 DEF Right

\* What a save writes: what can be read at each entry.
LEMMA WrittenIs ==
    ASSUME DataInv, NEW t \in Open
    PROVE  /\ Written(t) \in Partial(Contents)
           /\ DOMAIN Written(t) = DOMAIN entries[t]
           /\ t \notin disturbed => Written(t) = intended[t]
<1> DEFINE W == Written(t)
<1>0. W = [k \in DOMAIN entries[t] |-> ReadIn(file, entries[t][k])]
    BY DEF Written, Read, ReadIn
<1>1. /\ entries[t] \in Partial(Sources) /\ intended[t] \in Partial(Contents)
      /\ DOMAIN intended[t] = DOMAIN entries[t]
      /\ t \notin disturbed => Reads(file, entries[t], intended[t])
    BY TabFacts DEF Paired
<1>2. /\ DOMAIN entries[t] \in SUBSET Keys
      /\ \A k \in DOMAIN entries[t] : entries[t][k] \in Sources
      /\ intended[t] = [k \in DOMAIN entries[t] |-> intended[t][k]]
    BY <1>1, PartialDef
<1>3. \A k \in DOMAIN entries[t] : ReadIn(file, entries[t][k]) \in Contents
    BY <1>2, ReadType DEF DataInv, TabsMatch
<1> HIDE DEF W
<1>4. W \in [DOMAIN entries[t] -> Contents] /\ DOMAIN W = DOMAIN entries[t]
    BY <1>0, <1>3
<1>5. W \in Partial(Contents)
    BY <1>2, <1>4, PartialDef
<1>6. ASSUME t \notin disturbed PROVE W = intended[t]
    BY <1>0, <1>1, <1>2, <1>6 DEF Reads
<1> QED
    BY <1>4, <1>5, <1>6 DEF W

\* A save: the other tabs stay right, unless it disturbs them.
LEMMA OthersKept ==
    ASSUME DataInv, NEW t \in Open, NEW p \in Paths, NEW u \in Open,
           file' = [file EXCEPT ![p] = Written(t)],
           u \notin disturbed, ~Needs(u, p)
    PROVE  Right(file', entries[u], intended[u], past[u], wanted[u])
<1> DEFINE new == Written(t)
<1>1. /\ Matched(entries[u], intended[u], past[u], wanted[u])
      /\ Right(file, entries[u], intended[u], past[u], wanted[u])
    BY TabFacts
<1>2. ~HoldsSlice(entries[u], p) /\ \A i \in DOMAIN past[u] : ~HoldsSlice(past[u][i], p)
    BY DEF Needs
<1>3. file \in [Paths -> Partial(Contents)] /\ file' = [file EXCEPT ![p] = new]
    BY DEF DataInv, TabsMatch
<1> HIDE DEF new
<1> QED
    BY <1>1, <1>2, <1>3, RightKept

LEMMA FailedLateStep ==
    ASSUME DataInv, NEW t \in Open, NEW p \in Paths, FailedLate(t, p)
    PROVE  DataInv'
<1>0. /\ steps' \in 0..MaxSteps /\ path' = path /\ entries' = entries /\ past' = past
      /\ intended' = intended /\ wanted' = wanted
      /\ file' = [file EXCEPT ![p] = Written(t)]
      /\ disturbed' = disturbed \cup Holders(p)
    BY DataAssumption DEF FailedLate, Replace, tabs, Step, DataInv, TabsMatch
<1>1. Open' = Open /\ disturbed' \subseteq Open
    BY <1>0 DEF Open, Holders, DataInv, TabsMatch
<1>2. file' \in [Paths -> Partial(Contents)]
    BY <1>0, WrittenIs DEF DataInv, TabsMatch
<1>3. ASSUME NEW u \in Open, u \notin disturbed'
      PROVE  Right(file', entries[u], intended[u], past[u], wanted[u])
    <2>1. u \notin disturbed /\ ~Needs(u, p)
        BY <1>0, <1>3 DEF Holders
    <2> QED
        BY <1>0, <2>1, OthersKept
<1>4. TabsMatch'
    BY <1>0, <1>1, <1>2 DEF DataInv, TabsMatch
<1>5. TabsRight'
    BY <1>0, <1>1, <1>3 DEF TabsRight
<1> QED
    BY <1>4, <1>5 DEF DataInv

LEMMA SavedStep ==
    ASSUME DataInv, NEW t \in Open, NEW p \in Paths, Saved(t, p)
    PROVE  DataInv'
<1> DEFINE written == Written(t)
           held == Slices(p, written)
<1>0. /\ steps' \in 0..MaxSteps /\ intended' = intended
      /\ file' = [file EXCEPT ![p] = written]
      /\ path' = [path EXCEPT ![t] = p]
      /\ entries' = [entries EXCEPT ![t] = held]
      /\ past' = [past EXCEPT ![t] = <<>>]
      /\ wanted' = [wanted EXCEPT ![t] = <<>>]
      /\ disturbed' = disturbed \cup (Holders(p) \ {t})
    BY DataAssumption DEF Saved, Replace, Step, DataInv, TabsMatch
<1>1. /\ file \in [Paths -> Partial(Contents)]
      /\ path \in [Open -> Paths \cup {NoPath}]
      /\ DOMAIN entries = Open /\ DOMAIN intended = Open
      /\ DOMAIN past = Open /\ DOMAIN wanted = Open
    BY DEF DataInv, TabsMatch
<1>2. /\ written \in Partial(Contents) /\ DOMAIN written = DOMAIN entries[t]
      /\ t \notin disturbed => written = intended[t]
    BY WrittenIs
<1> HIDE DEF written
<1>3. /\ file' \in [Paths -> Partial(Contents)] /\ file'[p] = written
      /\ path' \in [Open -> Paths \cup {NoPath}]
      /\ DOMAIN entries' = Open /\ DOMAIN past' = Open /\ DOMAIN wanted' = Open
      /\ DOMAIN intended' = Open
    BY <1>0, <1>1, <1>2
<1>4. /\ entries'[t] = held /\ past'[t] = <<>> /\ wanted'[t] = <<>>
      /\ intended'[t] = intended[t]
      /\ \A u \in Open \ {t} :
            /\ entries'[u] = entries[u] /\ past'[u] = past[u] /\ wanted'[u] = wanted[u]
            /\ intended'[u] = intended[u]
    BY <1>0, <1>1
<1>5. Open' = Open /\ disturbed' \subseteq Open
    BY <1>0, <1>3 DEF Open, Holders, DataInv, TabsMatch
<1>6. Paired(held, written) /\ Reads(file', held, written)
    BY <1>2, <1>3, SlicesRead
<1>7. /\ DOMAIN intended[t] = DOMAIN entries[t]
      /\ intended[t] \in Partial(Contents)
    BY TabFacts DEF Paired
<1>8. Matched(held, intended[t], <<>>, <<>>)
    <2>1. Paired(held, intended[t])
        BY <1>2, <1>6, <1>7 DEF Paired
    <2>2. /\ <<>> \in Seq(Partial(Sources)) /\ <<>> \in Seq(Partial(Contents))
          /\ Len(<<>>) = 0 /\ 1..0 = {}
        OBVIOUS
    <2> QED
        BY <2>1, <2>2 DEF Matched
<1>9. t \notin disturbed => Right(file', held, intended[t], <<>>, <<>>)
    <2>1. Len(<<>>) = 0 /\ 1..0 = {}
        OBVIOUS
    <2> QED
        BY <2>1, <1>2, <1>6 DEF Right
<1> HIDE DEF held
<1>10. \A u \in Open : Matched(entries'[u], intended'[u], past'[u], wanted'[u])
    BY <1>4, <1>8 DEF DataInv, TabsMatch
<1>11. ASSUME NEW u \in Open, u \notin disturbed'
       PROVE  Right(file', entries'[u], intended'[u], past'[u], wanted'[u])
    <2>1. CASE u = t
        BY <2>1, <1>0, <1>4, <1>9, <1>11
    <2>2. CASE u # t
        <3>1. u \notin disturbed /\ ~Needs(u, p)
            BY <2>2, <1>0, <1>11 DEF Holders
        <3>2. Right(file', entries[u], intended[u], past[u], wanted[u])
            BY <3>1, <1>0, OthersKept DEF written
        <3> QED
            BY <2>2, <1>4, <3>2
    <2> QED
        BY <2>1, <2>2
<1>12. TabsMatch'
    BY <1>0, <1>3, <1>5, <1>10 DEF DataInv, TabsMatch
<1>13. TabsRight'
    BY <1>5, <1>11 DEF TabsRight
<1> QED
    BY <1>12, <1>13 DEF DataInv

\* One step of any action keeps the inductive invariant.
LEMMA DataInvStep == DataInv /\ [DataNext]_dataVars => DataInv'
<1> SUFFICES ASSUME DataInv, [DataNext]_dataVars PROVE DataInv'
    OBVIOUS
<1>1. ASSUME NEW t \in Tabs, NewArchive(t) \/ \E p \in Paths : OpenPath(t, p)
      PROVE  DataInv'
    BY <1>1, OpenStep
<1>2. ASSUME NEW t \in Open, NEW p \in Paths, SaveTo(t, p) PROVE DataInv'
    BY <1>2, SavedStep, FailedLateStep DEF SaveTo
<1>3. ASSUME NEW t \in Open, Save(t) PROVE DataInv'
    <2>1. path[t] \in Paths
        BY <1>3 DEF Save, DataInv, TabsMatch
    <2>2. PICK p \in Paths : p = path[t]
        BY <2>1
    <2>3. SaveTo(t, p)
        BY <1>3, <2>2 DEF Save, SaveTo, Saved, FailedLate, Replace
    <2> QED
        BY <1>2, <2>3
<1>4. ASSUME NEW t \in Open, NEW p \in Paths, SaveAs(t, p) PROVE DataInv'
    BY <1>2, <1>4 DEF SaveAs
<1>5. CASE UNCHANGED dataVars
    BY <1>5 DEF dataVars, tabs, DataInv, TabsMatch, TabsRight, Open
<1> QED
    BY <1>1, <1>3, <1>4, <1>5, CloseTabStep, ChangeStep, UndoStep DEF DataNext

LEMMA DataInvInit == DataInit => DataInv
<1> SUFFICES ASSUME DataInit PROVE DataInv
    OBVIOUS
<1>1. Open = {} /\ DOMAIN entries = {} /\ DOMAIN past = {} /\ DOMAIN intended = {}
      /\ DOMAIN wanted = {}
    BY DEF DataInit, Open
<1>2. path \in [Open -> Paths \cup {NoPath}]
    BY <1>1 DEF DataInit
<1>3. ASSUME NEW p \in Paths PROVE [k \in Keys |-> <<p, k>>] \in Partial(Contents)
    <2>1. [k \in Keys |-> <<p, k>>] \in [Keys -> Contents]
        BY DEF Contents
    <2> QED
        BY <2>1, PartialDef
<1>4. file \in [Paths -> Partial(Contents)]
    BY <1>3 DEF DataInit
<1> QED
    BY <1>1, <1>2, <1>4, DataAssumption DEF DataInit, DataInv, TabsMatch, TabsRight

\* It says that the variables have their types.
LEMMA DataInvType == DataInv => DataTypeOK
<1> SUFFICES ASSUME DataInv PROVE DataTypeOK
    OBVIOUS
<1>1. ASSUME NEW t \in Open
      PROVE  /\ \A k \in DOMAIN entries[t] : k \in Keys /\ entries[t][k] \in Sources
             /\ DOMAIN intended[t] = DOMAIN entries[t]
             /\ Len(wanted[t]) = Len(past[t])
    BY TabFacts, PartialDef DEF Matched, Paired
<1> QED
    BY <1>1 DEF DataInv, TabsMatch, DataTypeOK

\* Every variable has its type, whatever is opened, edited, undone and saved:
\* what write_to copies is always the contents of something.
THEOREM ArchiveTypeCorrect == DataSpec => []DataTypeOK
BY DataInvInit, DataInvStep, DataInvType, PTL DEF DataSpec

\* Each entry of a tab reads the data the user put there (copy_to), through
\* adding, deleting, merging, undo and the tab's own saves, which give every
\* slice another place, as long as no other tab replaced a file the tab could
\* still read, at once or after undo, and no save of the tab failed late.
THEOREM DataReadBack == DataSpec => []EntriesReadBack
<1>1. DataInv => EntriesReadBack
    <2> SUFFICES ASSUME DataInv, NEW t \in Open \ disturbed, NEW k \in DOMAIN entries[t]
                 PROVE  Read(entries[t][k]) = intended[t][k]
        BY DEF EntriesReadBack, ReadsBack
    <2>1. ReadIn(file, entries[t][k]) = intended[t][k]
        BY TabFacts DEF Reads
    <2> QED
        BY <2>1 DEF Read, ReadIn
<1> QED
    BY <1>1, DataInvInit, DataInvStep, PTL DEF DataSpec
----------------------------------------------------------------------------
(* The export.                                                             *)

\* The inductive invariant: the properties and what they rest on.
IInv == /\ TypeOK /\ OneWriter /\ OkIsComplete /\ ErrorIsReal
        /\ Accounted /\ FailureSurvives /\ StopsForReason

\* It holds initially.
LEMMA InvInit == Init => IInv
<1> SUFFICES ASSUME Init PROVE IInv
    OBVIOUS
<1>1. count \in Nat /\ spawned \in SUBSET Workers
    BY ExportAssumption DEF Init
<1>2. TypeOK
    BY <1>1 DEF Init, TypeOK, Labels, Resources
<1>3. \A w \in Workers : ~Holding(w) /\ pc[w] \notin {"flag", "report"}
    BY DEF Init, Holding
<1>4. Accounted /\ OneWriter
    BY <1>1, <1>3 DEF Init, Accounted, OneWriter, Resources
<1> QED
    BY <1>1, <1>2, <1>3, <1>4
    DEF Init, IInv, OkIsComplete, ErrorIsReal, FailureSurvives, StopsForReason

\* CallerCreates keeps it.
LEMMA CallerCreatesStep ==
    ASSUME IInv, CallerCreates
    PROVE  IInv'
<1>1. TypeOK'
    BY DEF IInv, CallerCreates, CreateFile, TypeOK, Resources
<1>2. OneWriter'
    BY DEF IInv, CallerCreates, CreateFile, OneWriter, StopsForReason, Holding,
           Resources
<1>3. OkIsComplete'
    BY DEF CallerCreates, CallerWrites, OkIsComplete
<1>4. ErrorIsReal'
    BY DEF CallerCreates, CallerWrites, ErrorIsReal
<1>5. Accounted'
    BY DEF IInv, CallerCreates, CreateFile, Accounted, Holding, Resources
<1>6. FailureSurvives'
    BY DEF IInv, CallerCreates, FailureSurvives
<1>7. StopsForReason'
    BY DEF IInv, CallerCreates, CallerWrites, CreateFile, StopsForReason, Resources
<1> QED
    BY <1>1, <1>2, <1>3, <1>4, <1>5, <1>6, <1>7 DEF IInv

\* CallerFinishes keeps it.
LEMMA CallerFinishesStep ==
    ASSUME IInv, CallerFinishes
    PROVE  IInv'
<1>1. TypeOK'
    BY DEF IInv, CallerFinishes, CallerWrites, FinishFile, TypeOK, Resources
<1>2. OneWriter'
    BY DEF IInv, CallerFinishes, FinishFile, OneWriter, StopsForReason, Holding,
           Resources
<1>3. OkIsComplete'
    BY DEF CallerFinishes, CallerWrites, OkIsComplete
<1>4. ErrorIsReal'
    BY DEF CallerFinishes, CallerWrites, ErrorIsReal
<1>5. Accounted'
    BY DEF IInv, CallerFinishes, FinishFile, TypeOK, Accounted, Holding, Resources
<1>6. FailureSurvives'
    BY DEF IInv, CallerFinishes, FailureSurvives
<1>7. StopsForReason'
    BY DEF IInv, CallerFinishes, CallerWrites, FinishFile, TypeOK,
           FailureSurvives, StopsForReason, Resources
<1> QED
    BY <1>1, <1>2, <1>3, <1>4, <1>5, <1>6, <1>7 DEF IInv

\* CallerFails keeps it.
LEMMA CallerFailsStep ==
    ASSUME IInv, CallerFails
    PROVE  IInv'
<1>1. TypeOK'
    BY DEF IInv, CallerFails, CallerWrites, ExportFails, TypeOK, Resources
<1>2. OneWriter'
    BY DEF IInv, CallerFails, ExportFails, OneWriter, StopsForReason, Holding,
           Resources
<1>3. OkIsComplete'
    BY DEF CallerFails, CallerWrites, OkIsComplete
<1>4. ErrorIsReal'
    BY DEF CallerFails, CallerWrites, ErrorIsReal
<1>5. Accounted'
    BY DEF IInv, CallerFails, ExportFails, Accounted, Holding, Resources
<1>6. FailureSurvives'
    BY ExportAssumption DEF IInv, CallerFails, ExportFails, TypeOK, FailureSurvives
<1>7. StopsForReason'
    BY DEF IInv, CallerFails, CallerWrites, ExportFails, TypeOK, StopsForReason,
           Resources
<1> QED
    BY <1>1, <1>2, <1>3, <1>4, <1>5, <1>6, <1>7 DEF IInv

\* Return keeps it.
LEMMA ReturnStep ==
    ASSUME IInv, Return
    PROVE  IInv'
<1>1. TypeOK'
    BY DEF IInv, Return, TypeOK, Resources
<1>2. OneWriter'
    BY DEF IInv, Return, OneWriter, Holding, Resources
<1>3. OkIsComplete'
    BY DEF IInv, Return, TypeOK, OkIsComplete, Accounted, FailureSurvives,
           StopsForReason, Holding, Resources
<1>4. ErrorIsReal'
    BY DEF IInv, Return, ErrorIsReal, FailureSurvives
<1>5. Accounted'
    BY DEF IInv, Return, Accounted, Holding, Resources
<1>6. FailureSurvives'
    BY DEF IInv, Return, FailureSurvives
<1>7. StopsForReason'
    BY DEF IInv, Return, StopsForReason, Holding, Resources
<1> QED
    BY <1>1, <1>2, <1>3, <1>4, <1>5, <1>6, <1>7 DEF IInv

\* Check keeps it.
LEMMA CheckStep ==
    ASSUME IInv, NEW w \in Workers, Check(w)
    PROVE  IInv'
<1>1. TypeOK'
    BY DEF IInv, Check, Goto, TypeOK, OkIsComplete, ErrorIsReal, Resources, Labels
<1>2. OneWriter'
    BY DEF IInv, Check, Goto, TypeOK, OneWriter, Holding, Resources
<1>3. OkIsComplete'
    BY DEF IInv, Check, OkIsComplete, Resources
<1>4. ErrorIsReal'
    BY DEF IInv, Check, ErrorIsReal
<1>5. Accounted'
    BY DEF IInv, Check, Goto, TypeOK, Accounted, Holding, Resources
<1>6. FailureSurvives'
    BY DEF IInv, Check, Goto, TypeOK, FailureSurvives
<1>7. StopsForReason'
    BY DEF IInv, Check, Goto, TypeOK, StopsForReason, Holding, Resources
<1> QED
    BY <1>1, <1>2, <1>3, <1>4, <1>5, <1>6, <1>7 DEF IInv

\* Claim keeps it.
LEMMA ClaimStep ==
    ASSUME IInv, NEW w \in Workers, Claim(w)
    PROVE  IInv'
<1>1. TypeOK'
    BY ExportAssumption DEF IInv, Claim, Goto, TypeOK, OkIsComplete,
           ErrorIsReal, Accounted, FailureSurvives, StopsForReason, Holding,
           Resources, Labels
<1>2. OneWriter'
    BY DEF IInv, Claim, Goto, TypeOK, OneWriter, StopsForReason, Holding, Resources
<1>3. OkIsComplete'
    BY DEF IInv, Claim, OkIsComplete, Resources
<1>4. ErrorIsReal'
    BY DEF IInv, Claim, ErrorIsReal
<1>5. Accounted'
    BY DEF IInv, Claim, Goto, TypeOK, OneWriter, Accounted, FailureSurvives,
           StopsForReason, Holding, Resources
<1>6. FailureSurvives'
    BY DEF IInv, Claim, Goto, TypeOK, FailureSurvives
<1>7. StopsForReason'
    BY DEF IInv, Claim, Goto, TypeOK, StopsForReason, Holding, Resources
<1> QED
    BY <1>1, <1>2, <1>3, <1>4, <1>5, <1>6, <1>7 DEF IInv

\* Create keeps it.
LEMMA CreateStep ==
    ASSUME IInv, NEW w \in Workers, Create(w)
    PROVE  IInv'
<1>1. TypeOK'
    BY DEF IInv, Create, Goto, CreateFile, TypeOK, Resources, Labels
<1>2. OneWriter'
    BY DEF IInv, Create, Goto, CreateFile, TypeOK, OneWriter, Holding, Resources
<1>3. OkIsComplete'
    BY DEF IInv, Create, OkIsComplete, StopsForReason
<1>4. ErrorIsReal'
    BY DEF IInv, Create, ErrorIsReal
<1>5. Accounted'
    BY DEF IInv, Create, Goto, CreateFile, Accounted, StopsForReason, Holding,
           Resources
<1>6. FailureSurvives'
    BY DEF IInv, Create, Goto, FailureSurvives
<1>7. StopsForReason'
    BY DEF IInv, Create, Goto, CreateFile, TypeOK, StopsForReason, Holding,
           Resources
<1> QED
    BY <1>1, <1>2, <1>3, <1>4, <1>5, <1>6, <1>7 DEF IInv

\* Write keeps it.
LEMMA WriteStep ==
    ASSUME IInv, NEW w \in Workers, Write(w)
    PROVE  IInv'
<1>1. TypeOK'
    BY DEF IInv, Write, Goto, FinishFile, TypeOK, Resources, Labels
<1>2. OneWriter'
    BY DEF IInv, Write, Goto, FinishFile, TypeOK, OneWriter, Holding, Resources
<1>3. OkIsComplete'
    BY DEF IInv, Write, OkIsComplete, StopsForReason
<1>4. ErrorIsReal'
    BY DEF IInv, Write, ErrorIsReal
<1>5. Accounted'
    BY DEF IInv, Write, Goto, FinishFile, TypeOK, Accounted, Holding, Resources
<1>6. FailureSurvives'
    BY DEF IInv, Write, Goto, FailureSurvives
<1>7. StopsForReason'
    BY DEF IInv, Write, Goto, FinishFile, OneWriter, StopsForReason, Holding,
           Resources
<1> QED
    BY <1>1, <1>2, <1>3, <1>4, <1>5, <1>6, <1>7 DEF IInv

\* Fail keeps it.
LEMMA FailStep ==
    ASSUME IInv, NEW w \in Workers, Fail(w)
    PROVE  IInv'
<1>a. index[w] \in Resources
    BY DEF IInv, OneWriter, Holding, Fail
<1>b. pc' \in [Workers -> Labels] /\ bad' \in SUBSET Resources
    BY <1>a DEF IInv, TypeOK, Fail, Goto, ExportFails, Labels
<1>1. TypeOK'
    BY <1>b DEF IInv, TypeOK, Fail, Resources
<1>2. OneWriter'
    BY DEF IInv, Fail, Goto, ExportFails, TypeOK, OneWriter, Holding, Resources
<1>3. OkIsComplete'
    BY DEF IInv, Fail, OkIsComplete, Resources
<1>4. ErrorIsReal'
    BY DEF IInv, Fail, ErrorIsReal, StopsForReason
<1>5. Accounted'
    BY DEF IInv, Fail, Goto, ExportFails, Accounted, Holding, Resources
<1>6. FailureSurvives'
    BY DEF IInv, Fail, Goto, ExportFails, TypeOK, FailureSurvives, StopsForReason
<1>7. StopsForReason'
    BY DEF IInv, Fail, Goto, ExportFails, OneWriter, StopsForReason, Holding,
           Resources
<1> QED
    BY <1>1, <1>2, <1>3, <1>4, <1>5, <1>6, <1>7 DEF IInv

\* Flag keeps it.
LEMMA FlagStep ==
    ASSUME IInv, NEW w \in Workers, Flag(w)
    PROVE  IInv'
<1>1. TypeOK'
    BY DEF IInv, Flag, Goto, TypeOK, Resources, Labels
<1>2. OneWriter'
    BY DEF IInv, Flag, Goto, OneWriter, Holding, Resources
<1>3. OkIsComplete'
    BY DEF IInv, Flag, OkIsComplete, Resources
<1>4. ErrorIsReal'
    BY DEF IInv, Flag, ErrorIsReal
<1>5. Accounted'
    BY DEF IInv, Flag, Goto, Accounted, Holding, Resources
<1>6. FailureSurvives'
    BY DEF IInv, Flag, Goto, FailureSurvives, StopsForReason
<1>7. StopsForReason'
    BY DEF IInv, Flag, Goto, StopsForReason, Holding, Resources
<1> QED
    BY <1>1, <1>2, <1>3, <1>4, <1>5, <1>6, <1>7 DEF IInv

\* Report keeps it.
LEMMA ReportStep ==
    ASSUME IInv, NEW w \in Workers, Report(w)
    PROVE  IInv'
<1>1. TypeOK'
    BY DEF IInv, Report, Goto, TypeOK, StopsForReason, Resources, Labels
<1>2. OneWriter'
    BY DEF IInv, Report, Goto, OneWriter, Holding, Resources
<1>3. OkIsComplete'
    BY DEF IInv, Report, OkIsComplete, Resources
<1>4. ErrorIsReal'
    BY DEF IInv, Report, ErrorIsReal, StopsForReason
<1>5. Accounted'
    BY DEF IInv, Report, Goto, Accounted, Holding, Resources
<1>6. FailureSurvives'
    BY ExportAssumption DEF IInv, Report, TypeOK, FailureSurvives, StopsForReason
<1>7. StopsForReason'
    BY DEF IInv, Report, Goto, StopsForReason, Holding, Resources
<1> QED
    BY <1>1, <1>2, <1>3, <1>4, <1>5, <1>6, <1>7 DEF IInv

\* Every step keeps it.
LEMMA InvStep == IInv /\ [Next]_vars => IInv'
<1> SUFFICES ASSUME IInv, [Next]_vars PROVE IInv'
    OBVIOUS
<1>1. CASE CallerCreates
    BY <1>1, CallerCreatesStep
<1>2. CASE CallerFinishes
    BY <1>2, CallerFinishesStep
<1>3. CASE CallerFails
    BY <1>3, CallerFailsStep
<1>4. CASE Return
    BY <1>4, ReturnStep
<1>5. ASSUME NEW w \in Workers, Work(w) PROVE IInv'
    <2>1. CASE Check(w)
        BY <2>1, CheckStep
    <2>2. CASE Claim(w)
        BY <2>2, ClaimStep
    <2>3. CASE Create(w)
        BY <2>3, CreateStep
    <2>4. CASE Write(w)
        BY <2>4, WriteStep
    <2>5. CASE Fail(w)
        BY <2>5, FailStep
    <2>6. CASE Flag(w)
        BY <2>6, FlagStep
    <2>7. CASE Report(w)
        BY <2>7, ReportStep
    <2> QED
        BY <1>5, <2>1, <2>2, <2>3, <2>4, <2>5, <2>6, <2>7 DEF Work
<1>6. CASE UNCHANGED vars
    BY <1>6 DEF vars, IInv, TypeOK, OneWriter, OkIsComplete, ErrorIsReal,
                Accounted, FailureSurvives, StopsForReason, Holding, Resources
<1> QED
    BY <1>1, <1>2, <1>3, <1>4, <1>5, <1>6 DEF Next

\* The invariant holds in every state of every export.
LEMMA Invariance == Spec => []IInv
BY InvInit, InvStep, PTL DEF Spec

----------------------------------------------------------------------------
\* The state has its types, whatever the number of threads and resources.
THEOREM ExportTypeCorrect == Spec => []TypeOK
<1>1. IInv => TypeOK
    BY DEF IInv
<1> QED
    BY <1>1, Invariance, PTL

\* No resource is ever written by two threads, though they share only a
\* counter.
THEOREM ExclusiveWriting == Spec => []OneWriter
<1>1. IInv => OneWriter
    BY DEF IInv
<1> QED
    BY <1>1, Invariance, PTL

\* Success means that every file is complete ...
THEOREM SuccessIsComplete == Spec => []OkIsComplete
<1>1. IInv => OkIsComplete
    BY DEF IInv
<1> QED
    BY <1>1, Invariance, PTL

\* ... and no failure is lost, and the error told is that of a resource
\* that failed.
THEOREM NoErrorIsLost == Spec => []ErrorIsReal
<1>1. IInv => ErrorIsReal
    BY DEF IInv
<1> QED
    BY <1>1, Invariance, PTL

\* Every step of the export is a step of the batch it promises, or none.
LEMMA StepRefines == IInv /\ [Next]_vars => [Batch!Next]_Batch!vars
<1> SUFFICES ASSUME IInv, [Next]_vars PROVE [Batch!Next]_Batch!vars
    OBVIOUS
<1> DEFINE W == {i \in Resources : files[i] = "whole"}
<1> DEFINE E == IF outcome = "error" THEN firstError ELSE None
<1>1. ASSUME NEW i \in Resources, i \notin bad, files[i] # "whole", FinishFile(i),
             outcome = "running", UNCHANGED <<count, bad, outcome>>
      PROVE  Batch!Write
    <2>1. i \in Batch!Untouched /\ W' = W \cup {i} /\ UNCHANGED E
        BY <1>1 DEF IInv, TypeOK, FinishFile, Resources, Batch!Untouched,
               Batch!Resources
    <2> QED
        BY <1>1, <2>1 DEF Batch!Write
<1>2. ASSUME NEW i \in Resources, i \notin bad, files[i] # "whole", ExportFails(i),
             outcome = "running", UNCHANGED <<count, files, outcome>>
      PROVE  Batch!Fail
    <2>1. i \in Batch!Untouched /\ UNCHANGED <<W, E>>
        BY <1>2 DEF Resources, Batch!Untouched, Batch!Resources
    <2> QED
        BY <1>2, <2>1 DEF Batch!Fail, ExportFails
<1>3. ASSUME NEW i \in Resources, files[i] # "whole", CreateFile(i),
             UNCHANGED <<count, bad, outcome, firstError>>
      PROVE  UNCHANGED Batch!vars
    <2>1. UNCHANGED <<W, E>>
        BY <1>3 DEF IInv, TypeOK, CreateFile, Resources
    <2> QED
        BY <1>3, <2>1 DEF Batch!vars
<1>4. CASE CallerCreates
    BY <1>3, <1>4 DEF CallerCreates, CallerWrites, IInv, TypeOK, Resources
<1>5. CASE CallerFinishes \/ CallerFails
    <2>1. next \in Resources /\ next \notin bad /\ files[next] # "whole"
        BY <1>5 DEF CallerFinishes, CallerFails, CallerWrites, IInv, TypeOK,
                    FailureSurvives, StopsForReason, Resources
    <2> QED
        BY <1>1, <1>2, <1>5, <2>1 DEF CallerFinishes, CallerFails, CallerWrites,
               Batch!Next
<1>6. CASE Return
    <2>1. CASE firstError = None
        <3>1. outcome' = "ok" /\ OkIsComplete'
            BY <1>6, <2>1, ReturnStep DEF Return, IInv
        <3>2. UNCHANGED W /\ W = Resources
            BY <1>6, <3>1 DEF Return, OkIsComplete, Resources
        <3> QED
            BY <1>6, <3>1, <3>2 DEF Return, Batch!Next, Batch!Return,
                   Batch!Resources, Resources
    <2>2. CASE firstError # None
        BY <1>6, <2>2 DEF Return, IInv, FailureSurvives, Resources, Batch!Next,
               Batch!Return
    <2> QED
        BY <2>1, <2>2
<1>7. ASSUME NEW w \in Workers, Work(w) PROVE [Batch!Next]_Batch!vars
    <2>1. w \in spawned /\ outcome = "running"
        BY <1>7 DEF Work, Check, Claim, Create, Write, Fail, Flag, Report,
                    IInv, StopsForReason
    <2>2. CASE Create(w) \/ Write(w) \/ Fail(w)
        <3>1. index[w] \in Resources /\ index[w] \notin bad /\ files[index[w]] # "whole"
            BY <2>2 DEF Create, Write, Fail, IInv, OneWriter, Holding
        <3> QED
            BY <1>1, <1>2, <1>3, <2>1, <2>2, <3>1 DEF Create, Write, Fail,
                   Batch!Next
    <2>3. CASE Check(w) \/ Claim(w) \/ Flag(w) \/ Report(w)
        BY <2>1, <2>3 DEF Check, Claim, Flag, Report, Resources, Batch!vars
    <2> QED
        BY <1>7, <2>2, <2>3 DEF Work
<1>8. CASE UNCHANGED vars
    BY <1>8 DEF vars, Resources, Batch!vars
<1> QED
    BY <1>1, <1>4, <1>5, <1>6, <1>7, <1>8 DEF Next, Batch!Next

\* export_entries_parallel keeps its promise: it writes resources one by one
\* and ends with all of them or with the error of one it did not write.
THEOREM ExportIsBatch == Spec => KeepsPromise
<1>1. Init => Batch!Init
    BY ExportAssumption DEF Init, Batch!Init, Resources
<1>2. IInv /\ [Next]_vars => [Batch!Next]_Batch!vars
    BY StepRefines
<1> QED
    BY <1>1, <1>2, Invariance, PTL DEF Spec, KeepsPromise, Batch!Spec
=============================================================================
