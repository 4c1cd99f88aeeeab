----------------------------- MODULE ViewsProofs ----------------------------
(***************************************************************************)
(* Proofs about Views: whatever is imported, merged, deleted, undone,      *)
(* saved, opened and closed, the cached rows that are used are current,    *)
(* the selection is the user's, and a cached preview is not out of date.   *)
(***************************************************************************)
EXTENDS Views, SequenceTheorems, FiniteSetTheorems, WellFoundedInduction, TLAPS

----------------------------------------------------------------------------
(* Numbers.                                                                *)

Less == {pair \in Nat \X Nat : pair[1] < pair[2]}

\* < is well founded.
LEMMA LessIsWellFounded == IsWellFoundedOn(Less, Nat)
BY NatLessThanWellFounded DEF OpToRel, Less

\* A set of numbers that is not empty has a least one.
LEMMA MinIs ==
    ASSUME NEW S, S \subseteq Nat, S # {}
    PROVE  Min(S) \in S /\ \A j \in S : Min(S) <= j
<1>1. PICK i \in S : \A j \in S : <<j, i>> \notin Less
    BY LessIsWellFounded, WFMin
<1>2. \A j \in S : i <= j
    <2> SUFFICES ASSUME NEW j \in S, j < i PROVE FALSE
        BY <1>1
    <2>1. <<j, i>> \in Nat \X Nat /\ <<j, i>>[1] < <<j, i>>[2]
        OBVIOUS
    <2> QED
        BY <1>1, <2>1 DEF Less
<1> QED
    BY <1>1, <1>2 DEF Min

\* A bounded one has a greatest one too.
LEMMA MaxIs ==
    ASSUME NEW m \in Nat, NEW S, S \subseteq 0..m, S # {}
    PROVE  Max(S) \in S /\ \A j \in S : j <= Max(S)
<1> DEFINE T == {m - j : j \in S}
<1>1. T \subseteq Nat /\ T # {}
    <2>1. PICK i \in S : TRUE
        OBVIOUS
    <2>2. m - i \in T
        BY <2>1
    <2>3. \A j \in S : m - j \in Nat
        OBVIOUS
    <2> QED
        BY <2>2, <2>3
<1> HIDE DEF T
<1>2. Min(T) \in T /\ \A k \in T : Min(T) <= k
    BY <1>1, MinIs
<1>3. PICK i \in S : Min(T) = m - i
    BY <1>2 DEF T
<1>4. \A j \in S : m - i <= m - j
    BY <1>2, <1>3 DEF T
<1>5. \A j \in S : j <= i
    BY <1>4
<1> QED
    BY <1>5 DEF Max

\* Induction: a set with 0 and the successor of each of its members.
LEMMA Induct ==
    ASSUME NEW S, 0 \in S, \A n \in Nat : n \in S => n + 1 \in S
    PROVE  Nat \subseteq S
<1> SUFFICES ASSUME Nat \ S # {} PROVE FALSE
    OBVIOUS
<1> DEFINE n == Min(Nat \ S)
<1>1. n \in Nat \ S /\ \A j \in Nat \ S : n <= j
    BY MinIs
<1> HIDE DEF n
<1>2. n # 0
    BY <1>1
<1>3. n - 1 \in Nat /\ (n - 1) + 1 = n /\ ~(n <= n - 1)
    BY <1>1, <1>2
<1> QED
    BY <1>1, <1>3

\* The least and the greatest selected index.
LEMMA LowestIs ==
    ASSUME NEW m \in Nat, NEW S, S \subseteq 1..m
    PROVE  /\ Lowest(S) \in 0..m /\ Highest(S) \in 0..m
           /\ Lowest(S) # 0 => Lowest(S) \in S
<1>1. CASE S = {}
    BY <1>1 DEF Lowest, Highest
<1>2. CASE S # {}
    <2>1. S \subseteq Nat /\ S \subseteq 0..m
        OBVIOUS
    <2>2. Min(S) \in S /\ Max(S) \in S
        BY <1>2, <2>1, MinIs, MaxIs
    <2>3. Lowest(S) = Min(S) /\ Highest(S) = Max(S)
        BY <1>2, Zenon DEF Lowest, Highest
    <2>4. Min(S) \in 0..m /\ Max(S) \in 0..m
        BY <2>1, <2>2
    <2> QED
        BY <2>2, <2>3, <2>4
<1> QED
    BY <1>1, <1>2

----------------------------------------------------------------------------
(* Ranks.                                                                  *)

Linear(S, order) ==
    /\ \A i \in S : <<i, i>> \notin order
    /\ \A i, j, k \in S : <<i, j>> \in order /\ <<j, k>> \in order => <<i, k>> \in order
    /\ \A i, j \in S : i # j => <<i, j>> \in order \/ <<j, i>> \in order

Preceding(S, order, i) == {j \in S : <<j, i>> \in order}

\* Who comes before i comes before whoever i comes before, and i does too.
LEMMA PrecedingIs ==
    ASSUME NEW S, IsFiniteSet(S), NEW order, Linear(S, order), NEW i \in S
    PROVE  /\ IsFiniteSet(Preceding(S, order, i))
           /\ Cardinality(Preceding(S, order, i)) \in Nat
           /\ Cardinality(Preceding(S, order, i)) + 1 \in 1..Cardinality(S)
           /\ \A j \in S : <<i, j>> \in order =>
                 Cardinality(Preceding(S, order, i)) # Cardinality(Preceding(S, order, j))
<1> DEFINE P(j) == Preceding(S, order, j)
<1>1. \A j \in S : P(j) \in SUBSET S
    BY DEF Preceding
<1>2. \A j \in S : IsFiniteSet(P(j)) /\ Cardinality(P(j)) <= Cardinality(S)
                   /\ (Cardinality(S) = Cardinality(P(j)) => S = P(j))
    BY <1>1, FS_Subset
<1>3. Cardinality(S) \in Nat /\ \A j \in S : Cardinality(P(j)) \in Nat
    BY <1>2, FS_CardinalityType
<1>4. i \notin P(i)
    BY DEF Linear, Preceding
<1>5. Cardinality(P(i)) # Cardinality(S)
    BY <1>2, <1>4
<1>6. ASSUME NEW j \in S, <<i, j>> \in order
      PROVE  Cardinality(P(i)) # Cardinality(P(j))
    <2>1. P(i) \in SUBSET P(j) /\ i \in P(j)
        BY <1>6 DEF Linear, Preceding
    <2>2. Cardinality(P(j)) = Cardinality(P(i)) => P(j) = P(i)
        BY <1>2, <2>1, FS_Subset
    <2> QED
        BY <1>4, <2>1, <2>2
<1> HIDE DEF P
<1>7. Cardinality(P(i)) + 1 \in 1..Cardinality(S)
    BY <1>2, <1>3, <1>5
<1> QED
    BY <1>2, <1>3, <1>6, <1>7 DEF P

\* Ranked lists every number of a set once.
LEMMA RankedIs ==
    ASSUME NEW S, IsFiniteSet(S), NEW order, Linear(S, order)
    PROVE  /\ Cardinality(S) \in Nat
           /\ Ranked(S, order) \in [1..Cardinality(S) -> S]
           /\ \A m, n \in 1..Cardinality(S) :
                 Ranked(S, order)[m] = Ranked(S, order)[n] => m = n
           /\ \A i \in S : \E n \in 1..Cardinality(S) : Ranked(S, order)[n] = i
<1> DEFINE rank(i) == Cardinality(Preceding(S, order, i)) + 1
           f == [i \in S |-> rank(i)]
           T == 1..Cardinality(S)
           at(n) == CHOOSE i \in S : Cardinality({j \in S : <<j, i>> \in order}) = n - 1
<1>1. Cardinality(S) \in Nat
    BY FS_CardinalityType
<1>2. IsFiniteSet(T) /\ Cardinality(T) = Cardinality(S)
    <2>1. 1 \in Int /\ Cardinality(S) \in Int
        BY <1>1
    <2>2. IsFiniteSet(T) /\ Cardinality(T) =
              IF 1 > Cardinality(S) THEN 0 ELSE Cardinality(S) - 1 + 1
        BY <2>1, FS_Interval
    <2> QED
        BY <1>1, <2>2
<1>3. \A i \in S : rank(i) \in T
    BY PrecedingIs
<1>4. \A i, j \in S : rank(i) = rank(j) => i = j
    <2> SUFFICES ASSUME NEW i \in S, NEW j \in S, i # j PROVE rank(i) # rank(j)
        OBVIOUS
    <2>1. <<i, j>> \in order \/ <<j, i>> \in order
        BY DEF Linear
    <2>2. /\ Cardinality(Preceding(S, order, i)) \in Nat
          /\ Cardinality(Preceding(S, order, j)) \in Nat
          /\ Cardinality(Preceding(S, order, i)) # Cardinality(Preceding(S, order, j))
        BY <2>1, PrecedingIs
    <2> QED
        BY <2>2
<1> HIDE DEF rank, T
<1>5. f \in Injection(S, T)
    BY <1>3, <1>4 DEF Injection, IsInjective
<1>6. f \in Surjection(S, T)
    BY <1>2, <1>5, FS_Injection
<1>7. \A n \in T : \E i \in S : rank(i) = n
    BY <1>6 DEF Surjection
<1>8. ASSUME NEW n \in T
      PROVE  /\ at(n) \in S
             /\ Cardinality({j \in S : <<j, at(n)>> \in order}) = n - 1
    <2>1. PICK i \in S : rank(i) = n
        BY <1>7
    <2>2. Cardinality(Preceding(S, order, i)) \in Nat
        BY PrecedingIs
    <2>3. Cardinality({j \in S : <<j, i>> \in order}) = n - 1
        BY <2>1, <2>2 DEF rank, Preceding
    <2> QED
        BY <2>3
<1>9. Ranked(S, order) = [n \in T |-> at(n)]
    BY DEF Ranked, T
<1>10. ASSUME NEW m \in T, NEW n \in T, at(m) = at(n) PROVE m = n
    <2>1. m - 1 = n - 1
        BY <1>8, <1>10
    <2> QED
        BY <1>1, <2>1 DEF T
<1>11. ASSUME NEW i \in S PROVE \E n \in T : at(n) = i
    <2> DEFINE n == rank(i)
    <2>1. n \in T
        BY <1>3
    <2>2. at(n) \in S /\ Cardinality({j \in S : <<j, at(n)>> \in order}) = n - 1
        BY <1>8, <2>1
    <2>3. Cardinality(Preceding(S, order, at(n))) \in Nat
        BY <2>2, PrecedingIs
    <2>4. n \in Nat
        BY <1>1, <2>1 DEF T
    <2> HIDE DEF n
    <2>5. rank(at(n)) = n
        BY <2>2, <2>3, <2>4 DEF rank, Preceding
    <2>6. at(n) = i
        BY <1>4, <2>2, <2>5 DEF n
    <2> QED
        BY <2>1, <2>6
<1> HIDE DEF at
<1>12. \A n \in T : Ranked(S, order)[n] = at(n)
    BY <1>9
<1>13. Ranked(S, order) \in [T -> S]
    BY <1>8, <1>9
<1>14. \A i \in S : \E n \in T : Ranked(S, order)[n] = i
    BY <1>11, <1>12
<1>15. \A m, n \in T : Ranked(S, order)[m] = Ranked(S, order)[n] => m = n
    BY <1>10, <1>12
<1> QED
    BY <1>1, <1>13, <1>14, <1>15 DEF T

----------------------------------------------------------------------------
(* Entries: sorted, left out, replaced, added and taken back.              *)

\* The entries of one sequence come from another.
From(es, entries) == \A n \in DOMAIN es : \E m \in DOMAIN entries : es[n] = entries[m]

LEMMA Numbered ==
    ASSUME NEW entries \in Seq(Entry)
    PROVE  /\ DOMAIN entries = 1..Len(entries) /\ Len(entries) \in Nat
           /\ IsFiniteSet(DOMAIN entries) /\ Cardinality(DOMAIN entries) = Len(entries)
           /\ \A n \in DOMAIN entries :
                 entries[n] \in Entry /\ entries[n].name \in Names /\ entries[n].name \in Nat
<1>1. DOMAIN entries = 1..Len(entries) /\ Len(entries) \in Nat
    OBVIOUS
<1>2. IsFiniteSet(1..Len(entries)) /\
      Cardinality(1..Len(entries)) = IF 1 > Len(entries) THEN 0 ELSE Len(entries) - 1 + 1
    BY <1>1, FS_Interval, SMTT(30)
<1>3. Cardinality(1..Len(entries)) = Len(entries)
    BY <1>1, <1>2
<1>4. ASSUME NEW n \in DOMAIN entries
      PROVE  entries[n] \in Entry /\ entries[n].name \in Names /\ entries[n].name \in Nat
    <2>1. entries[n] \in Entry
        OBVIOUS
    <2>2. entries[n].name \in Names
        BY <2>1 DEF Entry
    <2> QED
        BY <2>1, <2>2, ViewsAssumption
<1> QED
    BY <1>1, <1>2, <1>3, <1>4

\* Indices, and entries by name and index, are linearly ordered.
LEMMA ByIndexIs ==
    ASSUME NEW S, S \subseteq Nat
    PROVE  Linear(S, ByIndex(S))
<1>1. \A i, j \in S : <<i, j>> \in ByIndex(S) <=> i < j
    BY DEF ByIndex
<1>2. \A i, j, k \in S : /\ ~(i < i)
                         /\ i < j /\ j < k => i < k
                         /\ i # j => i < j \/ j < i
    OBVIOUS
<1> HIDE DEF ByIndex
<1> QED
    BY <1>1, <1>2 DEF Linear

LEMMA ByNameIs ==
    ASSUME NEW entries \in Seq(Entry), NEW S, S \subseteq DOMAIN entries
    PROVE  Linear(S, ByName(entries, S))
<1> DEFINE name(i) == entries[i].name
           before(i, j) == name(i) < name(j) \/ (name(i) = name(j) /\ i < j)
<1>1. \A i, j \in S : <<i, j>> \in ByName(entries, S) <=> before(i, j)
    BY DEF ByName
<1>2. \A i \in S : i \in Nat /\ name(i) \in Nat
    BY Numbered
<1> HIDE DEF name
<1>3. \A i, j, k \in S : /\ ~before(i, i)
                         /\ before(i, j) /\ before(j, k) => before(i, k)
                         /\ i # j => before(i, j) \/ before(j, i)
    BY <1>2
<1> HIDE DEF before
<1> QED
    BY <1>1, <1>3 DEF Linear

\* Entries picked by rank: each comes from one place, and each place is picked.
LEMMA PickedIs ==
    ASSUME NEW entries \in Seq(Entry), NEW S, S \subseteq DOMAIN entries,
           NEW order, Linear(S, order)
    PROVE  /\ Picked(entries, Ranked(S, order)) \in Seq(Entry)
           /\ Len(Picked(entries, Ranked(S, order))) = Cardinality(S)
           /\ From(Picked(entries, Ranked(S, order)), entries)
           /\ S = DOMAIN entries => From(entries, Picked(entries, Ranked(S, order)))
<1> DEFINE r == Ranked(S, order)
           P == Picked(entries, r)
           c == Cardinality(S)
<1>1. IsFiniteSet(S)
    BY Numbered, FS_Subset
<1>2. /\ c \in Nat /\ r \in [1..c -> S]
      /\ \A i \in S : \E n \in 1..c : r[n] = i
    BY <1>1, RankedIs
<1> HIDE DEF r, c
<1>3. P = [n \in 1..c |-> entries[r[n]]]
    BY <1>2 DEF Picked
<1>4. \A n \in 1..c : r[n] \in DOMAIN entries /\ entries[r[n]] \in Entry
    BY <1>2
<1>5. P \in Seq(Entry) /\ Len(P) = c /\ DOMAIN P = 1..c
    BY <1>2, <1>3, <1>4
<1>6. \A n \in 1..c : P[n] = entries[r[n]]
    BY <1>3
<1> HIDE DEF P
<1>7. From(P, entries)
    BY <1>4, <1>5, <1>6 DEF From
<1>8. S = DOMAIN entries => From(entries, P)
    BY <1>2, <1>5, <1>6 DEF From
<1> QED
    BY <1>5, <1>7, <1>8 DEF P, r, c

\* finish_bulk_add sorts the entries, and neither adds nor drops one.
LEMMA SortedIs ==
    ASSUME NEW entries \in Seq(Entry)
    PROVE  /\ Sorted(entries) \in Seq(Entry) /\ Len(Sorted(entries)) = Len(entries)
           /\ From(Sorted(entries), entries) /\ From(entries, Sorted(entries))
<1> DEFINE order == ByName(entries, DOMAIN entries)
<1>1. Linear(DOMAIN entries, order)
    BY ByNameIs
<1>2. Sorted(entries) = Picked(entries, Ranked(DOMAIN entries, order))
    BY DEF Sorted
<1> HIDE DEF order
<1>3. Cardinality(DOMAIN entries) = Len(entries)
    BY Numbered
<1> QED
    BY <1>1, <1>2, <1>3, PickedIs

\* The rows index entries.
LEMMA RowsIs ==
    ASSUME NEW entries \in Seq(Entry), NEW category, NEW up \in BOOLEAN
    PROVE  Rows(entries, category, up) \in Seq(DOMAIN entries)
<1> DEFINE all == Matches(entries, category)
           r == Ranked(all, ByName(entries, all))
           c == Cardinality(all)
<1>1. all \subseteq DOMAIN entries
    BY DEF Matches
<1>2. IsFiniteSet(all)
    BY <1>1, Numbered, FS_Subset
<1>3. Linear(all, ByName(entries, all))
    BY <1>1, ByNameIs
<1>4. Rows(entries, category, up) = IF up THEN r ELSE Reverse(r)
    BY DEF Rows
<1> HIDE DEF all
<1>5. c \in Nat /\ r \in [1..c -> all]
    BY <1>2, <1>3, RankedIs
<1> HIDE DEF r, c
<1>6. r \in Seq(DOMAIN entries)
    BY <1>1, <1>5
<1>7. Reverse(r) \in Seq(DOMAIN entries)
    <2>1. Len(r) \in Nat /\ \A i \in 1..Len(r) : r[Len(r) - i + 1] \in DOMAIN entries
        BY <1>6
    <2>2. Reverse(r) = [i \in 1..Len(r) |-> r[Len(r) - i + 1]]
        BY DEF Reverse
    <2> QED
        BY <2>1, <2>2
<1> QED
    BY <1>4, <1>6, <1>7

\* A resource that is added or replaces another: the others stay where they are.
Grown(es, entries) ==
    /\ es \in Seq(Entry) /\ DOMAIN entries \subseteq DOMAIN es
    /\ \A n \in DOMAIN entries : es[n].name = entries[n].name

LEMMA GrownIs ==
    ASSUME NEW entries \in Seq(Entry), NEW e \in Entry
    PROVE  /\ Grown(entries, entries)
           /\ Grown(Append(entries, e), entries)
           /\ \A m \in DOMAIN entries :
                 entries[m].name = e.name => Grown([entries EXCEPT ![m] = e], entries)
<1>1. DOMAIN entries = 1..Len(entries) /\ Len(entries) \in Nat
    BY Numbered
<1>2. Grown(Append(entries, e), entries)
    <2> DEFINE es == Append(entries, e)
    <2>1. /\ es \in Seq(Entry) /\ DOMAIN entries \subseteq DOMAIN es
          /\ \A n \in DOMAIN entries : es[n] = entries[n]
        BY <1>1
    <2> HIDE DEF es
    <2>2. Grown(es, entries)
        BY <2>1 DEF Grown
    <2> QED
        BY <2>2 DEF es
<1>3. ASSUME NEW m \in DOMAIN entries, entries[m].name = e.name
      PROVE  Grown([entries EXCEPT ![m] = e], entries)
    <2> DEFINE es == [entries EXCEPT ![m] = e]
    <2>1. es \in Seq(Entry) /\ DOMAIN es = DOMAIN entries
        BY <1>1
    <2>2. \A n \in DOMAIN entries : es[n].name = entries[n].name
        BY <1>3
    <2> HIDE DEF es
    <2>3. Grown(es, entries)
        BY <2>1, <2>2 DEF Grown
    <2> QED
        BY <2>3 DEF es
<1>4. Grown(entries, entries)
    BY DEF Grown
<1> QED
    BY <1>2, <1>3, <1>4

\* The first entry of a name, if there is one.
LEMMA FirstIs ==
    ASSUME NEW entries \in Seq(Entry), NEW name,
           {i \in DOMAIN entries : entries[i].name = name} # {}
    PROVE  LET m == Min({i \in DOMAIN entries : entries[i].name = name}) IN
           m \in DOMAIN entries /\ entries[m].name = name
<1> DEFINE at == {i \in DOMAIN entries : entries[i].name = name}
<1>1. at \subseteq Nat
    BY Numbered
<1>2. Min(at) \in at
    BY <1>1, MinIs
<1> QED
    BY <1>2

LEMMA WithIs ==
    ASSUME NEW entries \in Seq(Entry), NEW e \in Entry
    PROVE  With(entries, e) \in Seq(Entry)
<1> DEFINE at == {i \in DOMAIN entries : entries[i].name = e.name}
           m == Min(at)
<1>1. CASE at = {}
    <2>1. With(entries, e) = Append(entries, e)
        BY <1>1, Zenon DEF With
    <2> QED
        BY <2>1
<1>2. CASE at # {}
    <2>1. m \in DOMAIN entries /\ entries[m].name = e.name
        BY <1>2, FirstIs
    <2>2. With(entries, e) = [entries EXCEPT ![m] = e]
        BY <1>2, Zenon DEF With
    <2> HIDE DEF m
    <2>3. Grown([entries EXCEPT ![m] = e], entries)
        BY <2>1, GrownIs
    <2> QED
        BY <2>2, <2>3 DEF Grown
<1> QED
    BY <1>1, <1>2

\* What the recursive definition in Merged says of its function.
Follows(f, entries, more) ==
    f = [n \in 0..Len(more) |-> IF n = 0 THEN entries ELSE With(f[n - 1], more[n])]

LEMMA MergedExists ==
    ASSUME NEW entries \in Seq(Entry), NEW more \in Seq(Entry)
    PROVE  \E f : Follows(f, entries, more)
<1> DEFINE step(n, x) == With(x, more[n])
           Upto(f, m) == f[0] = entries /\ \A n \in 1..m : f[n] = step(n, f[n - 1])
           Has(m) == \E f \in [0..m -> Seq(Entry)] : Upto(f, m)
           S == {m \in Nat : m <= Len(more) => Has(m)}
<1>0. Len(more) \in Nat /\ DOMAIN more = 1..Len(more)
    OBVIOUS
<1>1. \A n \in 1..Len(more) : \A x \in Seq(Entry) : step(n, x) \in Seq(Entry)
    <2> SUFFICES ASSUME NEW n \in 1..Len(more), NEW x \in Seq(Entry)
                 PROVE  step(n, x) \in Seq(Entry)
        OBVIOUS
    <2>1. more[n] \in Entry
        BY <1>0
    <2> QED
        BY <2>1, WithIs
<1> HIDE DEF step
<1>2. 0 \in S
    <2> DEFINE f == [n \in 0..0 |-> entries]
    <2>1. f \in [0..0 -> Seq(Entry)] /\ Upto(f, 0)
        OBVIOUS
    <2> QED
        BY <2>1
<1>3. ASSUME NEW m \in Nat, Has(m), m + 1 <= Len(more)
      PROVE  Has(m + 1)
    <2>1. PICK f \in [0..m -> Seq(Entry)] : Upto(f, m)
        BY <1>3
    <2> DEFINE last == step(m + 1, f[m])
               g == [n \in 0..(m + 1) |-> IF n = m + 1 THEN last ELSE f[n]]
    <2>2. m + 1 \in 1..Len(more) /\ f[m] \in Seq(Entry)
        BY <1>0, <1>3
    <2>3. last \in Seq(Entry)
        BY <1>1, <2>2
    <2>4. g \in [0..(m + 1) -> Seq(Entry)]
        BY <2>3
    <2>5. g[m + 1] = last /\ \A n \in 0..m : g[n] = f[n]
        OBVIOUS
    <2> HIDE DEF g
    <2>6. ASSUME NEW n \in 1..(m + 1) PROVE g[n] = step(n, g[n - 1])
        <3>1. CASE n = m + 1
            <4>1. n - 1 = m /\ m \in 0..m
                BY <3>1
            <4> QED
                BY <3>1, <4>1, <2>5
        <3>2. CASE n # m + 1
            <4>1. n \in 0..m /\ n - 1 \in 0..m /\ n \in 1..m
                BY <3>2
            <4>2. f[n] = step(n, f[n - 1])
                BY <4>1, <2>1
            <4> QED
                BY <4>1, <4>2, <2>5
        <3> QED
            BY <3>1, <3>2
    <2>7. g[0] = entries
        BY <2>1, <2>5
    <2> QED
        BY <2>4, <2>6, <2>7
<1> HIDE DEF Has
<1>4. \A m \in Nat : m \in S => m + 1 \in S
    BY <1>0, <1>3
<1> HIDE DEF S
<1>5. Len(more) \in S
    BY <1>0, <1>2, <1>4, Induct
<1>6. PICK f \in [0..Len(more) -> Seq(Entry)] : Upto(f, Len(more))
    BY <1>0, <1>5 DEF S, Has
<1>7. ASSUME NEW n \in 0..Len(more)
      PROVE  f[n] = IF n = 0 THEN entries ELSE step(n, f[n - 1])
    <2>1. n = 0 \/ n \in 1..Len(more)
        BY <1>0
    <2> QED
        BY <1>6, <2>1
<1> HIDE DEF Upto
<1>8. f = [n \in 0..Len(more) |-> IF n = 0 THEN entries ELSE step(n, f[n - 1])]
    BY <1>7
<1> QED
    BY <1>8 DEF Follows, step

\* Merged applies With to one entry after the other ...
LEMMA MergedFollows ==
    ASSUME NEW entries \in Seq(Entry), NEW more \in Seq(Entry)
    PROVE  /\ Merged(entries, more)[0] = entries
           /\ \A n \in 1..Len(more) :
                 Merged(entries, more)[n] = With(Merged(entries, more)[n - 1], more[n])
<1> DEFINE M == Merged(entries, more)
<1>1. M = CHOOSE f : Follows(f, entries, more)
    BY DEF Merged, Follows
<1> HIDE DEF M
<1>2. Follows(M, entries, more)
    BY <1>1, MergedExists
<1> DEFINE F(n) == IF n = 0 THEN entries ELSE With(M[n - 1], more[n])
<1>3. M = [n \in 0..Len(more) |-> F(n)]
    BY <1>2 DEF Follows
<1> HIDE DEF F
<1>4. \A n \in 0..Len(more) : M[n] = F(n)
    BY <1>3
<1>5. 0 \in 0..Len(more) /\ \A n \in 1..Len(more) : n \in 0..Len(more) /\ n # 0
    <2>1. Len(more) \in Nat
        OBVIOUS
    <2> QED
        BY <2>1
<1>6. M[0] = entries
    BY <1>4, <1>5 DEF F
<1>7. ASSUME NEW n \in 1..Len(more) PROVE M[n] = With(M[n - 1], more[n])
    BY <1>4, <1>5 DEF F
<1> QED
    BY <1>6, <1>7 DEF M

\* ... and what it makes are entries.
LEMMA MergedIs ==
    ASSUME NEW entries \in Seq(Entry), NEW more \in Seq(Entry)
    PROVE  Merged(entries, more)[Len(more)] \in Seq(Entry)
<1> DEFINE M == Merged(entries, more)
           Good(m) == M[m] \in Seq(Entry)
           S == {m \in Nat : m <= Len(more) => Good(m)}
<1>0. Len(more) \in Nat /\ DOMAIN more = 1..Len(more)
    OBVIOUS
<1>1. M[0] = entries /\ \A n \in 1..Len(more) : M[n] = With(M[n - 1], more[n])
    BY MergedFollows
<1> HIDE DEF M
<1>2. 0 \in S
    BY <1>1
<1>3. ASSUME NEW m \in Nat, Good(m), m + 1 <= Len(more) PROVE Good(m + 1)
    <2>1. m + 1 \in 1..Len(more) /\ (m + 1) - 1 = m
        BY <1>0, <1>3
    <2>2. M[m + 1] = With(M[m], more[m + 1])
        BY <1>1, <2>1
    <2>3. more[m + 1] \in Entry /\ M[m] \in Seq(Entry)
        BY <1>0, <1>3, <2>1
    <2> QED
        BY <2>2, <2>3, WithIs
<1> HIDE DEF Good
<1>4. \A m \in Nat : m \in S => m + 1 \in S
    BY <1>0, <1>3
<1> HIDE DEF S
<1>5. Len(more) \in S
    BY <1>0, <1>2, <1>4, Induct
<1> QED
    BY <1>0, <1>5 DEF S, Good, M

\* Where an element of the rest of a sequence came from.
LEMMA RemoveAtIs ==
    ASSUME NEW S, NEW s \in Seq(S), NEW i \in DOMAIN s
    PROVE  /\ RemoveAt(s, i) \in Seq(S) /\ Len(RemoveAt(s, i)) = Len(s) - 1
           /\ \A n \in 1..(Len(s) - 1) :
                 RemoveAt(s, i)[n] = IF n < i THEN s[n] ELSE s[n + 1]
<1> DEFINE a == SubSeq(s, 1, i - 1)
           b == SubSeq(s, i + 1, Len(s))
<1>1. /\ Len(s) \in Nat /\ i \in 1..Len(s) /\ i \in Int /\ i - 1 \in Int /\ i + 1 \in Int
      /\ Len(s) \in Int /\ 1 \in Int
    OBVIOUS
<1>2. /\ \A n \in 1..(i - 1) : s[n] \in S
      /\ \A n \in (i + 1)..Len(s) : s[n] \in S
    BY <1>1
<1>3. /\ a \in Seq(S) /\ Len(a) = IF 1 <= i - 1 THEN i - 1 - 1 + 1 ELSE 0
      /\ \A n \in 1..(i - 1 - 1 + 1) : a[n] = s[1 + n - 1]
    BY <1>1, <1>2, SubSeqProperties
<1>4. /\ b \in Seq(S) /\ Len(b) = IF i + 1 <= Len(s) THEN Len(s) - (i + 1) + 1 ELSE 0
      /\ \A n \in 1..(Len(s) - (i + 1) + 1) : b[n] = s[i + 1 + n - 1]
    BY <1>1, <1>2, SubSeqProperties
<1> HIDE DEF a, b
<1>5. /\ a \o b \in Seq(S) /\ Len(a \o b) = Len(a) + Len(b)
      /\ \A n \in 1..(Len(a) + Len(b)) :
            (a \o b)[n] = IF n <= Len(a) THEN a[n] ELSE b[n - Len(a)]
    BY <1>3, <1>4, ConcatProperties
<1>6. Len(a) = i - 1 /\ Len(b) = Len(s) - i
    BY <1>1, <1>3, <1>4
<1>7. Len(a) + Len(b) = Len(s) - 1
    BY <1>1, <1>6
<1>8. ASSUME NEW n \in 1..(Len(s) - 1)
      PROVE  (a \o b)[n] = IF n < i THEN s[n] ELSE s[n + 1]
    <2>1. CASE n < i
        <3>1. n \in 1..(i - 1 - 1 + 1) /\ 1 + n - 1 = n /\ n <= Len(a)
            BY <1>1, <1>6, <2>1
        <3> QED
            BY <1>3, <1>5, <1>7, <2>1, <3>1
    <2>2. CASE ~(n < i)
        <3>1. /\ n - Len(a) \in 1..(Len(s) - (i + 1) + 1) /\ ~(n <= Len(a))
              /\ i + 1 + (n - Len(a)) - 1 = n + 1
            <4>1. /\ n \in Int /\ i \in Int /\ Len(s) \in Int /\ n >= i /\ n <= Len(s) - 1
                BY <1>1, <2>2
            <4>2. /\ n - (i - 1) \in 1..(Len(s) - (i + 1) + 1) /\ ~(n <= i - 1)
                  /\ i + 1 + (n - (i - 1)) - 1 = n + 1
                BY ONLY <4>1
            <4> QED
                BY <1>6, <4>2
        <3>2. b[n - Len(a)] = s[n + 1]
            BY <1>4, <3>1
        <3> QED
            BY <1>5, <1>7, <2>2, <3>1, <3>2
    <2> QED
        BY <2>1, <2>2
<1>9. RemoveAt(s, i) = a \o b
    BY DEF RemoveAt, a, b
<1> QED
    BY <1>5, <1>7, <1>8, <1>9

LEMMA TakenBackIs ==
    ASSUME NEW entries \in Seq(Entry), NEW change \in Change
    PROVE  TakenBack(entries, change) \in Seq(Entry)
<1> DEFINE at == {i \in DOMAIN entries : entries[i].name = change.name}
<1>1. CASE change.before # None
    <2>1. change.before \in Entry
        BY <1>1 DEF Change
    <2>2. TakenBack(entries, change) = With(entries, change.before)
        BY <1>1 DEF TakenBack
    <2> QED
        BY <2>1, <2>2, WithIs
<1>2. CASE change.before = None /\ at # {}
    <2>1. Min(at) \in DOMAIN entries
        BY <1>2, FirstIs
    <2>2. TakenBack(entries, change) = RemoveAt(entries, Min(at))
        BY <1>2 DEF TakenBack
    <2> HIDE DEF at
    <2> QED
        BY <2>1, <2>2, RemoveAtIs
<1>3. CASE change.before = None /\ at = {}
    BY <1>3 DEF TakenBack
<1> QED
    BY <1>1, <1>2, <1>3

\* What the recursive definition in Reverted says of its function.
Reverts(f, entries, undone) ==
    f = [n \in 0..Len(undone) |-> IF n = 0 THEN entries ELSE TakenBack(f[n - 1], undone[n])]

LEMMA RevertedExists ==
    ASSUME NEW entries \in Seq(Entry), NEW undone \in Seq(Change)
    PROVE  \E f : Reverts(f, entries, undone)
<1> DEFINE step(n, x) == TakenBack(x, undone[n])
           Upto(f, m) == f[0] = entries /\ \A n \in 1..m : f[n] = step(n, f[n - 1])
           Has(m) == \E f \in [0..m -> Seq(Entry)] : Upto(f, m)
           S == {m \in Nat : m <= Len(undone) => Has(m)}
<1>0. Len(undone) \in Nat /\ DOMAIN undone = 1..Len(undone)
    OBVIOUS
<1>1. \A n \in 1..Len(undone) : \A x \in Seq(Entry) : step(n, x) \in Seq(Entry)
    <2> SUFFICES ASSUME NEW n \in 1..Len(undone), NEW x \in Seq(Entry)
                 PROVE  step(n, x) \in Seq(Entry)
        OBVIOUS
    <2>1. undone[n] \in Change
        BY <1>0
    <2> QED
        BY <2>1, TakenBackIs
<1> HIDE DEF step
<1>2. 0 \in S
    <2> DEFINE f == [n \in 0..0 |-> entries]
    <2>1. f \in [0..0 -> Seq(Entry)] /\ Upto(f, 0)
        OBVIOUS
    <2> QED
        BY <2>1
<1>3. ASSUME NEW m \in Nat, Has(m), m + 1 <= Len(undone)
      PROVE  Has(m + 1)
    <2>1. PICK f \in [0..m -> Seq(Entry)] : Upto(f, m)
        BY <1>3
    <2> DEFINE last == step(m + 1, f[m])
               g == [n \in 0..(m + 1) |-> IF n = m + 1 THEN last ELSE f[n]]
    <2>2. m + 1 \in 1..Len(undone) /\ f[m] \in Seq(Entry)
        BY <1>0, <1>3
    <2>3. last \in Seq(Entry)
        BY <1>1, <2>2
    <2>4. g \in [0..(m + 1) -> Seq(Entry)]
        BY <2>3
    <2>5. g[m + 1] = last /\ \A n \in 0..m : g[n] = f[n]
        OBVIOUS
    <2> HIDE DEF g
    <2>6. ASSUME NEW n \in 1..(m + 1) PROVE g[n] = step(n, g[n - 1])
        <3>1. CASE n = m + 1
            <4>1. n - 1 = m /\ m \in 0..m
                BY <3>1
            <4> QED
                BY <3>1, <4>1, <2>5
        <3>2. CASE n # m + 1
            <4>1. n \in 0..m /\ n - 1 \in 0..m /\ n \in 1..m
                BY <3>2
            <4>2. f[n] = step(n, f[n - 1])
                BY <4>1, <2>1
            <4> QED
                BY <4>1, <4>2, <2>5
        <3> QED
            BY <3>1, <3>2
    <2>7. g[0] = entries
        BY <2>1, <2>5
    <2> QED
        BY <2>4, <2>6, <2>7
<1> HIDE DEF Has
<1>4. \A m \in Nat : m \in S => m + 1 \in S
    BY <1>0, <1>3
<1> HIDE DEF S
<1>5. Len(undone) \in S
    BY <1>0, <1>2, <1>4, Induct
<1>6. PICK f \in [0..Len(undone) -> Seq(Entry)] : Upto(f, Len(undone))
    BY <1>0, <1>5 DEF S, Has
<1>7. ASSUME NEW n \in 0..Len(undone)
      PROVE  f[n] = IF n = 0 THEN entries ELSE step(n, f[n - 1])
    <2>1. n = 0 \/ n \in 1..Len(undone)
        BY <1>0
    <2> QED
        BY <1>6, <2>1
<1> HIDE DEF Upto
<1>8. f = [n \in 0..Len(undone) |-> IF n = 0 THEN entries ELSE step(n, f[n - 1])]
    BY <1>7
<1> QED
    BY <1>8 DEF Reverts, step

\* Reverted takes back one change after the other ...
LEMMA RevertedFollows ==
    ASSUME NEW entries \in Seq(Entry), NEW undone \in Seq(Change)
    PROVE  /\ Reverted(entries, undone)[0] = entries
           /\ \A n \in 1..Len(undone) :
                 Reverted(entries, undone)[n] = TakenBack(Reverted(entries, undone)[n - 1], undone[n])
<1> DEFINE M == Reverted(entries, undone)
<1>1. M = CHOOSE f : Reverts(f, entries, undone)
    BY DEF Reverted, Reverts
<1> HIDE DEF M
<1>2. Reverts(M, entries, undone)
    BY <1>1, RevertedExists
<1> DEFINE F(n) == IF n = 0 THEN entries ELSE TakenBack(M[n - 1], undone[n])
<1>3. M = [n \in 0..Len(undone) |-> F(n)]
    BY <1>2 DEF Reverts
<1> HIDE DEF F
<1>4. \A n \in 0..Len(undone) : M[n] = F(n)
    BY <1>3
<1>5. 0 \in 0..Len(undone) /\ \A n \in 1..Len(undone) : n \in 0..Len(undone) /\ n # 0
    <2>1. Len(undone) \in Nat
        OBVIOUS
    <2> QED
        BY <2>1
<1>6. M[0] = entries
    BY <1>4, <1>5 DEF F
<1>7. ASSUME NEW n \in 1..Len(undone) PROVE M[n] = TakenBack(M[n - 1], undone[n])
    BY <1>4, <1>5 DEF F
<1> QED
    BY <1>6, <1>7 DEF M

\* ... and what it makes are entries.
LEMMA RevertedIs ==
    ASSUME NEW entries \in Seq(Entry), NEW undone \in Seq(Change)
    PROVE  Reverted(entries, undone)[Len(undone)] \in Seq(Entry)
<1> DEFINE M == Reverted(entries, undone)
           Good(m) == M[m] \in Seq(Entry)
           S == {m \in Nat : m <= Len(undone) => Good(m)}
<1>0. Len(undone) \in Nat /\ DOMAIN undone = 1..Len(undone)
    OBVIOUS
<1>1. M[0] = entries /\ \A n \in 1..Len(undone) : M[n] = TakenBack(M[n - 1], undone[n])
    BY RevertedFollows
<1> HIDE DEF M
<1>2. 0 \in S
    BY <1>1
<1>3. ASSUME NEW m \in Nat, Good(m), m + 1 <= Len(undone) PROVE Good(m + 1)
    <2>1. m + 1 \in 1..Len(undone) /\ (m + 1) - 1 = m
        BY <1>0, <1>3
    <2>2. M[m + 1] = TakenBack(M[m], undone[m + 1])
        BY <1>1, <2>1
    <2>3. undone[m + 1] \in Change /\ M[m] \in Seq(Entry)
        BY <1>0, <1>3, <2>1
    <2> QED
        BY <2>2, <2>3, TakenBackIs
<1> HIDE DEF Good
<1>4. \A m \in Nat : m \in S => m + 1 \in S
    BY <1>0, <1>3
<1> HIDE DEF S
<1>5. Len(undone) \in S
    BY <1>0, <1>2, <1>4, Induct
<1> QED
    BY <1>0, <1>5 DEF S, Good, M

----------------------------------------------------------------------------
(* Archives that are open.                                                 *)

Tab ==
    [entries : Seq(Entry), id : Nat, rev : Nat, selected : SUBSET Nat, anchor : Nat, cursor : Nat,
     category : Categories \cup {None}, up : BOOLEAN, past : PastSet \cup {None},
     meant : SUBSET Names, astray : Reasons, resorted : BOOLEAN]

\* What is selected exists, and is what the user selected, unless the
\* selection went astray; and so it was when undo was recorded.
Landed(t) ==
    /\ t.selected \subseteq DOMAIN t.entries
    /\ t.anchor \in 0..Len(t.entries) /\ t.cursor \in 0..Len(t.entries)
Placed(t) == Landed(t) /\ (t.astray = "no" => KeysOf(t, t.selected) = t.meant)
PastOK(past) == past.astray = "no" => past.keys = past.meant
SoundTab(t) == t \in Tab /\ Placed(t) /\ (t.past # None => PastOK(t.past))

\* The names an archive holds.
Held(t) == KeysOf(t, DOMAIN t.entries)

LEMMA KeysAreNames ==
    ASSUME NEW t \in Tab, NEW indices
    PROVE  KeysOf(t, indices) \in SUBSET Names
<1>1. t.entries \in Seq(Entry)
    BY DEF Tab
<1> QED
    BY <1>1, Numbered DEF KeysOf

LEMMA PastIs ==
    ASSUME NEW t, SoundTab(t), NEW undone \in Seq(Change)
    PROVE  /\ Past(t, undone) \in PastSet /\ PastOK(Past(t, undone))
           /\ Past(t, undone).keys = KeysOf(t, t.selected) /\ Past(t, undone).meant = t.meant
           /\ Past(t, undone).astray = t.astray
<1> DEFINE keys == KeysOf(t, t.selected)
           past == Past(t, undone)
<1>1. t \in Tab /\ (t.astray = "no" => keys = t.meant)
    BY DEF SoundTab, Placed
<1>2. keys \in SUBSET Names
    BY <1>1, KeysAreNames
<1>3. past = [changes |-> undone, keys |-> keys, category |-> t.category,
              meant |-> t.meant, astray |-> t.astray]
    BY DEF Past
<1> HIDE DEF keys, past
<1>4. past \in PastSet
    BY <1>1, <1>2, <1>3 DEF PastSet, Tab
<1>5. past.keys = keys /\ past.meant = t.meant /\ past.astray = t.astray
    BY <1>3
<1>6. PastOK(past)
    BY <1>1, <1>5 DEF PastOK
<1> QED
    BY <1>4, <1>5, <1>6 DEF past, keys

\* restore_selection_by_keys finds what is there, and selects nothing else.
LEMMA RestoredIs ==
    ASSUME NEW t \in Tab, NEW keys
    PROVE  LET r == Restored(t, keys) IN
           /\ r \in Tab /\ Landed(r)
           /\ r.entries = t.entries /\ r.past = t.past /\ r.id = t.id /\ r.rev = t.rev
           /\ r.meant = t.meant /\ r.astray = t.astray
           /\ KeysOf(r, r.selected) = keys \cap Held(t)
<1> DEFINE s == {i \in DOMAIN t.entries : t.entries[i].name \in keys}
           low == Lowest(s)
           high == Highest(s)
           r == [t EXCEPT !.selected = s, !.anchor = low, !.cursor = high]
<1>1. t.entries \in Seq(Entry)
    BY DEF Tab
<1>2. DOMAIN t.entries = 1..Len(t.entries) /\ Len(t.entries) \in Nat
    BY <1>1, Numbered
<1>3. s \subseteq DOMAIN t.entries /\ s \in SUBSET Nat
    BY <1>2
<1>4. {t.entries[i].name : i \in s \cap DOMAIN t.entries} = keys \cap Held(t)
    BY DEF Held, KeysOf
<1>5. low \in 0..Len(t.entries) /\ high \in 0..Len(t.entries)
    BY <1>2, <1>3, LowestIs
<1>6. Restored(t, keys) = r
    BY DEF Restored
<1> HIDE DEF s, low, high
<1>7. r \in Tab
    <2>1. low \in Nat /\ high \in Nat
        BY <1>2, <1>5
    <2> QED
        BY <1>3, <2>1, ZenonT(30) DEF Tab
<1>8. /\ r.entries = t.entries /\ r.past = t.past /\ r.id = t.id /\ r.rev = t.rev
      /\ r.selected = s /\ r.anchor = low /\ r.cursor = high
      /\ r.meant = t.meant /\ r.astray = t.astray
    BY DEF Tab
<1> HIDE DEF r
<1>9. KeysOf(r, r.selected) = keys \cap Held(t)
    BY <1>4, <1>8 DEF KeysOf
<1>10. Landed(r)
    BY <1>3, <1>5, <1>8 DEF Landed
<1> QED
    BY <1>6, <1>7, <1>8, <1>9, <1>10

\* The end of an import, a merge, and undo: the entries are sorted, and the
\* selection is restored, which is what the user meant if the keys are.
LEMMA ResortedIs ==
    ASSUME NEW t \in Tab, NEW keys, t.astray = "no" => keys = t.meant,
           t.past # None => PastOK(t.past)
    PROVE  /\ SoundTab(Resorted(t, keys))
           /\ Resorted(t, keys).id = t.id /\ Resorted(t, keys).rev = t.rev + 1
           /\ Resorted(t, keys).entries = Sorted(t.entries)
<1> DEFINE es == Sorted(t.entries)
           next == t.rev + 1
           meant == t.meant \cap Held(t)
           u == [t EXCEPT !.entries = es, !.rev = next, !.resorted = FALSE, !.meant = meant]
           r == Restored(u, keys)
<1>1. t.entries \in Seq(Entry) /\ t.rev \in Nat /\ next \in Nat /\ meant \in SUBSET Names
    BY DEF Tab
<1>2. es \in Seq(Entry) /\ From(es, t.entries) /\ From(t.entries, es)
    BY <1>1, SortedIs
<1>3. Resorted(t, keys) = r
    <2>1. Resorted(t, keys) = Restored([t EXCEPT !.entries = Sorted(t.entries), !.rev = t.rev + 1,
                                 !.resorted = FALSE,
                                 !.meant = t.meant \cap KeysOf(t, DOMAIN t.entries)], keys)
        BY DEF Resorted
    <2> QED
        BY <2>1, Zenon DEF Held
<1>4. {es[i].name : i \in DOMAIN es} = {t.entries[i].name : i \in DOMAIN t.entries}
    BY <1>2 DEF From
<1>5. \A v : KeysOf(v, DOMAIN v.entries) = {v.entries[i].name : i \in DOMAIN v.entries}
    BY DEF KeysOf
<1>6. Held(t) = {t.entries[i].name : i \in DOMAIN t.entries}
    BY <1>5 DEF Held
<1> HIDE DEF es, next, meant
<1>7. u \in Tab
    BY <1>1, <1>2, ZenonT(30) DEF Tab
<1>8. /\ u.entries = es /\ u.past = t.past /\ u.id = t.id /\ u.rev = next
      /\ u.meant = meant /\ u.astray = t.astray
    BY DEF Tab
<1> HIDE DEF u
<1>9. Held(u) = Held(t)
    BY <1>4, <1>5, <1>6, <1>8 DEF Held
<1>10. /\ r \in Tab /\ Landed(r)
       /\ r.past = u.past /\ r.id = u.id /\ r.rev = u.rev /\ r.entries = u.entries
       /\ r.meant = u.meant /\ r.astray = u.astray
       /\ KeysOf(r, r.selected) = keys \cap Held(u)
    BY <1>7, RestoredIs
<1> HIDE DEF r
<1>11. r.astray = "no" => KeysOf(r, r.selected) = r.meant
    BY <1>8, <1>9, <1>10 DEF meant
<1>12. SoundTab(r)
    BY <1>8, <1>10, <1>11 DEF SoundTab, Placed
<1> QED
    BY <1>3, <1>8, <1>10, <1>12 DEF next, es

\* A click, which leaves the entries alone.
Seen(t, u) ==
    /\ u.entries = t.entries /\ u.id = t.id /\ u.rev = t.rev
    /\ u.past = t.past /\ u.resorted = t.resorted

LEMMA SeenIs ==
    ASSUME NEW t, SoundTab(t), NEW u \in Tab, Placed(u), Seen(t, u)
    PROVE  SoundTab(u)
BY DEF SoundTab, Seen

LEMMA SelectsIs ==
    ASSUME NEW t, SoundTab(t), NEW selected, selected \subseteq DOMAIN t.entries,
           NEW anchor \in 0..Len(t.entries), NEW cursor \in 0..Len(t.entries)
    PROVE  /\ SoundTab(Selects(t, selected, anchor, cursor))
           /\ Seen(t, Selects(t, selected, anchor, cursor))
           /\ LET u == Selects(t, selected, anchor, cursor) IN
              /\ u.selected = selected /\ u.anchor = anchor /\ u.cursor = cursor
              /\ u.meant = KeysOf(t, selected) /\ u.up = t.up
<1> DEFINE m == KeysOf(t, selected)
           u == [t EXCEPT !.selected = selected, !.anchor = anchor, !.cursor = cursor,
                          !.meant = m, !.astray = "no"]
<1>1. t \in Tab /\ t.entries \in Seq(Entry)
    BY DEF SoundTab, Tab
<1>2. DOMAIN t.entries = 1..Len(t.entries) /\ Len(t.entries) \in Nat
    BY <1>1, Numbered
<1>3. m \in SUBSET Names
    BY <1>1, KeysAreNames
<1>4. selected \in SUBSET Nat /\ anchor \in Nat /\ cursor \in Nat
    BY <1>2
<1>5. Selects(t, selected, anchor, cursor) = u
    BY DEF Selects
<1> HIDE DEF m
<1>6. u \in Tab
    <2>1. "no" \in Reasons
        BY DEF Reasons
    <2> QED
        BY <1>1, <1>3, <1>4, <2>1, ZenonT(30) DEF Tab
<1>7. /\ u.selected = selected /\ u.anchor = anchor /\ u.cursor = cursor /\ u.meant = m
      /\ u.up = t.up
    BY <1>1 DEF Tab
<1>8. Seen(t, u)
    BY <1>1 DEF Tab, Seen
<1> HIDE DEF u
<1>9. KeysOf(u, u.selected) = u.meant
    BY <1>7, <1>8 DEF KeysOf, m, Seen
<1>10. Placed(u)
    BY <1>7, <1>8, <1>9 DEF Placed, Landed, Seen
<1>11. SoundTab(u)
    BY <1>6, <1>8, <1>10, SeenIs
<1> QED
    BY <1>5, <1>7, <1>8, <1>11 DEF m

\* A category, and the order of the rows.
LEMMA CategoryIs ==
    ASSUME NEW t, SoundTab(t), NEW category \in Categories \cup {None}
    PROVE  /\ SoundTab([t EXCEPT !.category = category])
           /\ Seen(t, [t EXCEPT !.category = category])
<1> DEFINE u == [t EXCEPT !.category = category]
<1>1. t \in Tab /\ Placed(t)
    BY DEF SoundTab
<1>2. u \in Tab
    BY <1>1, ZenonT(30) DEF Tab
<1>3. /\ Seen(t, u) /\ u.selected = t.selected /\ u.anchor = t.anchor
      /\ u.cursor = t.cursor /\ u.meant = t.meant /\ u.astray = t.astray
    BY <1>1 DEF Tab, Seen
<1> HIDE DEF u
<1>4. Placed(u)
    BY <1>1, <1>3 DEF Placed, Landed, Seen, KeysOf
<1>5. SoundTab(u)
    BY <1>2, <1>3, <1>4, SeenIs
<1> QED
    BY <1>3, <1>5 DEF u

LEMMA UpIs ==
    ASSUME NEW t, SoundTab(t), NEW up \in BOOLEAN
    PROVE  SoundTab([t EXCEPT !.up = up]) /\ Seen(t, [t EXCEPT !.up = up])
<1> DEFINE u == [t EXCEPT !.up = up]
<1>1. t \in Tab /\ Placed(t)
    BY DEF SoundTab
<1>2. u \in Tab
    BY <1>1, ZenonT(30) DEF Tab
<1>3. /\ Seen(t, u) /\ u.selected = t.selected /\ u.anchor = t.anchor
      /\ u.cursor = t.cursor /\ u.meant = t.meant /\ u.astray = t.astray
    BY <1>1 DEF Tab, Seen
<1> HIDE DEF u
<1>4. Placed(u)
    BY <1>1, <1>3 DEF Placed, Landed, Seen, KeysOf
<1>5. SoundTab(u)
    BY <1>2, <1>3, <1>4, SeenIs
<1> QED
    BY <1>3, <1>5 DEF u

\* A save gives the archive a new identity, and forgets what undo returns to.
LEMMA SavedIs ==
    ASSUME NEW t, SoundTab(t), NEW id \in Nat
    PROVE  LET u == [t EXCEPT !.id = id, !.rev = 0, !.past = None] IN
           SoundTab(u) /\ u.id = id /\ u.entries = t.entries
<1> DEFINE u == [t EXCEPT !.id = id, !.rev = 0, !.past = None]
<1>1. t \in Tab /\ Placed(t)
    BY DEF SoundTab
<1>2. u \in Tab
    BY <1>1, ZenonT(30) DEF Tab
<1>3. /\ u.entries = t.entries /\ u.selected = t.selected /\ u.anchor = t.anchor
      /\ u.cursor = t.cursor /\ u.meant = t.meant /\ u.astray = t.astray
      /\ u.id = id /\ u.past = None
    BY <1>1 DEF Tab
<1> HIDE DEF u
<1>4. Placed(u)
    BY <1>1, <1>3 DEF Placed, Landed, KeysOf
<1>5. SoundTab(u)
    BY <1>2, <1>3, <1>4 DEF SoundTab
<1> QED
    BY <1>3, <1>5 DEF u

LEMMA NewTabIs ==
    ASSUME NEW f \in Files, NEW id \in Nat
    PROVE  SoundTab(NewTab(f, id)) /\ NewTab(f, id).id = id
<1> DEFINE u == NewTab(f, id)
<1>1. f \in Seq(Entry)
    BY ViewsAssumption
<1>2. u \in Tab
    BY <1>1 DEF NewTab, Tab, Reasons
<1>3. /\ u.entries = f /\ u.selected = {} /\ u.anchor = 0 /\ u.cursor = 0
      /\ u.meant = {} /\ u.past = None /\ u.id = id
    BY DEF NewTab
<1> HIDE DEF u
<1>4. Placed(u)
    BY <1>1, <1>3 DEF Placed, Landed, KeysOf
<1> QED
    BY <1>2, <1>3, <1>4 DEF SoundTab, u

\* What undo is told of a deletion, and of a merge.
LEMMA SelectionIs ==
    ASSUME NEW t \in Tab
    PROVE  Selection(t) \in Seq(Change)
<1> DEFINE chosen == t.selected \cap DOMAIN t.entries
           order == Ranked(chosen, ByIndex(chosen))
           c == Cardinality(chosen)
           f(n) == [name |-> t.entries[order[n]].name, before |-> t.entries[order[n]]]
<1>1. t.entries \in Seq(Entry)
    BY DEF Tab
<1>2. IsFiniteSet(chosen) /\ chosen \subseteq DOMAIN t.entries /\ chosen \subseteq Nat
    BY <1>1, Numbered, FS_Subset
<1>3. Linear(chosen, ByIndex(chosen))
    BY <1>2, ByIndexIs
<1>4. Selection(t) = [n \in DOMAIN order |-> f(n)]
    BY DEF Selection
<1> HIDE DEF chosen
<1>5. c \in Nat /\ order \in [1..c -> chosen]
    BY <1>2, <1>3, RankedIs
<1> HIDE DEF order, c
<1>6. ASSUME NEW n \in 1..c PROVE f(n) \in Change
    <2>1. order[n] \in DOMAIN t.entries
        BY <1>2, <1>5
    <2>2. t.entries[order[n]] \in Entry /\ t.entries[order[n]].name \in Names
        BY <1>1, <2>1, Numbered
    <2> QED
        BY <2>2 DEF Change
<1>7. DOMAIN order = 1..c
    BY <1>5
<1> HIDE DEF f
<1>8. [n \in DOMAIN order |-> f(n)] \in Seq(Change)
    BY <1>5, <1>6, <1>7
<1> QED
    BY <1>4, <1>8

LEMMA OverwrittenIs ==
    ASSUME NEW entries \in Seq(Entry), NEW more \in Seq(Entry)
    PROVE  Overwritten(entries, more) \in Seq(Change)
<1> DEFINE names == {more[n].name : n \in DOMAIN more}
           order == Ranked(names, ByIndex(names))
           c == Cardinality(names)
           f(n) == Before(entries, order[n])
<1>1. names \subseteq Names /\ names \subseteq Nat
    BY Numbered, ViewsAssumption
<1>2. IsFiniteSet(names)
    <2> DEFINE g == [n \in DOMAIN more |-> more[n].name]
    <2>1. IsFiniteSet(DOMAIN more)
        BY Numbered
    <2>2. g \in Surjection(DOMAIN more, names)
        BY DEF Surjection
    <2> QED
        BY <2>1, <2>2, FS_Surjection
<1>3. Linear(names, ByIndex(names))
    BY <1>1, ByIndexIs
<1>4. Overwritten(entries, more) = [n \in DOMAIN order |-> f(n)]
    BY DEF Overwritten
<1> HIDE DEF names
<1>5. c \in Nat /\ order \in [1..c -> names]
    BY <1>2, <1>3, RankedIs
<1> HIDE DEF order, c
<1>6. ASSUME NEW name \in Names PROVE Before(entries, name) \in Change
    <2> DEFINE at == {i \in DOMAIN entries : entries[i].name = name}
    <2>1. at # {} => entries[Min(at)] \in Entry
        BY FirstIs, Numbered
    <2>2. Before(entries, name) = [name |-> name, before |-> IF at = {} THEN None ELSE entries[Min(at)]]
        BY DEF Before
    <2> HIDE DEF at
    <2> QED
        BY <2>1, <2>2 DEF Change
<1>7. DOMAIN order = 1..c /\ \A n \in 1..c : f(n) \in Change
    BY <1>1, <1>5, <1>6
<1> HIDE DEF f
<1>8. [n \in DOMAIN order |-> f(n)] \in Seq(Change)
    BY <1>5, <1>7
<1> QED
    BY <1>4, <1>8

\* delete_selected.
LEMMA DeletedIs ==
    ASSUME NEW t, SoundTab(t)
    PROVE  /\ SoundTab(Deleted(t)) /\ Deleted(t).id = t.id /\ Deleted(t).rev = t.rev + 1
           /\ From(Deleted(t).entries, t.entries)
<1> DEFINE kept == DOMAIN t.entries \ t.selected
           left == Picked(t.entries, Ranked(kept, ByIndex(kept)))
           next == t.rev + 1
           past == Past(t, Selection(t))
           s == Selects(t, {}, 0, 0)
           u == [s EXCEPT !.entries = left, !.rev = next, !.resorted = FALSE,
                          !.category = None, !.past = past]
<1>1. t \in Tab /\ t.entries \in Seq(Entry) /\ next \in Nat
    BY DEF SoundTab, Tab
<1>2. /\ kept \subseteq DOMAIN t.entries /\ kept \subseteq Nat
      /\ Len(t.entries) \in Nat /\ 0 \in 0..Len(t.entries)
    BY <1>1, Numbered
<1>3. Linear(kept, ByIndex(kept))
    BY <1>2, ByIndexIs
<1>4. left \in Seq(Entry) /\ From(left, t.entries)
    BY <1>1, <1>2, <1>3, PickedIs
<1>5. past \in PastSet /\ PastOK(past)
    BY <1>1, SelectionIs, PastIs
<1>6. /\ SoundTab(s) /\ Seen(t, s) /\ s.selected = {} /\ s.anchor = 0 /\ s.cursor = 0
      /\ s.meant = KeysOf(t, {})
    BY <1>2, SelectsIs, SMTT(30)
<1>7. Deleted(t) = u
    <2>1. s.rev = t.rev
        BY <1>6 DEF Seen
    <2> HIDE DEF s
    <2> QED
        BY <2>1, Zenon DEF Deleted, s
<1>8. s \in Tab
    BY <1>6 DEF SoundTab
<1> HIDE DEF left, next, past, s
<1>9. u \in Tab
    BY <1>1, <1>4, <1>5, <1>8, ZenonT(30) DEF Tab
<1>10. /\ u.entries = left /\ u.rev = next /\ u.past = past /\ u.id = s.id
       /\ u.selected = s.selected /\ u.anchor = s.anchor /\ u.cursor = s.cursor
       /\ u.meant = s.meant
    BY <1>8 DEF Tab
<1> HIDE DEF u
<1>11. Placed(u)
    <2>1. Len(left) \in Nat
        BY <1>4
    <2>2. KeysOf(u, {}) = {} /\ KeysOf(t, {}) = {}
        BY DEF KeysOf
    <2>3. u.selected = {} /\ u.anchor = 0 /\ u.cursor = 0 /\ u.meant = {}
        BY <1>6, <1>10, <2>2
    <2>4. u.anchor \in 0..Len(u.entries) /\ u.cursor \in 0..Len(u.entries)
        BY <1>10, <2>1, <2>3
    <2> QED
        BY <2>2, <2>3, <2>4 DEF Placed, Landed
<1>12. SoundTab(u)
    BY <1>5, <1>9, <1>10, <1>11 DEF SoundTab
<1>13. u.id = t.id
    BY <1>6, <1>10 DEF Seen
<1> QED
    BY <1>4, <1>7, <1>10, <1>12, <1>13 DEF next

\* A round of an import, which replaces an entry or adds one.
LEMMA GrowsIs ==
    ASSUME NEW t, SoundTab(t), NEW es, Grown(es, t.entries)
    PROVE  LET u == [t EXCEPT !.entries = es] IN
           /\ SoundTab(u) /\ u.id = t.id /\ u.rev = t.rev /\ u.meant = t.meant
           /\ DOMAIN t.entries \subseteq DOMAIN u.entries
<1> DEFINE u == [t EXCEPT !.entries = es]
<1>1. t \in Tab /\ Placed(t) /\ t.entries \in Seq(Entry)
    BY DEF SoundTab, Tab
<1>2. es \in Seq(Entry)
    BY DEF Grown
<1>3. u \in Tab
    BY <1>1, <1>2, ZenonT(30) DEF Tab
<1>4. /\ u.entries = es /\ u.selected = t.selected /\ u.anchor = t.anchor
      /\ u.cursor = t.cursor /\ u.meant = t.meant /\ u.astray = t.astray
      /\ u.id = t.id /\ u.rev = t.rev /\ u.past = t.past
    BY <1>1 DEF Tab
<1> HIDE DEF u
<1>5. /\ DOMAIN t.entries = 1..Len(t.entries) /\ Len(t.entries) \in Nat
      /\ DOMAIN es = 1..Len(es) /\ Len(es) \in Nat
    BY <1>1, <1>2, Numbered
<1>6. Len(t.entries) <= Len(es)
    <2>1. CASE Len(t.entries) = 0
        BY <1>5, <2>1
    <2>2. CASE Len(t.entries) # 0
        <3>1. Len(t.entries) \in DOMAIN t.entries
            BY <1>5, <2>2
        <3>2. Len(t.entries) \in DOMAIN es
            BY <3>1 DEF Grown
        <3> QED
            BY <1>5, <3>2
    <2> QED
        BY <2>1, <2>2
<1>7. KeysOf(u, u.selected) = KeysOf(t, t.selected)
    <2>1. t.selected \cap DOMAIN es = t.selected /\ t.selected \cap DOMAIN t.entries = t.selected
        BY <1>1 DEF Placed, Landed, Grown
    <2>2. \A n \in t.selected : es[n].name = t.entries[n].name
        BY <1>1 DEF Placed, Landed, Grown
    <2>3. {es[n].name : n \in t.selected} = {t.entries[n].name : n \in t.selected}
        BY <2>2
    <2>4. /\ KeysOf(u, u.selected) = {es[n].name : n \in t.selected}
          /\ KeysOf(t, t.selected) = {t.entries[n].name : n \in t.selected}
        BY <1>4, <2>1, Zenon DEF KeysOf
    <2> QED
        BY <2>3, <2>4
<1>8. Placed(u)
    <2>1. u.selected \subseteq DOMAIN es
        BY <1>1, <1>4 DEF Placed, Landed, Grown
    <2>2. u.anchor \in 0..Len(es) /\ u.cursor \in 0..Len(es)
        BY <1>1, <1>4, <1>5, <1>6 DEF Placed, Landed
    <2> QED
        BY <1>1, <1>4, <1>7, <2>1, <2>2 DEF Placed, Landed
<1>9. SoundTab(u)
    BY <1>3, <1>4, <1>8 DEF SoundTab
<1> QED
    BY <1>4, <1>9 DEF Grown, u

\* The merge of an archive without resources.
LEMMA NothingIs ==
    ASSUME NEW t, SoundTab(t)
    PROVE  LET u == MergedNothing(t) IN
           /\ SoundTab(u) /\ u.id = t.id /\ u.rev = t.rev
           /\ DOMAIN t.entries = DOMAIN u.entries /\ From(u.entries, t.entries)
           /\ u.resorted = TRUE \/ (u.entries = t.entries /\ u.resorted = t.resorted)
<1> DEFINE es == Sorted(t.entries)
           u == [t EXCEPT !.entries = es, !.resorted = TRUE, !.astray = "merge"]
<1>1. t \in Tab /\ Placed(t) /\ t.entries \in Seq(Entry)
    BY DEF SoundTab, Tab
<1>2. es \in Seq(Entry) /\ Len(es) = Len(t.entries) /\ From(es, t.entries)
    BY <1>1, SortedIs
<1>3. CASE es = t.entries
    <2>1. MergedNothing(t) = t
        BY <1>3 DEF MergedNothing
    <2>2. From(t.entries, t.entries)
        BY DEF From
    <2> QED
        BY <2>1, <2>2
<1>4. CASE es # t.entries
    <2>1. MergedNothing(t) = u
        BY <1>4 DEF MergedNothing
    <2> HIDE DEF es
    <2>2. u \in Tab
        <3>1. "merge" \in Reasons
            BY DEF Reasons
        <3> QED
            BY <1>1, <1>2, <3>1, ZenonT(30) DEF Tab
    <2>3. /\ u.entries = es /\ u.selected = t.selected /\ u.anchor = t.anchor
          /\ u.cursor = t.cursor /\ u.astray = "merge" /\ u.resorted = TRUE
          /\ u.id = t.id /\ u.rev = t.rev /\ u.past = t.past
        BY <1>1 DEF Tab
    <2> HIDE DEF u
    <2>4. DOMAIN es = DOMAIN t.entries
        BY <1>1, <1>2, Numbered
    <2>5. Placed(u)
        BY <1>1, <1>2, <2>3, <2>4 DEF Placed, Landed
    <2>6. SoundTab(u)
        BY <2>2, <2>3, <2>5 DEF SoundTab
    <2> QED
        BY <1>2, <2>1, <2>3, <2>4, <2>6
<1> QED
    BY <1>3, <1>4

----------------------------------------------------------------------------
(* The invariant.                                                          *)

CacheSet ==
    [key : [id : Nat, rev : Nat, category : Categories \cup {None}, up : BOOLEAN], rows : Seq(Nat)]
PreviewSet == [key : Nat \X Names, shows : Versions, doubt : BOOLEAN]

\* Rows computed of this archive: they exist in it if nothing changed, and are
\* current, but for an import that is not over and a merge of nothing.
Fits(c, t, busy) ==
    c.key.id = t.id =>
        /\ c.key.rev <= t.rev
        /\ c.key.rev = t.rev =>
              /\ c.rows \in Seq(DOMAIN t.entries)
              /\ \/ busy
                 \/ t.resorted
                 \/ c.rows = Rows(t.entries, c.key.category, c.key.up)

\* A preview that is used for the i-th archive, if it holds these entries, is true.
Shown(preview, i, entries) ==
    \A n \in DOMAIN entries :
        preview.key = <<i, entries[n].name>> => preview.shows = entries[n].version

\* An image is dropped whenever another archive is shown; a model is kept.
ImageTrue(preview, i, archives) ==
    /\ preview \in PreviewSet \cup {None}
    /\ preview # None /\ i # 0 =>
          preview.doubt = TRUE \/ Shown(preview, i, archives[i].entries)
ModelTrue(preview, archives) ==
    /\ preview \in PreviewSet \cup {None}
    /\ preview # None =>
          \/ preview.doubt = TRUE
          \/ /\ preview.key[1] \in DOMAIN archives
             /\ \A i \in DOMAIN archives : Shown(preview, i, archives[i].entries)

Busy(i) == import # None /\ i = active /\ import.changed = TRUE

TabsOK ==
    /\ tabs \in Seq(Tab) /\ opened \in Nat
    /\ \A i \in DOMAIN tabs : SoundTab(tabs[i]) /\ tabs[i].id \in 1..opened
    /\ \A i, j \in DOMAIN tabs : tabs[i].id = tabs[j].id => i = j
    /\ active \in 0..Len(tabs) /\ (active = 0 => tabs = <<>>)
ImportOK ==
    import # None =>
        active # 0 /\ import \in Pending /\ PastOK(import.past)
CacheOK ==
    cache # None =>
        /\ cache \in CacheSet /\ cache.key.id <= opened
        /\ \A i \in DOMAIN tabs : Fits(cache, tabs[i], Busy(i))
FrameOK ==
    /\ pc \in {"input", "view", "details", "rows", "panicked"}
    /\ pc = "details" \/ (pc = "rows" /\ ~removed) =>
          active # 0 /\ cache.rows \in Seq(DOMAIN live.entries)
    /\ pc = "details" => ~removed /\ shown \in {0} \cup DOMAIN live.entries
ImageOK == ImageTrue(image, active, tabs)
ModelOK == ModelTrue(model, tabs)

Inv == TabsOK /\ ImportOK /\ CacheOK /\ FrameOK /\ ImageOK /\ ModelOK

\* What a command or a click may make of an archive: unless there is a new
\* revision, no row is lost, and the rows are the same but in the cases Fits
\* excuses.
Keeps(t, u, was, is) ==
    \/ u.rev > t.rev
    \/ /\ u.rev = t.rev /\ DOMAIN t.entries \subseteq DOMAIN u.entries
       /\ \/ u.resorted
          \/ is
          \/ u.entries = t.entries /\ u.resorted = t.resorted /\ (was => is)

LEMMA FitsIs ==
    ASSUME NEW c \in CacheSet, NEW t \in Tab, NEW u \in Tab, u.id = t.id,
           NEW was \in BOOLEAN, NEW is \in BOOLEAN, Fits(c, t, was), Keeps(t, u, was, is)
    PROVE  Fits(c, u, is)
<1> SUFFICES ASSUME c.key.id = u.id
             PROVE  /\ c.key.rev <= u.rev
                    /\ c.key.rev = u.rev =>
                          /\ c.rows \in Seq(DOMAIN u.entries)
                          /\ is \/ u.resorted \/ c.rows = Rows(u.entries, c.key.category, c.key.up)
    BY DEF Fits
<1>1. /\ c.key.rev \in Nat /\ t.rev \in Nat /\ u.rev \in Nat
      /\ t.resorted \in BOOLEAN /\ u.resorted \in BOOLEAN
    BY DEF CacheSet, Tab
<1>2. /\ c.key.rev <= t.rev
      /\ c.key.rev = t.rev =>
            /\ c.rows \in Seq(DOMAIN t.entries)
            /\ was \/ t.resorted \/ c.rows = Rows(t.entries, c.key.category, c.key.up)
    BY DEF Fits
<1>3. CASE u.rev > t.rev
    <2>1. c.key.rev <= u.rev /\ c.key.rev # u.rev
        BY <1>1, <1>2, <1>3
    <2> QED
        BY <2>1
<1>4. CASE ~(u.rev > t.rev)
    <2>1. /\ u.rev = t.rev /\ DOMAIN t.entries \subseteq DOMAIN u.entries
          /\ \/ u.resorted
             \/ is
             \/ u.entries = t.entries /\ u.resorted = t.resorted /\ (was => is)
        BY <1>4 DEF Keeps
    <2>2. ASSUME c.key.rev = u.rev
          PROVE  /\ c.rows \in Seq(DOMAIN u.entries)
                 /\ is \/ u.resorted \/ c.rows = Rows(u.entries, c.key.category, c.key.up)
        <3>1. /\ c.rows \in Seq(DOMAIN t.entries)
              /\ was \/ t.resorted \/ c.rows = Rows(t.entries, c.key.category, c.key.up)
            BY <1>2, <2>1, <2>2
        <3>2. c.rows \in Seq(DOMAIN u.entries)
            <4>1. \A A, B : \A s \in Seq(A) : A \subseteq B => s \in Seq(B)
                OBVIOUS
            <4> QED
                BY <2>1, <3>1, <4>1, Zenon
        <3>3. is \/ u.resorted \/ c.rows = Rows(u.entries, c.key.category, c.key.up)
            BY <2>1, <3>1, Zenon
        <3> QED
            BY <3>2, <3>3
    <2> QED
        BY <1>2, <2>1, <2>2
<1> QED
    BY <1>3, <1>4

\* A preview is as true of entries that come from those it is true of.
LEMMA ShownIs ==
    ASSUME NEW preview, NEW i, NEW entries, NEW es, From(es, entries),
           Shown(preview, i, entries)
    PROVE  Shown(preview, i, es)
<1> SUFFICES ASSUME NEW n \in DOMAIN es, preview.key = <<i, es[n].name>>
             PROVE  preview.shows = es[n].version
    BY DEF Shown
<1>1. PICK m \in DOMAIN entries : es[n] = entries[m]
    BY DEF From
<1> QED
    BY <1>1 DEF Shown

LEMMA PreviewsKept ==
    ASSUME NEW archives \in Seq(Tab), NEW a \in DOMAIN archives, NEW u \in Tab,
           From(u.entries, archives[a].entries), NEW preview
    PROVE  /\ ImageTrue(preview, a, archives) => ImageTrue(preview, a, [archives EXCEPT ![a] = u])
           /\ ModelTrue(preview, archives) => ModelTrue(preview, [archives EXCEPT ![a] = u])
<1> DEFINE after == [archives EXCEPT ![a] = u]
<1>1. /\ DOMAIN after = DOMAIN archives /\ after[a] = u
      /\ \A i \in DOMAIN archives : i # a => after[i] = archives[i]
    OBVIOUS
<1> HIDE DEF after
<1>2. \A i \in DOMAIN archives : From(after[i].entries, archives[i].entries)
    BY <1>1 DEF From
<1>3. \A i \in DOMAIN archives :
         Shown(preview, i, archives[i].entries) => Shown(preview, i, after[i].entries)
    BY <1>2, ShownIs
<1> QED
    BY <1>1, <1>3 DEF ImageTrue, ModelTrue, after

\* Nothing is said of a model in doubt, nor of no preview.
LEMMA DoubtIs ==
    ASSUME NEW preview, NEW archives, ModelTrue(preview, archives), NEW others
    PROVE  ModelTrue(Doubtful(preview), others)
<1>1. CASE preview = None
    BY <1>1 DEF Doubtful, ModelTrue
<1>2. CASE preview # None
    <2> DEFINE p == [preview EXCEPT !.doubt = TRUE]
    <2>1. preview \in PreviewSet
        BY <1>2 DEF ModelTrue
    <2>2. p \in PreviewSet /\ p.doubt = TRUE
        BY <2>1 DEF PreviewSet
    <2>3. Doubtful(preview) = p
        BY <1>2 DEF Doubtful
    <2> HIDE DEF p
    <2> QED
        BY <2>2, <2>3 DEF ModelTrue
<1> QED
    BY <1>1, <1>2

LEMMA NoPreview ==
    ASSUME NEW i, NEW archives
    PROVE  ImageTrue(None, i, archives) /\ ModelTrue(None, archives)
BY DEF ImageTrue, ModelTrue

----------------------------------------------------------------------------
(* The active archive is changed.                                          *)

LEMMA Active ==
    ASSUME TabsOK, active # 0
    PROVE  active \in DOMAIN tabs /\ SoundTab(live) /\ live \in Tab /\ live.entries \in Seq(Entry)
<1>1. active \in DOMAIN tabs
    BY DEF TabsOK
<1>2. SoundTab(live)
    BY <1>1 DEF TabsOK, live
<1> QED
    BY <1>1, <1>2 DEF SoundTab, Tab

LEMMA TabsChange ==
    ASSUME TabsOK, active # 0, NEW u, SoundTab(u), u.id = live.id,
           tabs' = [tabs EXCEPT ![active] = u], UNCHANGED <<active, opened>>
    PROVE  /\ TabsOK'
           /\ DOMAIN tabs' = DOMAIN tabs /\ tabs'[active] = u
           /\ \A i \in DOMAIN tabs : i # active => tabs'[i] = tabs[i]
           /\ \A i \in DOMAIN tabs : tabs'[i].id = tabs[i].id
<1>1. active \in DOMAIN tabs /\ u \in Tab /\ tabs \in Seq(Tab)
    BY Active DEF SoundTab, TabsOK
<1>2. /\ tabs' \in Seq(Tab) /\ DOMAIN tabs' = DOMAIN tabs /\ tabs'[active] = u
      /\ \A i \in DOMAIN tabs : i # active => tabs'[i] = tabs[i]
    BY <1>1
<1>3. Len(tabs') = Len(tabs)
    BY <1>1
<1>4. \A i \in DOMAIN tabs : tabs'[i].id = tabs[i].id
    BY <1>2 DEF live
<1>5. \A i \in DOMAIN tabs : SoundTab(tabs'[i])
    BY <1>2 DEF TabsOK
<1>6. tabs = <<>> => tabs' = <<>>
    BY <1>1
<1> QED
    BY <1>2, <1>3, <1>4, <1>5, <1>6 DEF TabsOK

LEMMA CacheKept ==
    ASSUME TabsOK, CacheOK, active # 0, NEW u, SoundTab(u), u.id = live.id,
           tabs' = [tabs EXCEPT ![active] = u], UNCHANGED <<active, opened, cache>>,
           NEW was \in BOOLEAN, was = Busy(active), NEW is \in BOOLEAN, is = Busy(active)',
           Keeps(live, u, was, is)
    PROVE  CacheOK'
<1> SUFFICES ASSUME cache # None PROVE CacheOK'
    BY DEF CacheOK
<1>1. /\ DOMAIN tabs' = DOMAIN tabs /\ tabs'[active] = u
      /\ \A i \in DOMAIN tabs : i # active => tabs'[i] = tabs[i]
    BY TabsChange
<1>2. /\ cache \in CacheSet /\ cache.key.id <= opened
      /\ \A i \in DOMAIN tabs : Fits(cache, tabs[i], Busy(i))
    BY DEF CacheOK
<1>3. active \in DOMAIN tabs /\ live \in Tab /\ u \in Tab
    BY Active DEF SoundTab
<1>4. Fits(cache, u, is)
    <2>1. Fits(cache, live, was)
        BY <1>2, <1>3 DEF live
    <2> QED
        BY <1>2, <1>3, <2>1, FitsIs
<1>5. ASSUME NEW i \in DOMAIN tabs PROVE Fits(cache, tabs'[i], Busy(i)')
    <2>1. CASE i = active
        BY <1>1, <1>4, <2>1
    <2>2. CASE i # active
        <3>1. ~Busy(i) /\ ~Busy(i)'
            BY <2>2 DEF Busy
        <3>2. Fits(cache, tabs[i], FALSE)
            BY <1>2, <3>1 DEF Fits
        <3>3. tabs'[i] = tabs[i]
            BY <1>1, <2>2
        <3> QED
            BY <3>1, <3>2, <3>3 DEF Fits
    <2> QED
        BY <2>1, <2>2
<1> QED
    BY <1>1, <1>2, <1>5 DEF CacheOK

\* A click: the entries are the same, and nothing else is touched.
LEMMA ClickIs ==
    ASSUME Inv, active # 0, NEW u, SoundTab(u), Seen(live, u),
           tabs' = [tabs EXCEPT ![active] = u],
           UNCHANGED <<active, opened, import, cache, image, model, shown, removed>>,
           pc' = pc \/ pc' = "input"
    PROVE  Inv'
<1>1. TabsOK /\ ImportOK /\ CacheOK /\ FrameOK /\ ImageOK /\ ModelOK
    BY DEF Inv
<1>2. /\ active \in DOMAIN tabs /\ live \in Tab /\ u \in Tab /\ tabs \in Seq(Tab)
    BY <1>1, Active DEF SoundTab, TabsOK
<1>3. u.id = live.id /\ u.entries = live.entries /\ u.rev = live.rev /\ u.resorted = live.resorted
    BY DEF Seen
<1>4. TabsOK' /\ tabs'[active] = u
    BY <1>1, <1>3, TabsChange
<1>5. ImportOK'
    BY <1>1 DEF ImportOK
<1>6. CacheOK'
    <2> DEFINE b == Busy(active)
    <2>1. b \in BOOLEAN /\ b = Busy(active)'
        BY DEF Busy
    <2>2. Keeps(live, u, b, b)
        BY <1>3 DEF Keeps
    <2> HIDE DEF b
    <2>3. b = Busy(active)
        BY DEF b
    <2> QED
        BY <1>1, <1>3, <2>1, <2>2, <2>3, CacheKept
<1>7. FrameOK'
    <2>1. live' = u
        BY <1>4 DEF live
    <2>2. pc' = "details" => pc = "details"
        OBVIOUS
    <2>3. pc' = "rows" => pc = "rows"
        OBVIOUS
    <2> QED
        BY <1>1, <1>3, <2>1, <2>2, <2>3 DEF FrameOK
<1>8. From(u.entries, tabs[active].entries)
    BY <1>3 DEF From, live
<1>9. ImageOK' /\ ModelOK'
    BY <1>1, <1>2, <1>8, PreviewsKept DEF ImageOK, ModelOK
<1> QED
    BY <1>4, <1>5, <1>6, <1>7, <1>9 DEF Inv

\* A command, or a deletion: the frame is begun again.
LEMMA EditIs ==
    ASSUME Inv, active # 0, NEW u, SoundTab(u), u.id = live.id,
           tabs' = [tabs EXCEPT ![active] = u], UNCHANGED <<active, opened, cache>>,
           NEW was \in BOOLEAN, was = Busy(active), NEW is \in BOOLEAN, is = Busy(active)',
           Keeps(live, u, was, is),
           ImportOK', ImageOK', ModelOK',
           pc' = "view" \/ pc' = "input" \/ (pc' = "rows" /\ removed' = TRUE)
    PROVE  Inv'
<1>1. TabsOK /\ CacheOK
    BY DEF Inv
<1>2. TabsOK' /\ CacheOK'
    BY <1>1, TabsChange, CacheKept
<1>3. FrameOK'
    BY DEF FrameOK
<1> QED
    BY <1>2, <1>3 DEF Inv

----------------------------------------------------------------------------
(* Clicks and keys.                                                        *)

\* Where rows are drawn of entries.
Drawing == pc = "rows" /\ ~removed

LEMMA DrawingIs ==
    ASSUME Inv, Drawing
    PROVE  /\ active # 0 /\ active \in DOMAIN tabs /\ SoundTab(live)
           /\ live.entries \in Seq(Entry) /\ Len(live.entries) \in Nat
           /\ DOMAIN live.entries = 1..Len(live.entries)
           /\ live.selected \subseteq DOMAIN live.entries
           /\ live.anchor \in 0..Len(live.entries) /\ live.cursor \in 0..Len(live.entries)
           /\ rows \in Seq(DOMAIN live.entries)
           /\ DOMAIN rows = 1..Len(rows) /\ Len(rows) \in Nat
           /\ \A n \in DOMAIN rows :
                 rows[n] \in DOMAIN live.entries /\ rows[n] \in 0..Len(live.entries)
<1>1. active # 0 /\ cache.rows \in Seq(DOMAIN live.entries)
    BY DEF Inv, FrameOK, Drawing
<1>2. active \in DOMAIN tabs /\ SoundTab(live) /\ live.entries \in Seq(Entry)
    BY <1>1, Active DEF Inv
<1>3. DOMAIN live.entries = 1..Len(live.entries) /\ Len(live.entries) \in Nat
    BY <1>2, Numbered
<1>4. rows \in Seq(DOMAIN live.entries)
    BY <1>1 DEF rows
<1>5. /\ DOMAIN rows = 1..Len(rows) /\ Len(rows) \in Nat
      /\ \A n \in DOMAIN rows : rows[n] \in DOMAIN live.entries
    BY <1>4
<1>6. \A n \in DOMAIN rows : rows[n] \in 0..Len(live.entries)
    BY <1>3, <1>5
<1> QED
    BY <1>1, <1>2, <1>3, <1>4, <1>5, <1>6 DEF SoundTab, Placed, Landed

\* What is chosen exists.
LEMMA ChoosesKeeps ==
    ASSUME Inv, Drawing, NEW selected, selected \subseteq DOMAIN live.entries,
           NEW anchor \in 0..Len(live.entries), NEW cursor \in 0..Len(live.entries),
           Chooses(selected, anchor, cursor)
    PROVE  Inv'
<1> DEFINE u == Selects(live, selected, anchor, cursor)
<1>1. active # 0 /\ active \in DOMAIN tabs /\ SoundTab(live)
    BY DrawingIs
<1>2. SoundTab(u) /\ Seen(live, u)
    BY <1>1, SelectsIs
<1>3. tabs' = [tabs EXCEPT ![active] = u]
    BY DEF Chooses, live
<1>4. /\ UNCHANGED <<active, opened, import, cache, image, model, shown, removed>>
      /\ pc' = "input"
    BY DEF Chooses, Drawn
<1> HIDE DEF u
<1> QED
    BY <1>1, <1>2, <1>3, <1>4, ClickIs

LEMMA PositionIs ==
    ASSUME Inv, Drawing, NEW i
    PROVE  Position(i) \in 0..Len(rows) /\ (Position(i) # 0 => Position(i) \in DOMAIN rows)
<1>1. DOMAIN rows = 1..Len(rows) /\ Len(rows) \in Nat
    BY DrawingIs
<1> DEFINE S == {n \in DOMAIN rows : rows[n] = i}
<1>2. S \subseteq 1..Len(rows)
    BY <1>1
<1>3. Position(i) = Lowest(S)
    BY DEF Position
<1> HIDE DEF S
<1> QED
    BY <1>1, <1>2, <1>3, LowestIs

LEMMA BetweenIs ==
    ASSUME Inv, Drawing, NEW m \in DOMAIN rows, NEW n \in DOMAIN rows
    PROVE  Between(m, n) \subseteq DOMAIN live.entries
<1>1. /\ DOMAIN rows = 1..Len(rows) /\ Len(rows) \in Nat
      /\ \A k \in DOMAIN rows : rows[k] \in DOMAIN live.entries
    BY DrawingIs
<1>2. m..n \subseteq DOMAIN rows /\ n..m \subseteq DOMAIN rows
    BY <1>1
<1> QED
    BY <1>1, <1>2 DEF Between

LEMMA SelectAllKeeps ==
    ASSUME Inv, SelectAll
    PROVE  Inv'
<1> DEFINE all == {rows[n] : n \in DOMAIN rows}
           first == IF rows = <<>> THEN 0 ELSE rows[1]
<1>1. Chooses(all, first, first)
    BY DEF SelectAll
<1>2. Drawing
    BY <1>1 DEF Chooses, Drawn, Drawing
<1>3. /\ rows \in Seq(DOMAIN live.entries) /\ Len(live.entries) \in Nat
      /\ \A n \in DOMAIN rows :
            rows[n] \in DOMAIN live.entries /\ rows[n] \in 0..Len(live.entries)
    BY <1>2, DrawingIs
<1>4. all \subseteq DOMAIN live.entries
    BY <1>3
<1>5. first \in 0..Len(live.entries)
    <2>1. CASE rows = <<>>
        BY <1>3, <2>1
    <2>2. CASE rows # <<>>
        <3>1. 1 \in DOMAIN rows
            BY <1>3, <2>2
        <3> QED
            BY <1>3, <2>2, <3>1
    <2> QED
        BY <2>1, <2>2
<1> HIDE DEF all, first
<1> QED
    BY <1>1, <1>2, <1>4, <1>5, ChoosesKeeps

LEMMA RowClicksKeep ==
    ASSUME Inv, pc = "rows", NEW n \in DOMAIN rows,
           Jump(n) \/ Click(n) \/ CtrlClick(n) \/ \E additive \in BOOLEAN : ShiftClick(n, additive)
    PROVE  Inv'
<1> DEFINE i == rows[n]
<1>1. Drawing
    BY DEF Jump, Click, CtrlClick, ShiftClick, Chooses, Drawing
<1>2. /\ i \in DOMAIN live.entries /\ i \in 0..Len(live.entries)
      /\ live.selected \subseteq DOMAIN live.entries /\ live.anchor \in 0..Len(live.entries)
    BY <1>1, DrawingIs
<1>3. CASE Jump(n) \/ Click(n)
    <2>1. Chooses({i}, i, i)
        BY <1>3 DEF Jump, Click
    <2>2. {i} \subseteq DOMAIN live.entries
        BY <1>2
    <2> HIDE DEF i
    <2> QED
        BY <1>1, <1>2, <2>1, <2>2, ChoosesKeeps
<1>4. CASE CtrlClick(n)
    <2> DEFINE s == IF i \in live.selected THEN live.selected \ {i} ELSE live.selected \cup {i}
    <2>1. Chooses(s, i, i)
        BY <1>4 DEF CtrlClick
    <2>2. s \subseteq DOMAIN live.entries
        BY <1>2
    <2> HIDE DEF i, s
    <2> QED
        BY <1>1, <1>2, <2>1, <2>2, ChoosesKeeps
<1>5. CASE \E additive \in BOOLEAN : ShiftClick(n, additive)
    <2>1. PICK additive \in BOOLEAN : ShiftClick(n, additive)
        BY <1>5
    <2> DEFINE from == Position(live.anchor)
               before == IF additive THEN live.selected ELSE {}
               s == before \cup (IF from = 0 THEN {i} ELSE Between(from, n))
               a == IF live.anchor = 0 THEN i ELSE live.anchor
    <2>2. Chooses(s, a, i)
        BY <2>1 DEF ShiftClick
    <2>3. a \in 0..Len(live.entries)
        BY <1>2
    <2>4. from # 0 => from \in DOMAIN rows
        BY <1>1, PositionIs
    <2>5. from # 0 => Between(from, n) \subseteq DOMAIN live.entries
        BY <1>1, <2>4, BetweenIs
    <2> HIDE DEF from
    <2>6. s \subseteq DOMAIN live.entries
        BY <1>2, <2>5
    <2> HIDE DEF i, s, a
    <2> QED
        BY <1>1, <1>2, <2>2, <2>3, <2>6, ChoosesKeeps
<1> QED
    BY <1>3, <1>4, <1>5

\* The arrow keys stay among the rows.
LEMMA TargetIs ==
    ASSUME Inv, Drawing, rows # <<>>, NEW down \in BOOLEAN
    PROVE  Target(down) \in DOMAIN rows
<1>1. DOMAIN rows = 1..Len(rows) /\ Len(rows) \in Nat /\ rows \in Seq(DOMAIN live.entries)
    BY DrawingIs
<1>2. Len(rows) >= 1
    BY <1>1
<1>3. Current \in 0..Len(rows)
    BY PositionIs DEF Current
<1>4. CASE Current = 0
    <2>1. Target(down) = IF down THEN 1 ELSE Len(rows)
        BY <1>4 DEF Target
    <2> QED
        BY <1>1, <1>2, <2>1
<1>5. CASE Current # 0 /\ down
    <2> DEFINE S == {Current + 1, Len(rows)}
    <2>1. S \subseteq Nat /\ S # {} /\ \A j \in S : j >= 1
        BY <1>1, <1>2, <1>3, <1>5
    <2>2. Len(rows) \in S
        OBVIOUS
    <2>3. Target(down) = Min(S)
        BY <1>5 DEF Target
    <2> HIDE DEF S
    <2>4. Min(S) \in S /\ \A j \in S : Min(S) <= j
        BY <2>1, MinIs
    <2>5. Min(S) \in Nat /\ Min(S) >= 1 /\ Min(S) <= Len(rows)
        BY <2>1, <2>2, <2>4
    <2>6. Min(S) \in 1..Len(rows)
        BY ONLY <1>1, <2>5
    <2> QED
        BY ONLY <1>1, <2>3, <2>6
<1>6. CASE Current # 0 /\ ~down
    <2> DEFINE S == {Current - 1, 1}
    <2>1. S \subseteq 0..Len(rows) /\ S # {}
        BY <1>1, <1>2, <1>3, <1>6
    <2>2. 1 \in S
        OBVIOUS
    <2>3. Target(down) = Max(S)
        BY <1>6 DEF Target
    <2> HIDE DEF S
    <2>4. Max(S) \in S /\ \A j \in S : j <= Max(S)
        BY <1>1, <2>1, MaxIs
    <2>5. Max(S) \in Nat /\ Max(S) >= 1 /\ Max(S) <= Len(rows)
        <3>1. Max(S) \in 0..Len(rows) /\ 1 <= Max(S) /\ Len(rows) \in Nat
            BY ONLY <1>1, <2>1, <2>2, <2>4
        <3> QED
            BY ONLY <3>1
    <2>6. Max(S) \in 1..Len(rows)
        BY ONLY <1>1, <2>5
    <2> QED
        BY ONLY <1>1, <2>3, <2>6
<1> QED
    BY <1>4, <1>5, <1>6

LEMMA ArrowKeeps ==
    ASSUME Inv, NEW down \in BOOLEAN, NEW extend \in BOOLEAN, NEW additive \in BOOLEAN,
           Arrow(down, extend, additive)
    PROVE  Inv'
<1> DEFINE n == Target(down)
           i == rows[n]
           before == IF additive THEN live.selected ELSE {}
           from == IF Position(live.anchor) # 0 THEN Position(live.anchor)
                   ELSE IF Position(live.cursor) # 0 THEN Position(live.cursor) ELSE n
           anchor == IF Position(live.anchor) # 0 THEN live.anchor ELSE rows[from]
           other == IF additive /\ live.anchor # 0 THEN live.anchor ELSE i
<1>1. pc = "rows" /\ rows # <<>>
    BY DEF Arrow
<1>2. IF extend THEN Chooses(before \cup Between(from, n), anchor, i)
      ELSE Chooses(before \cup {i}, other, i)
    BY DEF Arrow
<1>3. Drawing
    BY <1>1, <1>2 DEF Chooses, Drawing
<1>4. /\ live.selected \subseteq DOMAIN live.entries /\ live.anchor \in 0..Len(live.entries)
      /\ \A k \in DOMAIN rows :
            rows[k] \in DOMAIN live.entries /\ rows[k] \in 0..Len(live.entries)
    BY <1>3, DrawingIs
<1>5. n \in DOMAIN rows
    BY <1>1, <1>3, TargetIs
<1>6. /\ Position(live.anchor) # 0 => Position(live.anchor) \in DOMAIN rows
      /\ Position(live.cursor) # 0 => Position(live.cursor) \in DOMAIN rows
    BY <1>3, PositionIs
<1> HIDE DEF n
<1>7. from \in DOMAIN rows
    BY <1>5, <1>6
<1> HIDE DEF from
<1>8. Between(from, n) \subseteq DOMAIN live.entries
    BY <1>3, <1>5, <1>7, BetweenIs
<1>9. /\ anchor \in 0..Len(live.entries) /\ other \in 0..Len(live.entries)
      /\ i \in 0..Len(live.entries) /\ i \in DOMAIN live.entries
    BY <1>4, <1>5, <1>7
<1> HIDE DEF i, anchor, other
<1>10. before \cup Between(from, n) \subseteq DOMAIN live.entries
    BY <1>4, <1>8
<1>11. before \cup {i} \subseteq DOMAIN live.entries
    BY <1>4, <1>9
<1> HIDE DEF before
<1> DEFINE A == before \cup Between(from, n)
           B == before \cup {i}
<1>12. A \subseteq DOMAIN live.entries /\ B \subseteq DOMAIN live.entries
    BY <1>10, <1>11
<1>13. IF extend THEN Chooses(A, anchor, i) ELSE Chooses(B, other, i)
    BY <1>2
<1> HIDE DEF A, B
<1>14. CASE extend
    BY <1>3, <1>9, <1>12, <1>13, <1>14, ChoosesKeeps
<1>15. CASE ~extend
    BY <1>3, <1>9, <1>12, <1>13, <1>15, ChoosesKeeps
<1> QED
    BY <1>14, <1>15

LEMMA SetSortKeeps ==
    ASSUME Inv, SetSort
    PROVE  Inv'
<1> DEFINE up == ~live.up
           u == [live EXCEPT !.up = up]
<1>1. Drawing
    BY DEF SetSort, Drawn, Drawing
<1>2. active # 0 /\ active \in DOMAIN tabs /\ SoundTab(live)
    BY <1>1, DrawingIs
<1>3. up \in BOOLEAN
    OBVIOUS
<1>4. tabs' = [tabs EXCEPT ![active] = u]
    <2>1. tabs' = [tabs EXCEPT ![active].up = ~@]
        BY DEF SetSort
    <2> QED
        BY <2>1, Zenon DEF live
<1>5. /\ UNCHANGED <<active, opened, import, cache, image, model, shown, removed>>
      /\ pc' = "input"
    BY DEF SetSort, Drawn
<1> HIDE DEF up
<1>6. SoundTab(u) /\ Seen(live, u)
    BY <1>2, <1>3, UpIs
<1> HIDE DEF u
<1> QED
    BY <1>2, <1>4, <1>5, <1>6, ClickIs

LEMMA ClickCategoryKeeps ==
    ASSUME Inv, NEW category \in Categories \cup {None}, ClickCategory(category)
    PROVE  Inv'
<1> DEFINE s == IF category = None THEN live ELSE Selects(live, {}, 0, 0)
           u == [s EXCEPT !.category = category]
<1>1. pc = "details" /\ TabsOK /\ FrameOK
    BY DEF ClickCategory, Inv
<1>2. active # 0
    BY <1>1 DEF FrameOK
<1>3. active \in DOMAIN tabs /\ SoundTab(live) /\ live.entries \in Seq(Entry)
    BY <1>1, <1>2, Active
<1>4. SoundTab(s) /\ Seen(live, s)
    <2>1. 0 \in 0..Len(live.entries)
        BY <1>3
    <2>2. SoundTab(Selects(live, {}, 0, 0)) /\ Seen(live, Selects(live, {}, 0, 0))
        BY <1>3, <2>1, SelectsIs
    <2>3. Seen(live, live)
        BY DEF Seen
    <2> QED
        BY <1>3, <2>2, <2>3
<1>5. tabs' = [tabs EXCEPT ![active] = u]
    BY Zenon DEF ClickCategory, live
<1>6. /\ UNCHANGED <<active, opened, import, cache, image, model, shown, removed>>
      /\ pc' = pc
    BY DEF ClickCategory
<1> HIDE DEF s
<1>7. SoundTab(u) /\ Seen(s, u)
    BY <1>4, CategoryIs
<1> HIDE DEF u
<1>8. Seen(live, u)
    BY <1>4, <1>7 DEF Seen
<1> QED
    BY <1>2, <1>5, <1>6, <1>7, <1>8, ClickIs

----------------------------------------------------------------------------
(* The details pane and the rows.                                          *)

\* What is shown in the details pane is true, when it is shown.
LEMMA ShowsIs ==
    ASSUME Inv, active # 0, shown \in DOMAIN live.entries, NEW preview \in PreviewSet \cup {None}
    PROVE  /\ ImageTrue(preview, active, tabs) => ImageTrue(Shows(preview), active, tabs)
           /\ ModelTrue(preview, tabs) => ModelTrue(Shows(preview), tabs)
<1> DEFINE b == Twice(shown)
           p == [key |-> PreviewKey(shown), shows |-> live.entries[shown].version, doubt |-> b]
<1>1. /\ active \in DOMAIN tabs /\ active \in Nat /\ live.entries \in Seq(Entry)
      /\ SoundTab(live) /\ live = tabs[active]
    BY Active DEF Inv, TabsOK, live
<1>2. live.entries[shown] \in Entry
    BY <1>1
<1>3. p \in PreviewSet
    <2>1. b \in BOOLEAN
        BY DEF Twice
    <2> HIDE DEF b
    <2> QED
        BY <1>1, <1>2, <2>1 DEF PreviewSet, PreviewKey, Entry
<1>4. /\ p.key = <<active, live.entries[shown].name>> /\ p.shows = live.entries[shown].version
      /\ p.doubt = TRUE \/ ~Twice(shown)
    BY Zenon DEF PreviewKey
<1> HIDE DEF p
<1>5. ASSUME ~Twice(shown), NEW i \in DOMAIN tabs PROVE Shown(p, i, tabs[i].entries)
    <2> SUFFICES ASSUME NEW n \in DOMAIN tabs[i].entries, p.key = <<i, tabs[i].entries[n].name>>
                 PROVE  p.shows = tabs[i].entries[n].version
        BY DEF Shown
    <2>1. i = active /\ tabs[i].entries[n].name = live.entries[shown].name
        BY <1>4
    <2>2. n \in DOMAIN live.entries /\ live.entries[n].name = live.entries[shown].name
        BY <1>1, <2>1
    <2>3. n = shown
        BY <1>5, <2>2 DEF Twice
    <2> QED
        BY <1>1, <1>4, <2>1, <2>3
<1>6. p.key[1] \in DOMAIN tabs
    BY <1>1, <1>4
<1>7. ImageTrue(p, active, tabs) /\ ModelTrue(p, tabs)
    BY <1>1, <1>3, <1>4, <1>5, <1>6 DEF ImageTrue, ModelTrue
<1>8. Shows(preview) = preview \/ Shows(preview) = p
    BY DEF Shows, p
<1> QED
    BY <1>7, <1>8

LEMMA PreviewIs ==
    ASSUME Inv, pc = "details", Preview
    PROVE  ImageTrue(image', active, tabs) /\ ModelTrue(model', tabs)
<1>1. active # 0 /\ shown \in {0} \cup DOMAIN live.entries
    BY DEF Inv, FrameOK
<1>2. ImageTrue(image, active, tabs) /\ ModelTrue(model, tabs)
    BY DEF Inv, ImageOK, ModelOK
<1>3. image \in PreviewSet \cup {None} /\ model \in PreviewSet \cup {None}
    BY <1>2 DEF ImageTrue, ModelTrue
<1>4. CASE shown = 0
    <2>1. image' = image /\ model' = model
        BY <1>4 DEF Preview
    <2> QED
        BY <1>2, <2>1
<1>5. CASE shown # 0
    <2>1. shown \in DOMAIN live.entries
        BY <1>1, <1>5
    <2>2. image' = image \/ image' = Shows(image)
        BY DEF Preview
    <2>3. model' = model \/ model' = Shows(model)
        BY DEF Preview
    <2>4. ImageTrue(Shows(image), active, tabs) /\ ModelTrue(Shows(model), tabs)
        BY <1>1, <1>2, <1>3, <2>1, ShowsIs
    <2> QED
        BY <1>2, <2>2, <2>3, <2>4
<1> QED
    BY <1>4, <1>5

LEMMA DetailsKeeps ==
    ASSUME Inv, Details
    PROVE  Inv'
<1>1. /\ pc = "details" /\ pc' = "rows" /\ Preview
      /\ UNCHANGED <<tabs, active, opened, import, cache, removed>>
    BY DEF Details
<1>2. ImageOK' /\ ModelOK'
    BY <1>1, PreviewIs DEF ImageOK, ModelOK
<1>3. TabsOK' /\ ImportOK' /\ CacheOK'
    <2>1. \A i : Busy(i)' = Busy(i)
        BY <1>1 DEF Busy
    <2> QED
        BY <1>1, <2>1 DEF Inv, TabsOK, ImportOK, CacheOK
<1>4. FrameOK'
    <2>1. live' = live
        BY <1>1 DEF live
    <2> QED
        BY <1>1, <2>1 DEF Inv, FrameOK
<1> QED
    BY <1>2, <1>3, <1>4 DEF Inv

\* A deletion, by a command, in the details pane or below the rows.
LEMMA DeletesKeeps ==
    ASSUME Inv, active # 0, Deletes, UNCHANGED <<active, opened, import, cache>>,
           ImageTrue(image', active, tabs), ModelTrue(model', tabs),
           pc' = "view" \/ pc' = "input" \/ (pc' = "rows" /\ removed' = TRUE)
    PROVE  Inv'
<1> DEFINE u == Deleted(live)
           b == Busy(active)
<1>1. /\ active \in DOMAIN tabs /\ SoundTab(live) /\ live = tabs[active] /\ tabs \in Seq(Tab)
      /\ live.rev \in Nat
    BY Active DEF Inv, TabsOK, live, Tab
<1>2. /\ SoundTab(u) /\ u.id = live.id /\ u.rev = live.rev + 1
      /\ From(u.entries, live.entries)
    BY <1>1, DeletedIs
<1>3. tabs' = [tabs EXCEPT ![active] = u]
    BY DEF Deletes
<1> HIDE DEF u
<1>4. b \in BOOLEAN /\ b = Busy(active) /\ b = Busy(active)'
    BY DEF Busy
<1>5. Keeps(live, u, b, b)
    <2>1. u.rev > live.rev
        BY <1>1, <1>2
    <2> QED
        BY <2>1 DEF Keeps
<1> HIDE DEF b
<1>6. ImportOK'
    BY DEF Inv, ImportOK
<1>7. u \in Tab /\ From(u.entries, tabs[active].entries)
    BY <1>1, <1>2 DEF SoundTab
<1>8. ImageOK' /\ ModelOK'
    BY <1>1, <1>3, <1>7, PreviewsKept DEF ImageOK, ModelOK
<1> QED
    BY <1>2, <1>3, <1>4, <1>5, <1>6, <1>8, EditIs

LEMMA DeleteKeeps ==
    ASSUME Inv, Delete \/ DetailsRemove \/ DeleteButton
    PROVE  Inv'
<1>1. ImageTrue(image, active, tabs) /\ ModelTrue(model, tabs)
    BY DEF Inv, ImageOK, ModelOK
<1>2. CASE Delete
    <2>1. /\ active # 0 /\ Deletes /\ UNCHANGED <<active, opened, import, cache, image, model>>
          /\ pc' = "view"
        BY <1>2 DEF Delete, Edits, Command, Draw
    <2>2. ImageTrue(image', active, tabs) /\ ModelTrue(model', tabs)
        BY <1>1, <2>1
    <2> QED
        BY <2>1, <2>2, DeletesKeeps
<1>3. CASE DeleteButton
    <2>1. /\ Drawing /\ Deletes /\ UNCHANGED <<active, opened, import, cache, image, model>>
          /\ pc' = "input"
        BY <1>3 DEF DeleteButton, Drawn, Drawing
    <2>2. ImageTrue(image', active, tabs) /\ ModelTrue(model', tabs)
        BY <1>1, <2>1
    <2>3. active # 0
        BY <2>1, DrawingIs
    <2> QED
        BY <2>1, <2>2, <2>3, DeletesKeeps
<1>4. CASE DetailsRemove
    <2>1. /\ pc = "details" /\ pc' = "rows" /\ removed' = TRUE /\ Preview
          /\ Deletes /\ UNCHANGED <<active, opened, import, cache>>
        BY <1>4 DEF DetailsRemove
    <2>2. active # 0
        BY <2>1 DEF Inv, FrameOK
    <2>3. ImageTrue(image', active, tabs) /\ ModelTrue(model', tabs)
        BY <2>1, PreviewIs
    <2> QED
        BY <2>1, <2>2, <2>3, DeletesKeeps
<1> QED
    BY <1>2, <1>3, <1>4

\* resource_view: rows are computed, or those of the same key are kept.
LEMMA ViewKeeps ==
    ASSUME Inv, View
    PROVE  Inv'
<1> DEFINE new == [key |-> KeyOf(live), rows |-> Rows(live.entries, live.category, live.up)]
           same == cache # None /\ cache.key = KeyOf(live)
<1>1. /\ TabsOK /\ CacheOK /\ UNCHANGED <<tabs, active, opened, import, image, model>>
      /\ cache' = IF active = 0 \/ same THEN cache ELSE new
      /\ shown' = IF active = 0 THEN 0 ELSE Lowest(live.selected \cap DOMAIN live.entries)
      /\ pc' = IF active = 0 THEN "input" ELSE "details"
      /\ removed' = FALSE
    BY DEF Inv, View
<1>2. \A i : Busy(i)' = Busy(i)
    BY <1>1 DEF Busy
<1>3. TabsOK' /\ ImportOK' /\ ImageOK' /\ ModelOK'
    BY <1>1 DEF Inv, TabsOK, ImportOK, ImageOK, ModelOK
<1>4. CASE active = 0
    <2>1. CacheOK'
        BY <1>1, <1>2, <1>4 DEF CacheOK
    <2>2. FrameOK'
        BY <1>1, <1>4 DEF FrameOK
    <2> QED
        BY <1>3, <2>1, <2>2 DEF Inv
<1>5. CASE active # 0
    <2>1. /\ active \in DOMAIN tabs /\ live \in Tab /\ live.entries \in Seq(Entry)
          /\ live = tabs[active] /\ live' = live
        BY <1>1, <1>5, Active DEF live
    <2>2. DOMAIN live.entries = 1..Len(live.entries) /\ Len(live.entries) \in Nat
        BY <2>1, Numbered
    <2>3. /\ live.id \in Nat /\ live.rev \in Nat
          /\ live.category \in Categories \cup {None} /\ live.up \in BOOLEAN
        BY <2>1 DEF Tab
    <2>4. shown' \in {0} \cup DOMAIN live.entries
        <3> DEFINE S == live.selected \cap DOMAIN live.entries
        <3>1. S \subseteq 1..Len(live.entries) /\ shown' = Lowest(S)
            BY <1>1, <1>5, <2>2
        <3> HIDE DEF S
        <3>2. Lowest(S) = 0 \/ Lowest(S) \in S
            BY <2>2, <3>1, LowestIs
        <3> QED
            BY <2>2, <3>1, <3>2
    <2>5. CASE same
        <3>1. cache' = cache
            BY <1>1, <2>5
        <3>2. CacheOK'
            BY <1>1, <1>2, <3>1 DEF CacheOK
        <3>3. cache.rows \in Seq(DOMAIN live.entries)
            <4>1. Fits(cache, live, Busy(active))
                BY <1>1, <2>1, <2>5 DEF CacheOK
            <4>2. cache.key.id = live.id /\ cache.key.rev = live.rev
                BY <2>5 DEF KeyOf
            <4> QED
                BY <4>1, <4>2 DEF Fits
        <3>4. FrameOK'
            BY <1>1, <1>5, <2>1, <2>4, <3>1, <3>3 DEF FrameOK
        <3> QED
            BY <1>3, <3>2, <3>4 DEF Inv
    <2>6. CASE ~same
        <3>1. cache' = new
            BY <1>1, <1>5, <2>6
        <3>2. /\ new.rows = Rows(live.entries, live.category, live.up)
              /\ new.rows \in Seq(DOMAIN live.entries)
              /\ new.key.id = live.id /\ new.key.rev = live.rev
              /\ new.key.category = live.category /\ new.key.up = live.up
            BY <2>1, <2>3, RowsIs DEF KeyOf
        <3>3. new \in CacheSet
            <4>1. new.rows \in Seq(Nat)
                BY <2>2, <3>2
            <4>2. KeyOf(live) \in [id : Nat, rev : Nat, category : Categories \cup {None}, up : BOOLEAN]
                BY <2>3 DEF KeyOf
            <4> HIDE DEF KeyOf
            <4> QED
                BY <4>1, <4>2 DEF CacheSet
        <3> HIDE DEF new
        <3>4. ASSUME NEW i \in DOMAIN tabs PROVE Fits(new, tabs[i], Busy(i))
            <4>1. CASE i = active
                <5>1. tabs[i] = live
                    BY <2>1, <4>1
                <5>2. new.key.rev <= live.rev
                    BY <2>3, <3>2
                <5> QED
                    BY <3>2, <5>1, <5>2 DEF Fits
            <4>2. CASE i # active
                <5>1. tabs[i].id # live.id
                    BY <1>1, <2>1, <4>2 DEF TabsOK
                <5> QED
                    BY <3>2, <5>1 DEF Fits
            <4> QED
                BY <4>1, <4>2
        <3>5. new.key.id <= opened
            <4>1. live.id \in 1..opened /\ opened \in Nat
                BY <1>1, <2>1 DEF TabsOK
            <4> QED
                BY <3>2, <4>1
        <3>6. CacheOK'
            BY <1>1, <1>2, <3>1, <3>3, <3>4, <3>5 DEF CacheOK
        <3>7. FrameOK'
            BY <1>1, <1>5, <2>1, <2>4, <3>1, <3>2 DEF FrameOK
        <3> QED
            BY <1>3, <3>6, <3>7 DEF Inv
    <2> QED
        BY <2>5, <2>6
<1> QED
    BY <1>4, <1>5

----------------------------------------------------------------------------
(* Imports, merges, undo and saves.                                        *)

LEMMA ImportStartKeeps ==
    ASSUME Inv, ImportStart
    PROVE  Inv'
<1> DEFINE past == Past(live, <<>>)
           at(name) == {i \in DOMAIN live.entries : live.entries[i].name = name}
           lookup == [name \in Names |-> Highest(at(name))]
           start == [past |-> past, changed |-> FALSE, lookup |-> lookup]
<1>1. /\ active # 0 /\ import = None /\ import' = start /\ pc' = "view"
      /\ UNCHANGED <<tabs, active, opened, cache, image, model>>
    BY DEF ImportStart, Edits, Command, Draw
<1>2. active \in DOMAIN tabs /\ SoundTab(live) /\ live \in Tab /\ live.entries \in Seq(Entry)
    BY <1>1, Active DEF Inv
<1>3. past \in PastSet /\ PastOK(past)
    <2>1. <<>> \in Seq(Change)
        OBVIOUS
    <2> QED
        BY <1>2, <2>1, PastIs
<1> HIDE DEF past
<1>4. lookup \in [Names -> Nat]
    <2>1. ASSUME NEW name \in Names PROVE Highest(at(name)) \in Nat
        <3>1. at(name) \subseteq 1..Len(live.entries) /\ Len(live.entries) \in Nat
            BY <1>2, Numbered
        <3> HIDE DEF at
        <3>2. Highest(at(name)) \in 0..Len(live.entries)
            BY <3>1, LowestIs
        <3> QED
            BY <3>1, <3>2
    <2> HIDE DEF at
    <2> QED
        BY <2>1
<1> HIDE DEF lookup
<1>5. start \in Pending /\ start.past = past /\ start.changed = FALSE
    BY <1>3, <1>4 DEF Pending
<1> HIDE DEF start
<1>6. ImportOK'
    BY <1>1, <1>3, <1>5 DEF ImportOK
<1>7. \A i : Busy(i)' = FALSE /\ Busy(i) = FALSE
    BY <1>1, <1>5 DEF Busy
<1>8. TabsOK' /\ CacheOK' /\ ImageOK' /\ ModelOK'
    <2>1. TabsOK' /\ ImageOK' /\ ModelOK'
        BY <1>1 DEF Inv, TabsOK, ImageOK, ModelOK
    <2>2. CacheOK'
        BY <1>1, <1>7 DEF Inv, CacheOK
    <2> QED
        BY <2>1, <2>2
<1>9. FrameOK'
    BY <1>1 DEF FrameOK
<1> QED
    BY <1>6, <1>8, <1>9 DEF Inv

\* What an import brings fits in, and what it has done is noted for undo.
LEMMA BroughtIs ==
    ASSUME Inv, import # None, active # 0, NEW e \in Incoming \cup {None}, Accepts(e)
    PROVE  Grown(Brought(e), live.entries)
<1>1. live.entries \in Seq(Entry)
    BY Active DEF Inv
<1>2. e \in Entry
    BY ViewsAssumption DEF Accepts
<1>3. CASE At(e) = 0
    BY <1>1, <1>2, <1>3, GrownIs DEF Brought
<1>4. CASE At(e) # 0
    <2>1. At(e) \in DOMAIN live.entries /\ live.entries[At(e)].name = e.name
        BY <1>4 DEF Accepts
    <2>2. Brought(e) = [live.entries EXCEPT ![At(e)] = e]
        BY <1>4 DEF Brought
    <2> QED
        BY <1>1, <1>2, <2>1, <2>2, GrownIs
<1> QED
    BY <1>3, <1>4

LEMMA LearnedIs ==
    ASSUME Inv, import # None, active # 0, NEW e \in Incoming \cup {None}, Accepts(e)
    PROVE  Learned(e) \in Pending /\ PastOK(Learned(e).past) /\ Learned(e).changed = TRUE
<1> DEFINE noted == Noted(import.past.changes, e)
           past == [import.past EXCEPT !.changes = noted]
           k == IF At(e) = 0 THEN Len(live.entries) + 1 ELSE At(e)
           lookup == [import.lookup EXCEPT ![e.name] = k]
           im == [import EXCEPT !.past = past, !.changed = TRUE, !.lookup = lookup]
<1>1. live.entries \in Seq(Entry) /\ Len(live.entries) \in Nat
    BY Active DEF Inv
<1>2. e \in Entry /\ e.name \in Names
    BY ViewsAssumption DEF Accepts, Entry
<1>3. /\ import \in Pending /\ PastOK(import.past) /\ import.past \in PastSet
      /\ import.lookup \in [Names -> Nat]
    BY DEF Inv, ImportOK, Pending
<1>4. At(e) \in Nat
    BY <1>2, <1>3 DEF At
<1>5. noted \in Seq(Change)
    <2> DEFINE before == IF At(e) = 0 THEN None ELSE live.entries[At(e)]
    <2>1. before \in Entry \cup {None}
        <3>1. At(e) # 0 => At(e) \in DOMAIN live.entries
            BY DEF Accepts
        <3> QED
            BY <1>1, <3>1
    <2>2. import.past.changes \in Seq(Change)
        BY <1>3 DEF PastSet
    <2> HIDE DEF before
    <2>3. [name |-> e.name, before |-> before] \in Change
        BY <1>2, <2>1 DEF Change
    <2>4. noted = import.past.changes \/ noted = Append(import.past.changes, [name |-> e.name, before |-> before])
        BY DEF Noted, before
    <2> QED
        BY <2>2, <2>3, <2>4
<1>6. k \in Nat
    BY <1>1, <1>4
<1>7. Learned(e) = im
    BY Zenon DEF Learned
<1> HIDE DEF noted, k
<1>8. lookup \in [Names -> Nat]
    BY <1>3, <1>6
<1>9. past \in PastSet
    BY <1>3, <1>5, ZenonT(30) DEF PastSet
<1>10. past.keys = import.past.keys /\ past.meant = import.past.meant /\ past.astray = import.past.astray
    BY <1>3 DEF PastSet
<1> HIDE DEF past, lookup
<1>11. PastOK(past)
    BY <1>3, <1>10 DEF PastOK
<1>12. im \in Pending
    BY <1>3, <1>8, <1>9, ZenonT(30) DEF Pending
<1>13. im.past = past /\ im.changed = TRUE
    BY <1>3 DEF Pending
<1> QED
    BY <1>7, <1>11, <1>12, <1>13

\* The end of an import.
LEMMA FinishedIs ==
    ASSUME NEW t, SoundTab(t), NEW past \in PastSet, PastOK(past)
    PROVE  /\ SoundTab(Finished(t, past))
           /\ Finished(t, past).id = t.id /\ Finished(t, past).rev = t.rev + 1
           /\ Finished(t, past).entries = Sorted(t.entries)
<1> DEFINE reason == IF t.meant # past.meant THEN "import" ELSE past.astray
           u == [t EXCEPT !.past = past, !.astray = reason]
<1>1. t \in Tab
    BY DEF SoundTab
<1>2. past.astray \in Reasons
    BY DEF PastSet
<1>3. reason \in Reasons
    BY <1>2 DEF Reasons
<1>4. reason = "no" => t.meant = past.meant /\ past.astray = "no"
    OBVIOUS
<1>5. Finished(t, past) = Resorted(u, past.keys)
    BY DEF Finished
<1> HIDE DEF reason
<1>6. u \in Tab
    BY <1>1, <1>3, ZenonT(30) DEF Tab
<1>7. /\ u.past = past /\ u.astray = reason /\ u.meant = t.meant
      /\ u.id = t.id /\ u.rev = t.rev /\ u.entries = t.entries
    BY <1>1 DEF Tab
<1> HIDE DEF u
<1>8. u.astray = "no" => past.keys = u.meant
    BY <1>4, <1>7 DEF PastOK
<1>9. u.past # None => PastOK(u.past)
    BY <1>7
<1> QED
    BY <1>5, <1>6, <1>7, <1>8, <1>9, ResortedIs

LEMMA ImportRoundKeeps ==
    ASSUME Inv, NEW e \in Incoming \cup {None}, NEW last \in BOOLEAN, ImportRound(e, last)
    PROVE  Inv'
<1> DEFINE t == Took(e)
           batch == Batch(e)
           changed == batch.changed
           ended == Finished(t, batch.past)
           u == IF last /\ changed THEN ended ELSE t
           is == ~last /\ changed
           was == Busy(active)
<1>1. /\ active # 0 /\ import # None /\ pc' = "view" /\ UNCHANGED <<active, opened, cache>>
      /\ tabs' = [tabs EXCEPT ![active] = u]
      /\ import' = IF last THEN None ELSE batch
      /\ image' = IF changed THEN None ELSE image
      /\ model' = IF Accepts(e) THEN Doubtful(model) ELSE model
    BY DEF ImportRound, Edits, Command, Draw
<1>2. /\ active \in DOMAIN tabs /\ SoundTab(live) /\ live \in Tab /\ live.entries \in Seq(Entry)
      /\ live.rev \in Nat /\ live = tabs[active] /\ tabs \in Seq(Tab)
    BY <1>1, Active DEF Inv, TabsOK, Tab, live
<1>3. import \in Pending /\ PastOK(import.past) /\ import.changed \in BOOLEAN
    BY <1>1 DEF Inv, ImportOK, Pending
<1>4. /\ batch \in Pending /\ PastOK(batch.past)
      /\ Accepts(e) => changed = TRUE
      /\ ~Accepts(e) => changed = import.changed
    <2>1. CASE Accepts(e)
        <3>1. batch = Learned(e)
            BY <2>1 DEF Batch
        <3> QED
            BY <1>1, <2>1, <3>1, LearnedIs
    <2>2. CASE ~Accepts(e)
        BY <1>3, <2>2 DEF Batch
    <2> QED
        BY <2>1, <2>2
<1>5. /\ SoundTab(t) /\ t.id = live.id /\ t.rev = live.rev
      /\ DOMAIN live.entries \subseteq DOMAIN t.entries
      /\ ~Accepts(e) => t = live
    <2>1. CASE ~Accepts(e)
        BY <1>2, <2>1 DEF Took
    <2>2. CASE Accepts(e)
        <3>1. Grown(Brought(e), live.entries)
            BY <1>1, <2>2, BroughtIs
        <3>2. t = [live EXCEPT !.entries = Brought(e)]
            BY <2>2 DEF Took
        <3> HIDE DEF t
        <3> QED
            BY <1>2, <2>2, <3>1, <3>2, GrowsIs
    <2> QED
        BY <2>1, <2>2
<1> HIDE DEF t, batch
<1>6. batch.past \in PastSet /\ changed \in BOOLEAN /\ is \in BOOLEAN
    BY <1>4 DEF Pending
<1>7. was \in BOOLEAN /\ was = (import.changed = TRUE)
    BY <1>1, <1>3 DEF Busy
<1>8. /\ SoundTab(ended) /\ ended.id = t.id /\ ended.rev = t.rev + 1
      /\ ended.entries = Sorted(t.entries)
    BY <1>4, <1>5, <1>6, FinishedIs
<1> HIDE DEF ended
<1>9. SoundTab(u) /\ u.id = live.id
    BY <1>5, <1>8
<1>10. ImportOK' /\ is = Busy(active)'
    <2>1. CASE last
        BY <1>1, <2>1 DEF ImportOK, Busy
    <2>2. CASE ~last
        <3>1. import' = batch /\ batch # None
            BY <1>1, <1>4, <2>2, ViewsAssumption
        <3>2. ImportOK'
            BY <1>1, <1>4, <3>1 DEF ImportOK
        <3>3. is = Busy(active)'
            BY <1>1, <1>6, <2>2, <3>1 DEF Busy
        <3> QED
            BY <3>2, <3>3
    <2> QED
        BY <2>1, <2>2
<1>11. Keeps(live, u, was, is)
    <2>1. CASE last /\ changed
        <3>1. u.rev > live.rev
            BY <1>2, <1>5, <1>8, <2>1
        <3> QED
            BY <3>1 DEF Keeps
    <2>2. CASE ~(last /\ changed)
        <3>1. u = t
            BY <2>2
        <3>2. is \/ (~Accepts(e) /\ ~was)
            BY <1>4, <1>6, <1>7, <2>2
        <3> QED
            BY <1>5, <3>1, <3>2 DEF Keeps
    <2> QED
        BY <2>1, <2>2
<1>12. CASE ~Accepts(e) /\ ~changed
    <2>1. u = live /\ image' = image /\ model' = model
        BY <1>1, <1>5, <1>12
    <2>2. From(u.entries, tabs[active].entries) /\ u \in Tab
        BY <1>2, <2>1 DEF From
    <2> HIDE DEF u
    <2>3. ImageOK' /\ ModelOK'
        BY <1>1, <1>2, <2>1, <2>2, PreviewsKept DEF Inv, ImageOK, ModelOK
    <2> HIDE DEF was, is
    <2>4. was = Busy(active)
        BY DEF was
    <2> QED
        BY <1>1, <1>6, <1>7, <1>9, <1>10, <1>11, <2>3, <2>4, EditIs
<1>13. CASE Accepts(e) \/ changed
    <2>1. image' = None
        BY <1>1, <1>4, <1>13
    <2>2. ImageOK'
        BY <2>1, NoPreview DEF ImageOK
    <2>3. ModelOK'
        <3>1. ModelTrue(model, tabs)
            BY DEF Inv, ModelOK
        <3>2. CASE Accepts(e)
            BY <1>1, <3>1, <3>2, DoubtIs DEF ModelOK
        <3>3. CASE ~Accepts(e)
            <4>1. SoundTab(u) /\ From(u.entries, tabs[active].entries)
                <5>1. From(live.entries, live.entries)
                    BY DEF From
                <5>2. CASE u = t
                    BY <1>2, <1>5, <1>9, <3>3, <5>1, <5>2
                <5>3. CASE u = ended
                    <6>1. ended.entries = Sorted(live.entries)
                        BY <1>5, <1>8, <3>3
                    <6> QED
                        BY <1>2, <1>9, <5>3, <6>1, SortedIs
                <5> QED
                    BY <5>2, <5>3
            <4>2. u \in Tab
                BY <4>1 DEF SoundTab
            <4> HIDE DEF u
            <4> QED
                BY <1>1, <1>2, <3>1, <3>3, <4>1, <4>2, PreviewsKept DEF ModelOK
        <3> QED
            BY <3>2, <3>3
    <2> HIDE DEF u, was, is
    <2>4. was = Busy(active)
        BY DEF was
    <2> QED
        BY <1>1, <1>6, <1>7, <1>9, <1>10, <1>11, <2>2, <2>3, <2>4, EditIs
<1> QED
    BY <1>12, <1>13

\* Resources that are merged.
LEMMA MergedInIs ==
    ASSUME NEW t, SoundTab(t), NEW more \in Seq(Entry)
    PROVE  /\ SoundTab(MergedIn(t, more))
           /\ MergedIn(t, more).id = t.id /\ MergedIn(t, more).rev = t.rev + 1
<1> DEFINE keys == KeysOf(t, t.selected)
           es == Merged(t.entries, more)[Len(more)]
           past == Past(t, Overwritten(t.entries, more))
           u == [t EXCEPT !.entries = es, !.past = past]
<1>1. t \in Tab /\ Placed(t) /\ t.entries \in Seq(Entry)
    BY DEF SoundTab, Tab
<1>2. es \in Seq(Entry)
    BY <1>1, MergedIs
<1>3. past \in PastSet /\ PastOK(past)
    BY <1>1, OverwrittenIs, PastIs
<1>4. t.astray = "no" => keys = t.meant
    BY <1>1 DEF Placed
<1>5. MergedIn(t, more) = Resorted(u, keys)
    BY DEF MergedIn
<1> HIDE DEF keys, es, past
<1>6. u \in Tab
    BY <1>1, <1>2, <1>3, ZenonT(30) DEF Tab
<1>7. /\ u.past = past /\ u.astray = t.astray /\ u.meant = t.meant
      /\ u.id = t.id /\ u.rev = t.rev
    BY <1>1 DEF Tab
<1> HIDE DEF u
<1>8. /\ u.astray = "no" => keys = u.meant
      /\ u.past # None => PastOK(u.past)
    BY <1>3, <1>4, <1>7
<1> QED
    BY <1>5, <1>6, <1>7, <1>8, ResortedIs

LEMMA MergeKeeps ==
    ASSUME Inv, NEW entries \in Files \cup {<<>>}, Merge(entries)
    PROVE  Inv'
<1> DEFINE b == Busy(active)
<1>1. /\ active # 0 /\ import = None /\ pc' = "view"
      /\ UNCHANGED <<active, opened, import, cache>>
    BY DEF Merge, Edits, Command, Draw
<1>2. /\ active \in DOMAIN tabs /\ SoundTab(live) /\ live \in Tab /\ live.entries \in Seq(Entry)
      /\ live.rev \in Nat /\ live = tabs[active] /\ tabs \in Seq(Tab)
    BY <1>1, Active DEF Inv, TabsOK, Tab, live
<1>3. b = FALSE /\ b \in BOOLEAN /\ b = Busy(active)'
    BY <1>1 DEF Busy
<1>4. ImportOK'
    BY <1>1 DEF ImportOK
<1>5. ImageTrue(image, active, tabs) /\ ModelTrue(model, tabs)
    BY DEF Inv, ImageOK, ModelOK
<1>6. CASE entries # <<>>
    <2> DEFINE u == MergedIn(live, entries)
    <2>1. tabs' = [tabs EXCEPT ![active] = u] /\ image' = None /\ model' = Doubtful(model)
        BY <1>6 DEF Merge
    <2>2. entries \in Seq(Entry)
        BY <1>6, ViewsAssumption
    <2>3. SoundTab(u) /\ u.id = live.id /\ u.rev = live.rev + 1
        BY <1>2, <2>2, MergedInIs
    <2> HIDE DEF u
    <2>4. u.rev > live.rev
        BY <1>2, <2>3
    <2>5. Keeps(live, u, b, b)
        BY <2>4 DEF Keeps
    <2>6. ImageOK' /\ ModelOK'
        BY <1>5, <2>1, NoPreview, DoubtIs DEF ImageOK, ModelOK
    <2> HIDE DEF b
    <2>7. b = Busy(active)
        BY DEF b
    <2> QED
        BY <1>1, <1>3, <1>4, <2>1, <2>3, <2>5, <2>6, <2>7, EditIs
<1>7. CASE entries = <<>>
    <2> DEFINE u == MergedNothing(live)
    <2>1. tabs' = [tabs EXCEPT ![active] = u] /\ image' = image /\ model' = model
        BY <1>7 DEF Merge
    <2>2. /\ SoundTab(u) /\ u.id = live.id /\ u.rev = live.rev
          /\ DOMAIN live.entries = DOMAIN u.entries /\ From(u.entries, live.entries)
          /\ u.resorted = TRUE \/ (u.entries = live.entries /\ u.resorted = live.resorted)
        <3>1. SoundTab(live)
            BY <1>2
        <3> QED
            BY ONLY <3>1, NothingIs, ZenonT(30)
    <2> HIDE DEF u
    <2>3. u \in Tab
        BY <2>2 DEF SoundTab
    <2>4. Keeps(live, u, b, b)
        BY <2>2 DEF Keeps
    <2>5. ImageOK' /\ ModelOK'
        BY <1>1, <1>2, <1>5, <2>1, <2>2, <2>3, PreviewsKept DEF ImageOK, ModelOK
    <2> HIDE DEF b
    <2>6. b = Busy(active)
        BY DEF b
    <2> QED
        BY <1>1, <1>3, <1>4, <2>1, <2>2, <2>4, <2>5, <2>6, EditIs
<1> QED
    BY <1>6, <1>7

\* Changes that are taken back.
LEMMA UndoneIs ==
    ASSUME NEW t, SoundTab(t), t.past # None
    PROVE  SoundTab(Undone(t)) /\ Undone(t).id = t.id
<1> DEFINE es == Reverted(t.entries, t.past.changes)[Len(t.past.changes)]
           category == t.past.category
           meant == t.past.meant
           astray == t.past.astray
           u == [t EXCEPT !.entries = es, !.category = category, !.meant = meant,
                          !.astray = astray, !.past = None]
<1>1. t \in Tab /\ t.entries \in Seq(Entry) /\ t.past \in PastSet /\ PastOK(t.past)
    BY DEF SoundTab, Tab
<1>2. /\ t.past.changes \in Seq(Change) /\ category \in Categories \cup {None}
      /\ meant \in SUBSET Names /\ astray \in Reasons
    BY <1>1 DEF PastSet
<1>3. es \in Seq(Entry)
    BY <1>1, <1>2, RevertedIs
<1>4. Undone(t) = Resorted(u, t.past.keys)
    BY DEF Undone
<1>5. astray = "no" => t.past.keys = meant
    BY <1>1 DEF PastOK
<1> HIDE DEF es, category, meant, astray
<1>6. u \in Tab
    BY <1>1, <1>2, <1>3, ZenonT(30) DEF Tab
<1>7. u.past = None /\ u.astray = astray /\ u.meant = meant /\ u.id = t.id
    BY <1>1 DEF Tab
<1> HIDE DEF u
<1>8. /\ u.astray = "no" => t.past.keys = u.meant
      /\ u.past # None => PastOK(u.past)
    BY <1>5, <1>7
<1> QED
    BY <1>4, <1>6, <1>7, <1>8, ResortedIs

LEMMA UndoKeeps ==
    ASSUME Inv, Undo
    PROVE  Inv'
<1> DEFINE u == Undone(live)
<1>1. /\ active # 0 /\ import = None /\ live.past # None /\ pc' = "view"
      /\ tabs' = [tabs EXCEPT ![active] = u]
      /\ cache' = None /\ image' = None /\ model' = None /\ UNCHANGED <<active, opened, import>>
    BY DEF Undo, Command
<1>2. active \in DOMAIN tabs /\ SoundTab(live)
    BY <1>1, Active DEF Inv
<1>3. SoundTab(u) /\ u.id = live.id
    BY <1>1, <1>2, UndoneIs
<1> HIDE DEF u
<1>4. TabsOK'
    BY <1>1, <1>3, TabsChange DEF Inv
<1>5. ImportOK' /\ CacheOK' /\ FrameOK'
    BY <1>1 DEF ImportOK, CacheOK, FrameOK
<1>6. ImageOK' /\ ModelOK'
    BY <1>1, NoPreview DEF ImageOK, ModelOK
<1> QED
    BY <1>4, <1>5, <1>6 DEF Inv

\* Rows of another identity say nothing of an archive with a new one.
LEMMA NewIdentity ==
    ASSUME NEW c \in CacheSet, c.key.id <= opened, opened \in Nat, NEW t, t.id = opened + 1, NEW b
    PROVE  Fits(c, t, b)
<1>1. c.key.id \in Nat
    BY DEF CacheSet
<1>2. c.key.id # t.id
    BY <1>1
<1> QED
    BY <1>2 DEF Fits

LEMMA SaveKeeps ==
    ASSUME Inv, Save
    PROVE  Inv'
<1> DEFINE id == opened + 1
           u == [live EXCEPT !.id = id, !.rev = 0, !.past = None]
<1>1. /\ active # 0 /\ import = None /\ pc' = "view" /\ opened' = id
      /\ UNCHANGED <<active, import, cache, image, model>>
    BY DEF Save, Command, Draw
<1>2. /\ TabsOK /\ active \in DOMAIN tabs /\ SoundTab(live)
      /\ tabs \in Seq(Tab) /\ opened \in Nat /\ id \in Nat /\ live = tabs[active]
    BY <1>1, Active DEF Inv, TabsOK, live
<1>3. tabs' = [tabs EXCEPT ![active] = u]
    <2>1. tabs' = [tabs EXCEPT ![active].id = opened', ![active].rev = 0, ![active].past = None]
        BY DEF Save
    <2>2. live \in Tab
        BY <1>2 DEF SoundTab
    <2> DEFINE a == [tabs EXCEPT ![active].id = opened']
               c == [a EXCEPT ![active].rev = 0]
    <2>3. tabs' = [c EXCEPT ![active].past = None]
        BY <2>1, Zenon
    <2>4. a[active] = [live EXCEPT !.id = id] /\ DOMAIN a = DOMAIN tabs
        BY <1>1, <1>2
    <2>5. c[active] = [[live EXCEPT !.id = id] EXCEPT !.rev = 0] /\ DOMAIN c = DOMAIN tabs
        BY <1>2, <2>4
    <2>6. \A i \in DOMAIN tabs : i # active => a[i] = tabs[i] /\ c[i] = a[i]
        BY <1>2
    <2> HIDE DEF a, c, id
    <2>7. tabs' = [i \in DOMAIN tabs |-> IF i = active THEN u ELSE tabs[i]]
        BY <1>2, <2>3, <2>5, <2>6
    <2> QED
        BY <1>2, <2>7
<1> HIDE DEF u
<1>4. SoundTab(u) /\ u.id = id /\ u.entries = live.entries
    <2>1. SoundTab(live) /\ id \in Nat
        BY <1>2
    <2> HIDE DEF id
    <2> QED
        BY ONLY <2>1, SavedIs, Zenon DEF u
<1>5. u \in Tab
    BY <1>4 DEF SoundTab
<1>6. /\ tabs' \in Seq(Tab) /\ DOMAIN tabs' = DOMAIN tabs /\ tabs'[active] = u
      /\ Len(tabs') = Len(tabs)
      /\ \A i \in DOMAIN tabs : i # active => tabs'[i] = tabs[i]
    BY <1>2, <1>3, <1>5
<1>7. \A i \in DOMAIN tabs : tabs[i].id \in 1..opened
    BY <1>2 DEF TabsOK
<1>8. TabsOK'
    <2>1. \A i \in DOMAIN tabs : SoundTab(tabs'[i])
        BY <1>2, <1>4, <1>6 DEF TabsOK
    <2>2. \A i \in DOMAIN tabs : tabs'[i].id \in 1..id
        BY <1>2, <1>4, <1>6, <1>7, SMTT(30)
    <2>3. \A i \in DOMAIN tabs : tabs[i].id # id
        BY <1>2, <1>7
    <2>4. \A i, j \in DOMAIN tabs : tabs'[i].id = tabs'[j].id => i = j
        <3> HIDE DEF id
        <3> QED
            BY <1>2, <1>4, <1>6, <2>3 DEF TabsOK
    <2>5. active \in 0..Len(tabs) /\ (active = 0 => tabs' = <<>>)
        BY <1>1, <1>2 DEF TabsOK
    <2> QED
        BY <1>1, <1>2, <1>6, <2>1, <2>2, <2>4, <2>5 DEF TabsOK
<1>9. CacheOK'
    <2> SUFFICES ASSUME cache # None
                 PROVE  /\ cache \in CacheSet /\ cache.key.id <= id
                        /\ \A i \in DOMAIN tabs : Fits(cache, tabs'[i], Busy(i)')
        BY <1>1, <1>6 DEF CacheOK
    <2>1. /\ cache \in CacheSet /\ cache.key.id <= opened
          /\ \A i \in DOMAIN tabs : Fits(cache, tabs[i], Busy(i))
        BY DEF Inv, CacheOK
    <2>2. cache.key.id <= id
        <3>1. cache.key.id \in Nat
            BY <2>1 DEF CacheSet
        <3> QED
            BY <1>2, <2>1, <3>1
    <2>3. \A i : ~Busy(i) /\ ~Busy(i)'
        BY <1>1 DEF Busy
    <2>4. ASSUME NEW i \in DOMAIN tabs PROVE Fits(cache, tabs'[i], Busy(i)')
        <3>1. CASE i = active
            <4>1. Fits(cache, u, Busy(i)')
                BY <1>2, <1>4, <2>1, NewIdentity
            <4> QED
                BY <1>6, <3>1, <4>1
        <3>2. CASE i # active
            BY <1>6, <2>1, <2>3, <3>2 DEF Fits
        <3> QED
            BY <3>1, <3>2
    <2> QED
        BY <2>1, <2>2, <2>4
<1>10. ImportOK' /\ FrameOK'
    BY <1>1 DEF ImportOK, FrameOK
<1>11. ImageOK' /\ ModelOK'
    <2>1. From(u.entries, tabs[active].entries)
        BY <1>2, <1>4 DEF From
    <2> QED
        BY <1>1, <1>2, <1>3, <1>5, <2>1, PreviewsKept DEF Inv, ImageOK, ModelOK
<1> QED
    BY <1>8, <1>9, <1>10, <1>11 DEF Inv

----------------------------------------------------------------------------
(* Archives opened, shown and closed.                                      *)

LEMMA OpenKeeps ==
    ASSUME Inv, NEW f \in Files, OpenPath(f)
    PROVE  Inv'
<1> DEFINE id == opened + 1
           u == NewTab(f, id)
           last == Len(tabs) + 1
<1>1. /\ import = None /\ pc' = "view" /\ opened' = id /\ image' = None
      /\ tabs' = Append(tabs, u) /\ active' = Len(tabs')
      /\ UNCHANGED <<import, cache, model>>
    BY DEF OpenPath, Command, Draw
<1>2. tabs \in Seq(Tab) /\ opened \in Nat /\ id \in Nat /\ Len(tabs) \in Nat
    BY DEF Inv, TabsOK
<1>3. SoundTab(u) /\ u.id = id
    BY <1>2, NewTabIs
<1>4. u \in Tab
    BY <1>3 DEF SoundTab
<1> HIDE DEF u
<1>5. /\ tabs' \in Seq(Tab) /\ Len(tabs') = last /\ DOMAIN tabs' = DOMAIN tabs \cup {last}
      /\ last \notin DOMAIN tabs /\ tabs'[last] = u
      /\ \A i \in DOMAIN tabs : tabs'[i] = tabs[i]
    BY <1>1, <1>2, <1>4
<1>6. \A i \in DOMAIN tabs : SoundTab(tabs[i]) /\ tabs[i].id \in 1..opened
    BY DEF Inv, TabsOK
<1>7. \A i, j \in DOMAIN tabs : tabs[i].id = tabs[j].id => i = j
    BY DEF Inv, TabsOK
<1>8. active' \in 0..Len(tabs') /\ active' # 0
    BY <1>1, <1>2, <1>5
<1> HIDE DEF last
<1>9. TabsOK'
    <2>1. \A i \in DOMAIN tabs' : SoundTab(tabs'[i]) /\ tabs'[i].id \in 1..id
        BY <1>2, <1>3, <1>5, <1>6
    <2>2. \A i \in DOMAIN tabs : tabs[i].id # id
        BY <1>2, <1>6
    <2> HIDE DEF id
    <2>3. \A i, j \in DOMAIN tabs' : tabs'[i].id = tabs'[j].id => i = j
        BY <1>3, <1>5, <1>7, <2>2
    <2> QED
        BY <1>1, <1>2, <1>5, <1>8, <2>1, <2>3 DEF TabsOK
<1>10. CacheOK'
    <2> SUFFICES ASSUME cache # None
                 PROVE  /\ cache \in CacheSet /\ cache.key.id <= id
                        /\ \A i \in DOMAIN tabs' : Fits(cache, tabs'[i], Busy(i)')
        BY <1>1 DEF CacheOK
    <2>1. /\ cache \in CacheSet /\ cache.key.id <= opened
          /\ \A i \in DOMAIN tabs : Fits(cache, tabs[i], Busy(i))
        BY DEF Inv, CacheOK
    <2>2. cache.key.id <= id
        <3>1. cache.key.id \in Nat
            BY <2>1 DEF CacheSet
        <3> QED
            BY <1>2, <2>1, <3>1
    <2>3. \A i : ~Busy(i) /\ ~Busy(i)'
        BY <1>1 DEF Busy
    <2>4. ASSUME NEW i \in DOMAIN tabs' PROVE Fits(cache, tabs'[i], Busy(i)')
        <3>1. CASE i \in DOMAIN tabs
            BY <1>5, <2>1, <2>3, <3>1 DEF Fits
        <3>2. CASE i \notin DOMAIN tabs
            <4>1. tabs'[i] = u
                BY <1>5, <3>2
            <4>2. Fits(cache, u, Busy(i)')
                BY <1>2, <1>3, <2>1, NewIdentity
            <4> QED
                BY <4>1, <4>2
        <3> QED
            BY <3>1, <3>2
    <2> QED
        BY <2>1, <2>2, <2>4
<1>11. ImportOK' /\ FrameOK'
    BY <1>1 DEF ImportOK, FrameOK
<1>12. ImageOK'
    BY <1>1, NoPreview DEF ImageOK
<1>13. ModelOK'
    <2>1. ModelTrue(model, tabs)
        BY DEF Inv, ModelOK
    <2>2. ASSUME model # None, model.doubt # TRUE,
                 NEW i \in DOMAIN tabs'
          PROVE  Shown(model, i, tabs'[i].entries)
        <3>1. model.key[1] \in DOMAIN tabs /\ \A j \in DOMAIN tabs : Shown(model, j, tabs[j].entries)
            BY <2>1, <2>2 DEF ModelTrue
        <3>2. CASE i \in DOMAIN tabs
            BY <1>5, <3>1, <3>2
        <3>3. CASE i \notin DOMAIN tabs
            <4>1. \A name : model.key # <<i, name>>
                BY <3>1, <3>3
            <4> QED
                BY <4>1 DEF Shown
        <3> QED
            BY <3>2, <3>3
    <2>3. ModelTrue(model, tabs')
        BY <1>5, <2>1, <2>2 DEF ModelTrue
    <2> QED
        BY <1>1, <2>3 DEF ModelOK
<1> QED
    BY <1>9, <1>10, <1>11, <1>12, <1>13 DEF Inv

LEMMA SwitchKeeps ==
    ASSUME Inv, NEW i \in DOMAIN tabs, SwitchTab(i)
    PROVE  Inv'
<1>1. /\ import = None /\ pc' = "view" /\ active' = i /\ image' = None
      /\ UNCHANGED <<tabs, opened, import, cache, model>>
    BY DEF SwitchTab, Command, Draw
<1>2. TabsOK'
    <2>1. i \in 0..Len(tabs) /\ i # 0
        BY DEF Inv, TabsOK
    <2> QED
        BY <1>1, <2>1 DEF Inv, TabsOK
<1>3. CacheOK'
    <2>1. \A j : Busy(j) = FALSE /\ Busy(j)' = FALSE
        BY <1>1 DEF Busy
    <2> QED
        BY <1>1, <2>1 DEF Inv, CacheOK
<1>4. ImportOK' /\ FrameOK'
    BY <1>1 DEF ImportOK, FrameOK
<1>5. ImageOK' /\ ModelOK'
    BY <1>1, NoPreview DEF Inv, ImageOK, ModelOK
<1> QED
    BY <1>2, <1>3, <1>4, <1>5 DEF Inv

LEMMA CloseKeeps ==
    ASSUME Inv, NEW i \in DOMAIN tabs, CloseTab(i)
    PROVE  Inv'
<1> DEFINE m(n) == IF n < i THEN n ELSE n + 1
<1>1. /\ import = None /\ pc' = "view" /\ tabs' = RemoveAt(tabs, i)
      /\ active' = IF active > i \/ active = Len(tabs) THEN active - 1 ELSE active
      /\ image' = IF tabs' = <<>> THEN image ELSE None
      /\ model' = Doubtful(model) /\ UNCHANGED <<opened, import, cache>>
    BY DEF CloseTab, Command, Draw
<1>2. /\ tabs \in Seq(Tab) /\ opened \in Nat /\ DOMAIN tabs = 1..Len(tabs) /\ Len(tabs) \in Nat
      /\ active \in 0..Len(tabs) /\ (active = 0 => tabs = <<>>) /\ i \in 1..Len(tabs)
    BY DEF Inv, TabsOK
<1>3. /\ tabs' \in Seq(Tab) /\ Len(tabs') = Len(tabs) - 1
      /\ \A n \in 1..(Len(tabs) - 1) : tabs'[n] = IF n < i THEN tabs[n] ELSE tabs[n + 1]
    BY <1>1, <1>2, RemoveAtIs
<1>4. DOMAIN tabs' = 1..(Len(tabs) - 1)
    BY <1>2, <1>3
<1>5. \A n \in DOMAIN tabs' : m(n) \in DOMAIN tabs /\ tabs'[n] = tabs[m(n)]
    BY <1>2, <1>3, <1>4
<1>6. \A n, k \in DOMAIN tabs' : m(n) = m(k) => n = k
    BY <1>2, <1>4
<1>7. active # 0
    <2>1. tabs # <<>>
        BY <1>2
    <2> QED
        BY <1>2, <2>1
<1>8. active' \in 0..Len(tabs') /\ (active' = 0 => tabs' = <<>>)
    <2>1. active' \in 0..(Len(tabs) - 1) /\ (active' = 0 => Len(tabs) - 1 = 0)
        <3>1. active \in 1..Len(tabs) /\ Len(tabs) \in Nat /\ i \in 1..Len(tabs)
            BY <1>2, <1>7
        <3>2. active' = IF active > i \/ active = Len(tabs) THEN active - 1 ELSE active
            BY <1>1
        <3>3. CASE active > i \/ active = Len(tabs)
            <4>1. active' = active - 1
                BY <3>2, <3>3, Zenon
            <4> QED
                BY ONLY <3>1, <3>3, <4>1
        <3>4. CASE ~(active > i \/ active = Len(tabs))
            <4>1. active' = active
                BY <3>2, <3>4, Zenon
            <4> QED
                BY ONLY <3>1, <3>4, <4>1
        <3> QED
            BY <3>3, <3>4
    <2>2. Len(tabs') = 0 => tabs' = <<>>
        BY <1>3
    <2> QED
        BY <1>3, <2>1, <2>2
<1> HIDE DEF m
<1>9. TabsOK'
    <2>1. \A n \in DOMAIN tabs : SoundTab(tabs[n]) /\ tabs[n].id \in 1..opened
        BY DEF Inv, TabsOK
    <2>2. \A n, k \in DOMAIN tabs : tabs[n].id = tabs[k].id => n = k
        BY DEF Inv, TabsOK
    <2>3. \A n \in DOMAIN tabs' : SoundTab(tabs'[n]) /\ tabs'[n].id \in 1..opened
        BY <1>5, <2>1
    <2>4. \A n, k \in DOMAIN tabs' : tabs'[n].id = tabs'[k].id => n = k
        BY <1>5, <1>6, <2>2
    <2> QED
        BY <1>1, <1>2, <1>3, <1>8, <2>3, <2>4 DEF TabsOK
<1>10. CacheOK'
    <2>1. \A n : Busy(n) = FALSE /\ Busy(n)' = FALSE
        BY <1>1 DEF Busy
    <2> QED
        BY <1>1, <1>5, <2>1 DEF Inv, CacheOK
<1>11. ImportOK' /\ FrameOK'
    BY <1>1 DEF ImportOK, FrameOK
<1>12. ImageOK'
    <2>1. CASE tabs' = <<>>
        <3>1. active' = 0
            BY <1>8, <2>1
        <3> QED
            BY <1>1, <2>1, <3>1 DEF Inv, ImageOK, ImageTrue
    <2>2. CASE tabs' # <<>>
        BY <1>1, <2>2, NoPreview DEF ImageOK
    <2> QED
        BY <2>1, <2>2
<1>13. ModelOK'
    BY <1>1, DoubtIs DEF Inv, ModelOK
<1> QED
    BY <1>9, <1>10, <1>11, <1>12, <1>13 DEF Inv

----------------------------------------------------------------------------
(* Every step keeps the invariant.                                         *)

\* Rows that do not exist are only drawn after "Remove from archive"; and if
\* nothing happens, all stays as it is.
LEMMA PanicKeeps ==
    ASSUME Inv, Panic \/ UNCHANGED vars
    PROVE  Inv'
<1>1. /\ UNCHANGED <<tabs, active, opened, import, cache, image, model, shown, removed>>
      /\ pc' = pc \/ pc' = "panicked"
    BY DEF Panic, vars
<1>2. \A i : Busy(i)' = Busy(i)
    BY <1>1 DEF Busy
<1>3. TabsOK' /\ ImportOK' /\ ImageOK' /\ ModelOK'
    BY <1>1 DEF Inv, TabsOK, ImportOK, ImageOK, ModelOK
<1>4. CacheOK'
    BY <1>1, <1>2 DEF Inv, CacheOK
<1>5. live' = live
    BY <1>1 DEF live
<1>6. FrameOK'
    BY <1>1, <1>5 DEF Inv, FrameOK
<1> QED
    BY <1>3, <1>4, <1>6 DEF Inv

LEMMA InvInit ==
    ASSUME Init
    PROVE  Inv
<1>1. TabsOK
    BY DEF Init, TabsOK
<1>2. ImportOK /\ CacheOK /\ FrameOK
    BY DEF Init, ImportOK, CacheOK, FrameOK
<1>3. ImageOK /\ ModelOK
    BY NoPreview DEF Init, ImageOK, ModelOK
<1> QED
    BY <1>1, <1>2, <1>3 DEF Inv

LEMMA InvNext ==
    ASSUME Inv, [Next]_vars
    PROVE  Inv'
<1>1. CASE Delete \/ DetailsRemove \/ DeleteButton
    BY <1>1, DeleteKeeps
<1>2. CASE Undo
    BY <1>2, UndoKeeps
<1>3. CASE Save
    BY <1>3, SaveKeeps
<1>4. CASE ImportStart
    BY <1>4, ImportStartKeeps
<1>5. CASE \E f \in Files : OpenPath(f)
    BY <1>5, OpenKeeps
<1>6. CASE \E i \in DOMAIN tabs : SwitchTab(i) \/ CloseTab(i)
    BY <1>6, SwitchKeeps, CloseKeeps
<1>7. CASE \E e \in Incoming \cup {None}, last \in BOOLEAN : ImportRound(e, last)
    BY <1>7, ImportRoundKeeps
<1>8. CASE \E f \in Files \cup {<<>>} : Merge(f)
    BY <1>8, MergeKeeps
<1>9. CASE View
    BY <1>9, ViewKeeps
<1>10. CASE \E category \in Categories \cup {None} : ClickCategory(category)
    BY <1>10, ClickCategoryKeeps
<1>11. CASE Details
    BY <1>11, DetailsKeeps
<1>12. CASE Panic \/ UNCHANGED vars
    BY <1>12, PanicKeeps
<1>13. CASE SelectAll
    BY <1>13, SelectAllKeeps
<1>14. CASE SetSort
    BY <1>14, SetSortKeeps
<1>15. CASE pc = "rows" /\ \E n \in DOMAIN rows : Jump(n) \/ Click(n) \/ CtrlClick(n)
    BY <1>15, RowClicksKeep
<1>16. CASE pc = "rows" /\ \E n \in DOMAIN rows, additive \in BOOLEAN : ShiftClick(n, additive)
    BY <1>16, RowClicksKeep
<1>17. CASE \E down, extend, additive \in BOOLEAN : Arrow(down, extend, additive)
    BY <1>17, ArrowKeeps
<1> QED
    BY <1>1, <1>2, <1>3, <1>4, <1>5, <1>6, <1>7, <1>8, <1>9, <1>10, <1>11, <1>12,
       <1>13, <1>14, <1>15, <1>16, <1>17, Zenon DEF Next

\* The invariant behind the theorems below.
THEOREM Invariant == Spec => []Inv
<1>1. Init => Inv
    BY InvInit
<1>2. Inv /\ [Next]_vars => Inv'
    BY InvNext
<1> QED
    BY <1>1, <1>2, PTL DEF Spec

----------------------------------------------------------------------------
(* The theorems.                                                           *)

\* The active tab is one of those that are open, and what is in them are
\* resources (load_tab, close_tab).
THEOREM TypesCorrect == Spec => []TypeOK
<1>1. ASSUME Inv PROVE TypeOK
    <2>1. /\ tabs \in Seq(Tab) /\ active \in 0..Len(tabs) /\ (active = 0 => tabs = <<>>)
          /\ \A i \in DOMAIN tabs : SoundTab(tabs[i])
        BY <1>1 DEF Inv, TabsOK
    <2>2. tabs = <<>> => active = 0
        BY <2>1
    <2>3. pc \in {"input", "view", "details", "rows", "panicked"}
        BY <1>1 DEF Inv, FrameOK
    <2>4. ASSUME NEW i \in DOMAIN tabs
          PROVE  /\ \A n \in DOMAIN tabs[i].entries : tabs[i].entries[n] \in Entry
                 /\ tabs[i].anchor \in 0..Len(tabs[i].entries)
                 /\ tabs[i].cursor \in 0..Len(tabs[i].entries)
        <3>1. tabs[i] \in Tab /\ Placed(tabs[i])
            BY <2>1 DEF SoundTab
        <3>2. tabs[i].entries \in Seq(Entry)
            BY <3>1 DEF Tab
        <3> QED
            BY <3>1, <3>2 DEF Placed, Landed
    <2> QED
        BY <2>1, <2>2, <2>3, <2>4 DEF TypeOK
<1> QED
    BY <1>1, Invariant, PTL

\* The rows that are drawn are those of the archive as it is, however it was
\* imported into, merged, deleted from, undone, saved, opened or closed since
\* they were computed; and none of them indexes an entry that does not exist,
\* unless "Remove from archive" removed it between (resource_view).
THEOREM RowsAreCurrent == Spec => []ViewCurrent
<1>1. ASSUME Inv PROVE ViewCurrent
    <2>1. ASSUME active # 0, cache # None, cache.key = KeyOf(live), import = None, ~live.resorted
          PROVE  cache.rows = Rows(live.entries, live.category, live.up)
        <3>1. active \in DOMAIN tabs /\ live = tabs[active] /\ live \in Tab
            BY <1>1, <2>1, Active DEF Inv, live
        <3>2. Fits(cache, live, Busy(active))
            BY <1>1, <2>1, <3>1 DEF Inv, CacheOK
        <3>3. /\ cache.key.id = live.id /\ cache.key.rev = live.rev
              /\ cache.key.category = live.category /\ cache.key.up = live.up
            BY <2>1 DEF KeyOf
        <3>4. ~Busy(active)
            BY <2>1 DEF Busy
        <3> QED
            BY <2>1, <3>2, <3>3, <3>4 DEF Fits
    <2>2. ASSUME pc = "rows", ~removed PROVE Exist
        <3>1. Drawing
            BY <2>2 DEF Drawing
        <3> QED
            BY <1>1, <3>1, DrawingIs DEF Exist
    <2> QED
        BY <2>1, <2>2 DEF ViewCurrent
<1> QED
    BY <1>1, Invariant, PTL

\* What is selected is what the user selected last, whatever moved the entries
\* since: the end of an import, a merge or undo, which restore the selection
\* by name among other entries in another order (restore_selection_by_keys).
THEOREM SelectionIsTheUsers == Spec => []SelectionMeant
<1>1. ASSUME Inv PROVE SelectionMeant
    <2>1. \A i \in DOMAIN tabs : Placed(tabs[i])
        BY <1>1 DEF Inv, TabsOK, SoundTab
    <2> QED
        BY <2>1 DEF SelectionMeant, Meant, Placed, Landed
<1> QED
    BY <1>1, Invariant, PTL

\* No preview is shown of contents a resource had before, but one in doubt: of
\* a resource the archive held twice, or of a model under which something was
\* imported, merged or closed (show_image_preview, show_model_preview).
THEOREM PreviewsAreFresh == Spec => []PreviewFresh
<1>1. ASSUME Inv PROVE PreviewFresh
    <2> SUFFICES ASSUME NEW preview \in {image, model}, preview # None, active # 0,
                        NEW i \in DOMAIN live.entries, preview.key = PreviewKey(i)
                 PROVE  preview.shows = live.entries[i].version \/ preview.doubt
        BY DEF PreviewFresh
    <2>1. active \in DOMAIN tabs /\ live = tabs[active]
        BY <1>1, Active DEF Inv, live
    <2>2. CASE preview = image
        <3>1. preview.doubt = TRUE \/ Shown(preview, active, live.entries)
            BY <1>1, <2>1, <2>2 DEF Inv, ImageOK, ImageTrue
        <3> QED
            BY <3>1 DEF Shown, PreviewKey
    <2>3. CASE preview = model
        <3>1. preview.doubt = TRUE \/ Shown(preview, active, live.entries)
            BY <1>1, <2>1, <2>3 DEF Inv, ModelOK, ModelTrue
        <3> QED
            BY <3>1 DEF Shown, PreviewKey
    <2> QED
        BY <2>2, <2>3
<1> QED
    BY <1>1, Invariant, PTL
=============================================================================
