---------------------------- MODULE EditorProofs ----------------------------
(***************************************************************************)
(* Proofs about Editor: whatever the user opens, edits, undoes, imports,   *)
(* drops, saves and closes, a tab without the dirty mark holds what its    *)
(* file holds unless its mark is in doubt, an import goes on in its own    *)
(* archive unless a tab is closed meanwhile and spares what it does not    *)
(* bring, and nothing that was not saved is lost without a question.       *)
(***************************************************************************)
EXTENDS Editor, SequenceTheorems, FiniteSetTheorems, WellFoundedInduction, TLAPS

----------------------------------------------------------------------------
(* Induction.                                                              *)

Less == {pair \in Nat \X Nat : pair[1] < pair[2]}

\* < is well founded.
LEMMA LessIsWellFounded == IsWellFoundedOn(Less, Nat)
BY NatLessThanWellFounded DEF OpToRel, Less

\* Induction: a set with 0 and the successor of each of its members.
LEMMA Induct ==
    ASSUME NEW S, 0 \in S, \A n \in Nat : n \in S => n + 1 \in S
    PROVE  Nat \subseteq S
<1> SUFFICES ASSUME Nat \ S # {} PROVE FALSE
    OBVIOUS
<1>1. PICK n \in Nat \ S : \A m \in Nat \ S : <<m, n>> \notin Less
    BY LessIsWellFounded, WFMin
<1>2. n # 0
    OBVIOUS
<1>3. n - 1 \in Nat /\ (n - 1) + 1 = n /\ n - 1 < n
    BY <1>1, <1>2
<1>4. <<n - 1, n>> \in Less
    <2>1. <<n - 1, n>> \in Nat \X Nat /\ <<n - 1, n>>[1] < <<n - 1, n>>[2]
        BY <1>1, <1>3
    <2> QED
        BY <2>1 DEF Less
<1>5. n - 1 \in S
    BY <1>1, <1>3, <1>4
<1> QED
    BY <1>3, <1>5

----------------------------------------------------------------------------
(* Sorting.                                                                *)

Before(es, i) == {j \in DOMAIN es :
    \/ es[j].key < es[i].key
    \/ es[j].key = es[i].key /\ j <= i}

\* The key of every entry is a natural number.
LEMMA KeyType ==
    ASSUME NEW es \in Seq(Entry)
    PROVE  /\ Len(es) \in Nat /\ DOMAIN es = 1..Len(es)
           /\ \A i \in DOMAIN es : es[i] \in Entry /\ es[i].key \in Nat /\ es[i].key \in Keys
<1>1. \A e \in Entry : e.key \in Keys /\ e.key \in Nat
    BY EditorAssumption DEF Entry, Keys
<1> QED
    BY <1>1

\* An entry's place is a position, and another entry has another place.
LEMMA PlaceType ==
    ASSUME NEW es \in Seq(Entry), NEW i \in DOMAIN es
    PROVE  /\ IsFiniteSet(Before(es, i))
           /\ Place(es, i) = Cardinality(Before(es, i))
           /\ Place(es, i) \in DOMAIN es
<1>1. DOMAIN es = 1..Len(es) /\ Len(es) \in Nat
    BY KeyType
<1>2. IsFiniteSet(DOMAIN es) /\ Cardinality(DOMAIN es) = Len(es)
    <2>1. 1 \in Int /\ Len(es) \in Int
        BY <1>1
    <2>2. /\ IsFiniteSet(1..Len(es))
          /\ Cardinality(1..Len(es)) = IF 1 > Len(es) THEN 0 ELSE Len(es) - 1 + 1
        BY <2>1, FS_Interval
    <2> QED
        BY <1>1, <2>2
<1>3. Before(es, i) \in SUBSET DOMAIN es
    BY DEF Before
<1>4. /\ IsFiniteSet(Before(es, i)) /\ Cardinality(Before(es, i)) <= Len(es)
      /\ Cardinality(Before(es, i)) \in Nat
    BY <1>2, <1>3, FS_Subset, FS_CardinalityType
<1>5. i \in Before(es, i)
    BY <1>1 DEF Before
<1>6. Cardinality(Before(es, i)) # 0
    BY <1>4, <1>5, FS_EmptySet
<1>7. Place(es, i) = Cardinality(Before(es, i))
    BY DEF Place, Before
<1> QED
    BY <1>1, <1>4, <1>6, <1>7

\* Which of two entries comes first.
Precedes(es, i, j) ==
    es[i].key < es[j].key \/ (es[i].key = es[j].key /\ i < j)

LEMMA PlaceOrder ==
    ASSUME NEW es \in Seq(Entry), NEW i \in DOMAIN es, NEW j \in DOMAIN es,
           Precedes(es, i, j)
    PROVE  Place(es, i) < Place(es, j)
<1>1. /\ \A m \in DOMAIN es : es[m].key \in Nat
      /\ DOMAIN es = 1..Len(es) /\ Len(es) \in Nat
    BY KeyType
<1>2. Before(es, i) \subseteq Before(es, j)
    BY <1>1 DEF Before, Precedes
<1>3. j \in Before(es, j) /\ j \notin Before(es, i)
    BY <1>1 DEF Before, Precedes
<1>4. /\ Cardinality(Before(es, i)) <= Cardinality(Before(es, j))
      /\ Cardinality(Before(es, i)) # Cardinality(Before(es, j))
    BY <1>2, <1>3, PlaceType, FS_Subset
<1> QED
    BY <1>4, <1>1, PlaceType

LEMMA PlaceInjective ==
    ASSUME NEW es \in Seq(Entry), NEW i \in DOMAIN es, NEW j \in DOMAIN es,
           Place(es, i) = Place(es, j)
    PROVE  i = j
<1>1. /\ es[i].key \in Nat /\ es[j].key \in Nat /\ i \in Nat /\ j \in Nat
    BY KeyType
<1>2. i # j => Precedes(es, i, j) \/ Precedes(es, j, i)
    BY <1>1 DEF Precedes
<1>3. Place(es, i) \in Nat /\ Place(es, j) \in Nat
    BY KeyType, PlaceType
<1> QED
    BY <1>2, <1>3, PlaceOrder

\* Every position is the place of an entry.
LEMMA PlaceOnto ==
    ASSUME NEW es \in Seq(Entry), NEW n \in DOMAIN es
    PROVE  \E i \in DOMAIN es : Place(es, i) = n
<1> DEFINE S == DOMAIN es
           f == [i \in S |-> Place(es, i)]
<1>1. f \in [S -> S]
    BY PlaceType
<1>2. f \in Injection(S, S)
    BY <1>1, PlaceInjective DEF Injection, IsInjective
<1>3. IsFiniteSet(S)
    BY KeyType, FS_Interval
<1>4. f \in Surjection(S, S)
    BY <1>2, <1>3, FS_Injection
<1> QED
    BY <1>4 DEF Surjection

\* The sorted entries are the entries in another order.
LEMMA SortedType ==
    ASSUME NEW es \in Seq(Entry)
    PROVE  /\ Sorted(es) \in Seq(Entry) /\ DOMAIN Sorted(es) = DOMAIN es
           /\ \A n \in DOMAIN es : \E i \in DOMAIN es :
                 Place(es, i) = n /\ Sorted(es)[n] = es[i]
           /\ \A i \in DOMAIN es : Sorted(es)[Place(es, i)] = es[i]
<1> DEFINE from(n) == CHOOSE i \in DOMAIN es : Place(es, i) = n
<1>1. \A n \in DOMAIN es : from(n) \in DOMAIN es /\ Place(es, from(n)) = n
    BY PlaceOnto
<1>2. Sorted(es) = [n \in DOMAIN es |-> es[from(n)]]
    BY DEF Sorted
<1> HIDE DEF from
<1>3. DOMAIN es = 1..Len(es) /\ Len(es) \in Nat /\ \A i \in DOMAIN es : es[i] \in Entry
    BY KeyType
<1>4. Sorted(es) \in [1..Len(es) -> Entry]
    BY <1>1, <1>2, <1>3
<1>5. ASSUME NEW i \in DOMAIN es PROVE Sorted(es)[Place(es, i)] = es[i]
    <2>1. Place(es, i) \in DOMAIN es
        BY PlaceType
    <2>2. from(Place(es, i)) = i
        BY <1>1, <2>1, PlaceInjective
    <2> QED
        BY <1>2, <2>1, <2>2
<1>6. ASSUME NEW n \in DOMAIN es
      PROVE  \E i \in DOMAIN es : Place(es, i) = n /\ Sorted(es)[n] = es[i]
    BY <1>1, <1>2, <1>6
<1>7. Sorted(es) \in Seq(Entry) /\ DOMAIN Sorted(es) = DOMAIN es
    <2>1. DOMAIN Sorted(es) = DOMAIN es
        BY <1>2
    <2> HIDE DEF Sorted
    <2> QED
        BY <1>3, <1>4, <2>1
<1> QED
    BY <1>5, <1>6, <1>7

\* Sorting loses no entry and adds none.
LEMMA SortedRange ==
    ASSUME NEW es \in Seq(Entry)
    PROVE  Range(Sorted(es)) = Range(es)
<1>1. /\ DOMAIN Sorted(es) = DOMAIN es
      /\ \A n \in DOMAIN es : \E i \in DOMAIN es : Sorted(es)[n] = es[i]
      /\ \A i \in DOMAIN es : /\ Place(es, i) \in DOMAIN es
                             /\ Sorted(es)[Place(es, i)] = es[i]
    BY SortedType, PlaceType
<1> QED
    BY <1>1 DEF Range

----------------------------------------------------------------------------
(* Documents: what an archive holds, by key.                               *)

Docs == [Keys -> Entry \cup {None}]

Uniq(es) == \A i, j \in DOMAIN es : es[i].key = es[j].key => i = j

Increasing(es) == \A i, j \in DOMAIN es : i < j => es[i].key < es[j].key

Doc(es) ==
    [k \in Keys |-> IF \E i \in DOMAIN es : es[i].key = k
                    THEN es[CHOOSE i \in DOMAIN es : es[i].key = k] ELSE None]

\* A document holds every entry under its key, and nothing else.
LEMMA DocIs ==
    ASSUME NEW es \in Seq(Entry), Uniq(es)
    PROVE  /\ Doc(es) \in Docs
           /\ \A i \in DOMAIN es : Doc(es)[es[i].key] = es[i]
           /\ \A k \in Keys : Doc(es)[k] # None <=> \E i \in DOMAIN es : es[i].key = k
<1> DEFINE at(k) == CHOOSE i \in DOMAIN es : es[i].key = k
<1>1. \A i \in DOMAIN es : es[i] \in Entry /\ es[i].key \in Keys /\ es[i] # None
    BY KeyType, EditorAssumption
<1>2. ASSUME NEW k \in Keys, \E i \in DOMAIN es : es[i].key = k
      PROVE  at(k) \in DOMAIN es /\ es[at(k)].key = k
    BY <1>2
<1>3. ASSUME NEW i \in DOMAIN es PROVE at(es[i].key) = i
    BY <1>1, <1>2 DEF Uniq
<1>4. Doc(es) = [k \in Keys |-> IF \E i \in DOMAIN es : es[i].key = k
                                THEN es[at(k)] ELSE None]
    BY DEF Doc
<1> HIDE DEF at
<1>5. ASSUME NEW k \in Keys
      PROVE  /\ Doc(es)[k] \in Entry \cup {None}
             /\ Doc(es)[k] # None <=> \E i \in DOMAIN es : es[i].key = k
    BY <1>1, <1>2, <1>4
<1>6. Doc(es) \in Docs
    BY <1>4, <1>5 DEF Docs
<1> QED
    BY <1>1, <1>3, <1>4, <1>5, <1>6

\* The only document that does.
LEMMA DocBy ==
    ASSUME NEW es \in Seq(Entry), Uniq(es), NEW D \in Docs,
           \A i \in DOMAIN es : D[es[i].key] = es[i],
           \A k \in Keys : D[k] # None => \E i \in DOMAIN es : es[i].key = k
    PROVE  Doc(es) = D
<1>1. ASSUME NEW k \in Keys PROVE Doc(es)[k] = D[k]
    <2>1. CASE \E i \in DOMAIN es : es[i].key = k
        BY <2>1, DocIs
    <2>2. CASE ~\E i \in DOMAIN es : es[i].key = k
        BY <2>2, DocIs
    <2> QED
        BY <2>1, <2>2
<1>2. Doc(es) \in Docs
    BY DocIs
<1> QED
    BY <1>1, <1>2 DEF Docs

\* Increasing keys are different.
LEMMA IncreasingUniq ==
    ASSUME NEW es \in Seq(Entry), Increasing(es)
    PROVE  Uniq(es)
<1> SUFFICES ASSUME NEW i \in DOMAIN es, NEW j \in DOMAIN es, es[i].key = es[j].key
             PROVE  i = j
    BY DEF Uniq
<1>1. i \in Nat /\ j \in Nat /\ es[i].key \in Nat /\ es[j].key \in Nat
    BY KeyType
<1> QED
    BY <1>1 DEF Increasing

\* Sorting changes no document.
LEMMA SortedDoc ==
    ASSUME NEW es \in Seq(Entry), Uniq(es)
    PROVE  /\ Increasing(Sorted(es)) /\ Uniq(Sorted(es))
           /\ Doc(Sorted(es)) = Doc(es)
<1>1. /\ Sorted(es) \in Seq(Entry) /\ DOMAIN Sorted(es) = DOMAIN es
      /\ \A n \in DOMAIN es : \E i \in DOMAIN es :
            Place(es, i) = n /\ Sorted(es)[n] = es[i]
      /\ \A i \in DOMAIN es : Sorted(es)[Place(es, i)] = es[i]
    BY SortedType
<1>2. ASSUME NEW m \in DOMAIN es, NEW n \in DOMAIN es, m < n
      PROVE  Sorted(es)[m].key < Sorted(es)[n].key
    <2>1. PICK i \in DOMAIN es : Place(es, i) = m /\ Sorted(es)[m] = es[i]
        BY <1>1
    <2>2. PICK j \in DOMAIN es : Place(es, j) = n /\ Sorted(es)[n] = es[j]
        BY <1>1
    <2>3. es[i].key \in Nat /\ es[j].key \in Nat /\ m \in Nat /\ n \in Nat
        BY KeyType
    <2>4. i # j
        BY <1>2, <2>1, <2>2, <2>3
    <2>5. ~Precedes(es, j, i)
        BY <1>2, <2>1, <2>2, <2>3, PlaceOrder
    <2>6. es[i].key # es[j].key
        BY <2>4 DEF Uniq
    <2> QED
        BY <2>1, <2>2, <2>3, <2>5, <2>6 DEF Precedes
<1>3. Increasing(Sorted(es))
    BY <1>1, <1>2 DEF Increasing
<1>4. Uniq(Sorted(es))
    BY <1>1, <1>3, IncreasingUniq
<1>5. Doc(es) \in Docs
    BY DocIs
<1>6. \A n \in DOMAIN Sorted(es) : Doc(es)[Sorted(es)[n].key] = Sorted(es)[n]
    BY <1>1, DocIs
<1>7. ASSUME NEW k \in Keys, Doc(es)[k] # None
      PROVE  \E n \in DOMAIN Sorted(es) : Sorted(es)[n].key = k
    <2>1. PICK i \in DOMAIN es : es[i].key = k
        BY <1>7, DocIs
    <2>2. Place(es, i) \in DOMAIN Sorted(es)
        BY <1>1, PlaceType
    <2> QED
        BY <1>1, <2>1, <2>2
<1>8. Doc(Sorted(es)) = Doc(es)
    BY <1>1, <1>4, <1>5, <1>6, <1>7, DocBy
<1> QED
    BY <1>3, <1>4, <1>8

\* Keys that do not fall, though one may be held twice.
Ordered(es) == \A i, j \in DOMAIN es : i <= j => es[i].key <= es[j].key

\* Sorted entries are in order, whatever they were.
LEMMA SortedOrdered ==
    ASSUME NEW es \in Seq(Entry)
    PROVE  Ordered(Sorted(es))
<1>1. /\ DOMAIN Sorted(es) = DOMAIN es
      /\ \A n \in DOMAIN es : \E i \in DOMAIN es :
            Place(es, i) = n /\ Sorted(es)[n] = es[i]
    BY SortedType
<1> SUFFICES ASSUME NEW m \in DOMAIN es, NEW n \in DOMAIN es, m <= n
             PROVE  Sorted(es)[m].key <= Sorted(es)[n].key
    BY <1>1 DEF Ordered
<1>2. PICK i \in DOMAIN es : Place(es, i) = m /\ Sorted(es)[m] = es[i]
    BY <1>1
<1>3. PICK j \in DOMAIN es : Place(es, j) = n /\ Sorted(es)[n] = es[j]
    BY <1>1
<1>4. es[i].key \in Nat /\ es[j].key \in Nat /\ m \in Nat /\ n \in Nat
    BY KeyType
<1>5. ~Precedes(es, j, i)
    BY <1>2, <1>3, <1>4, PlaceOrder
<1> QED
    BY <1>2, <1>3, <1>4, <1>5 DEF Precedes

LEMMA OrderedIncreases ==
    ASSUME NEW es \in Seq(Entry), Uniq(es), Ordered(es)
    PROVE  Increasing(es)
<1> SUFFICES ASSUME NEW i \in DOMAIN es, NEW j \in DOMAIN es, i < j
             PROVE  es[i].key < es[j].key
    BY DEF Increasing
<1>1. /\ i \in Nat /\ j \in Nat /\ es[i].key \in Nat /\ es[j].key \in Nat /\ i <= j
    BY KeyType
<1>2. es[i].key <= es[j].key /\ es[i].key # es[j].key
    BY <1>1 DEF Ordered, Uniq
<1> QED
    BY <1>1, <1>2

\* As many keys as the position of an entry says are not behind it.
UpTo(D, k) == {m \in Keys : D[m] # None /\ m <= k}

LEMMA PositionIs ==
    ASSUME NEW es \in Seq(Entry), Increasing(es), NEW i \in DOMAIN es
    PROVE  Cardinality(UpTo(Doc(es), es[i].key)) = i
<1> DEFINE f == [n \in 1..i |-> es[n].key]
           T == UpTo(Doc(es), es[i].key)
<1>1. /\ DOMAIN es = 1..Len(es) /\ Len(es) \in Nat /\ i \in Nat
      /\ \A n \in DOMAIN es : es[n].key \in Nat /\ es[n].key \in Keys
    BY KeyType
<1>2. Uniq(es)
    BY IncreasingUniq
<1>3. \A n \in 1..i : n \in DOMAIN es
    BY <1>1
<1>4. ASSUME NEW n \in 1..i PROVE f[n] \in T
    <2>1. es[n].key <= es[i].key
        BY <1>1, <1>3 DEF Increasing
    <2>2. Doc(es)[es[n].key] # None
        BY <1>1, <1>2, <1>3, DocIs
    <2> QED
        BY <1>1, <1>3, <2>1, <2>2 DEF UpTo
<1>5. ASSUME NEW k \in T PROVE \E n \in 1..i : f[n] = k
    <2>1. k \in Keys /\ Doc(es)[k] # None /\ k <= es[i].key
        BY DEF UpTo
    <2>2. PICK n \in DOMAIN es : es[n].key = k
        BY <1>2, <2>1, DocIs
    <2>3. n <= i
        BY <1>1, <2>1, <2>2 DEF Increasing
    <2> QED
        BY <1>1, <2>2, <2>3
<1>6. \A m, n \in 1..i : f[m] = f[n] => m = n
    BY <1>2, <1>3 DEF Uniq
<1> HIDE DEF T
<1>7. f \in Surjection(1..i, T)
    BY <1>4, <1>5 DEF Surjection
<1>8. f \in Injection(1..i, T)
    BY <1>4, <1>6 DEF Injection, IsInjective
<1>9. ExistsBijection(1..i, T)
    BY <1>7, <1>8 DEF ExistsBijection, Bijection
<1>10. IsFiniteSet(1..i) /\ Cardinality(1..i) = i
    <2>1. 1 \in Int /\ i \in Int /\ 1 <= i
        BY <1>1
    <2>2. /\ IsFiniteSet(1..i)
          /\ Cardinality(1..i) = IF 1 > i THEN 0 ELSE i - 1 + 1
        BY <2>1, FS_Interval
    <2> QED
        BY <1>1, <2>1, <2>2
<1>11. Cardinality(T) = i
    BY <1>9, <1>10, FS_Bijection
<1> QED
    BY <1>11 DEF T

\* So sorted archives with the same document are the same.
LEMMA SameDoc ==
    ASSUME NEW a \in Seq(Entry), NEW b \in Seq(Entry), Increasing(a), Increasing(b),
           Doc(a) = Doc(b)
    PROVE  a = b
<1>1. ASSUME NEW s \in Seq(Entry), NEW t \in Seq(Entry), Increasing(s), Increasing(t),
             Doc(s) = Doc(t), NEW i \in DOMAIN s
      PROVE  i \in DOMAIN t /\ t[i] = s[i]
    <2>1. Uniq(s) /\ Uniq(t)
        BY <1>1, IncreasingUniq
    <2>2. s[i].key \in Keys /\ Doc(s)[s[i].key] # None
        BY <1>1, <2>1, DocIs, KeyType
    <2>3. PICK j \in DOMAIN t : t[j].key = s[i].key
        BY <1>1, <2>1, <2>2, DocIs
    <2>4. i = j
        BY <1>1, <2>3, PositionIs
    <2>5. t[j] = s[i]
        BY <1>1, <2>1, <2>3, DocIs
    <2> QED
        BY <2>4, <2>5
<1>2. DOMAIN a = DOMAIN b /\ \A i \in DOMAIN a : a[i] = b[i]
    BY <1>1
<1>3. a = [i \in DOMAIN a |-> a[i]] /\ b = [i \in DOMAIN b |-> b[i]]
    OBVIOUS
<1> QED
    BY <1>2, <1>3

----------------------------------------------------------------------------
(* Sequences without, or with, one more element.                           *)

LEMMA RemoveAtIs ==
    ASSUME NEW S, NEW s \in Seq(S), NEW i \in DOMAIN s
    PROVE  /\ RemoveAt(s, i) \in Seq(S)
           /\ Len(RemoveAt(s, i)) = Len(s) - 1
           /\ \A n \in 1..(Len(s) - 1) :
                 RemoveAt(s, i)[n] = IF n < i THEN s[n] ELSE s[n + 1]
<1> DEFINE a == SubSeq(s, 1, i - 1)
           b == SubSeq(s, i + 1, Len(s))
<1>1. /\ Len(s) \in Nat /\ i \in 1..Len(s) /\ i \in Int /\ i - 1 \in Int /\ i + 1 \in Int
      /\ Len(s) \in Int /\ 1 \in Int
    OBVIOUS
<1>2. /\ \A n \in 1..(i - 1) : s[n] \in S
      /\ \A n \in (i + 1)..Len(s) : s[n] \in S
    BY <1>1
<1>3. /\ a \in Seq(S) /\ Len(a) = IF 1 <= i - 1 THEN i - 1 - 1 + 1 ELSE 0
      /\ \A n \in 1..(i - 1 - 1 + 1) : a[n] = s[1 + n - 1]
    BY <1>1, <1>2, SubSeqProperties
<1>4. /\ b \in Seq(S) /\ Len(b) = IF i + 1 <= Len(s) THEN Len(s) - (i + 1) + 1 ELSE 0
      /\ \A n \in 1..(Len(s) - (i + 1) + 1) : b[n] = s[i + 1 + n - 1]
    BY <1>1, <1>2, SubSeqProperties
<1> HIDE DEF a, b
<1>5. /\ a \o b \in Seq(S) /\ Len(a \o b) = Len(a) + Len(b)
      /\ \A n \in 1..(Len(a) + Len(b)) :
            (a \o b)[n] = IF n <= Len(a) THEN a[n] ELSE b[n - Len(a)]
    BY <1>3, <1>4, ConcatProperties
<1>6. Len(a) = i - 1 /\ Len(b) = Len(s) - i
    BY <1>1, <1>3, <1>4
<1>7. Len(a) + Len(b) = Len(s) - 1
    BY <1>1, <1>6
<1>8. ASSUME NEW n \in 1..(Len(s) - 1)
      PROVE  (a \o b)[n] = IF n < i THEN s[n] ELSE s[n + 1]
    <2>1. CASE n < i
        <3>1. n \in 1..(i - 1 - 1 + 1) /\ 1 + n - 1 = n /\ n <= Len(a)
            BY <1>1, <1>6, <2>1
        <3> QED
            BY <1>3, <1>5, <1>7, <2>1, <3>1
    <2>2. CASE ~(n < i)
        <3>1. /\ n - Len(a) \in 1..(Len(s) - (i + 1) + 1) /\ ~(n <= Len(a))
              /\ i + 1 + (n - Len(a)) - 1 = n + 1
            <4>1. /\ n \in Int /\ i \in Int /\ Len(s) \in Int /\ n >= i /\ n <= Len(s) - 1
                BY <1>1, <2>2
            <4>2. /\ n - (i - 1) \in 1..(Len(s) - (i + 1) + 1) /\ ~(n <= i - 1)
                  /\ i + 1 + (n - (i - 1)) - 1 = n + 1
                BY ONLY <4>1
            <4> QED
                BY <1>6, <4>2
        <3>2. b[n - Len(a)] = s[n + 1]
            BY <1>4, <3>1
        <3> QED
            BY <1>5, <1>7, <2>2, <3>1, <3>2
    <2> QED
        BY <2>1, <2>2
<1>9. RemoveAt(s, i) = a \o b
    BY DEF RemoveAt, a, b
<1> QED
    BY <1>5, <1>7, <1>8, <1>9

\* Where an element of the rest came from, and where the others went.
LEMMA RemoveAtFrom ==
    ASSUME NEW S, NEW s \in Seq(S), NEW i \in DOMAIN s
    PROVE  \A n \in DOMAIN RemoveAt(s, i) : \E m \in DOMAIN s \ {i} :
              m = (IF n < i THEN n ELSE n + 1) /\ RemoveAt(s, i)[n] = s[m]
<1>1. /\ RemoveAt(s, i) \in Seq(S) /\ Len(RemoveAt(s, i)) = Len(s) - 1
      /\ Len(s) \in Nat /\ i \in 1..Len(s) /\ DOMAIN s = 1..Len(s)
    BY RemoveAtIs
<1>2. DOMAIN RemoveAt(s, i) = 1..(Len(s) - 1)
    BY <1>1
<1> TAKE n \in DOMAIN RemoveAt(s, i)
<1>3. n \in 1..(Len(s) - 1)
    BY <1>2
<1> DEFINE m == IF n < i THEN n ELSE n + 1
<1>4. m \in DOMAIN s \ {i}
    BY <1>1, <1>3
<1>5. RemoveAt(s, i)[n] = s[m]
    BY <1>3, RemoveAtIs
<1> WITNESS m \in DOMAIN s \ {i}
<1> QED
    BY <1>5

LEMMA RemoveAtTo ==
    ASSUME NEW S, NEW s \in Seq(S), NEW i \in DOMAIN s
    PROVE  \A m \in DOMAIN s \ {i} : \E n \in DOMAIN RemoveAt(s, i) :
              RemoveAt(s, i)[n] = s[m]
<1>1. /\ RemoveAt(s, i) \in Seq(S) /\ Len(RemoveAt(s, i)) = Len(s) - 1
      /\ Len(s) \in Nat /\ i \in 1..Len(s) /\ DOMAIN s = 1..Len(s)
    BY RemoveAtIs
<1>2. DOMAIN RemoveAt(s, i) = 1..(Len(s) - 1)
    BY <1>1
<1> TAKE m \in DOMAIN s \ {i}
<1> DEFINE n == IF m < i THEN m ELSE m - 1
<1>3. /\ n \in 1..(Len(s) - 1)
      /\ m = IF n < i THEN n ELSE n + 1
    BY <1>1
<1> HIDE DEF n
<1>4. RemoveAt(s, i)[n] = s[m]
    BY <1>3, RemoveAtIs
<1> QED
    BY <1>2, <1>3, <1>4

\* The last place of a longer sequence.
LEMMA AppendIs ==
    ASSUME NEW S, NEW s \in Seq(S), NEW x \in S
    PROVE  /\ Append(s, x) \in Seq(S) /\ DOMAIN Append(s, x) = DOMAIN s \cup {Len(s) + 1}
           /\ Len(Append(s, x)) = Len(s) + 1 /\ Len(s) + 1 \notin DOMAIN s
           /\ \A i \in DOMAIN s : Append(s, x)[i] = s[i]
           /\ Append(s, x)[Len(s) + 1] = x
OBVIOUS

----------------------------------------------------------------------------
(* Patches.                                                                *)

\* apply_archive_edit of one change does to the document what it says.
LEMMA ApplyIs ==
    ASSUME NEW es \in Seq(Entry), Uniq(es), NEW change, change.key \in Keys,
           NEW target \in Entry \cup {None}, target # None => target.key = change.key
    PROVE  /\ Apply(es, change, target) \in Seq(Entry) /\ Uniq(Apply(es, change, target))
           /\ Doc(Apply(es, change, target)) = [Doc(es) EXCEPT ![change.key] = target]
<1> DEFINE k == change.key
           new == Apply(es, change, target)
           D == [Doc(es) EXCEPT ![k] = target]
<1>1. /\ Len(es) \in Nat /\ DOMAIN es = 1..Len(es)
      /\ \A i \in DOMAIN es : es[i] \in Entry /\ es[i].key \in Keys /\ es[i] # None
    BY KeyType, EditorAssumption
<1>2. /\ Doc(es) \in Docs
      /\ \A i \in DOMAIN es : Doc(es)[es[i].key] = es[i]
      /\ \A m \in Keys : Doc(es)[m] # None <=> \E i \in DOMAIN es : es[i].key = m
    BY DocIs
<1>3. D \in Docs /\ \A m \in Keys : D[m] = IF m = k THEN target ELSE Doc(es)[m]
    BY <1>2 DEF Docs
<1> HIDE DEF D
<1>4. CASE At(es, k) = {}
    <2>1. \A i \in DOMAIN es : es[i].key # k
        BY <1>4 DEF At
    <2>2. CASE target = None
        <3>1. new = es
            BY <1>4, <2>2 DEF Apply
        <3>2. Doc(es)[k] = None
            BY <1>2, <2>1
        <3>3. \A m \in Keys : D[m] = Doc(es)[m]
            BY <1>3, <2>2, <3>2
        <3>4. Doc(es) = D
            BY <1>2, <1>3, <3>3 DEF Docs
        <3> QED
            BY <3>1, <3>4 DEF D
    <2>3. CASE target # None
        <3>0. target \in Entry /\ target.key = k
            BY <2>3
        <3>1. new = Append(es, target)
            BY <1>4, <2>3 DEF Apply
        <3>2. /\ new \in Seq(Entry) /\ DOMAIN new = DOMAIN es \cup {Len(es) + 1}
              /\ \A i \in DOMAIN es : new[i] = es[i]
              /\ new[Len(es) + 1] = target
            BY <3>0, <3>1, AppendIs
        <3> HIDE DEF new
        <3>3. Uniq(new)
            BY <2>1, <3>0, <3>2 DEF Uniq
        <3>4. \A i \in DOMAIN new : D[new[i].key] = new[i]
            BY <1>1, <1>2, <1>3, <2>1, <3>0, <3>2
        <3>5. ASSUME NEW m \in Keys, D[m] # None PROVE \E i \in DOMAIN new : new[i].key = m
            BY <1>2, <1>3, <3>0, <3>2, <3>5
        <3>6. Doc(new) = D
            BY <1>3, <3>2, <3>3, <3>4, <3>5, DocBy
        <3> QED
            BY <3>2, <3>3, <3>6 DEF new, D
    <2> QED
        BY <2>2, <2>3
<1>5. CASE At(es, k) # {}
    <2> DEFINE at == CHOOSE i \in At(es, k) : \A j \in At(es, k) : i <= j
    <2>1. PICK i \in DOMAIN es : At(es, k) = {i} /\ es[i].key = k
        BY <1>5 DEF At, Uniq
    <2>2. at = i
        <3>1. i \in At(es, k) /\ \A j \in At(es, k) : i <= j
            BY <1>1, <2>1
        <3>2. at \in At(es, k)
            BY <3>1
        <3> QED
            BY <2>1, <3>2
    <2>3. CASE target = None
        <3>1. new = RemoveAt(es, i)
            BY <1>5, <2>2, <2>3 DEF Apply
        <3>2. /\ new \in Seq(Entry)
              /\ \A n \in DOMAIN new : \E m \in DOMAIN es \ {i} :
                    m = (IF n < i THEN n ELSE n + 1) /\ new[n] = es[m]
              /\ \A m \in DOMAIN es \ {i} : \E n \in DOMAIN new : new[n] = es[m]
            BY <3>1, RemoveAtIs, RemoveAtFrom, RemoveAtTo
        <3> HIDE DEF new
        <3>3. ASSUME NEW a \in DOMAIN new, NEW b \in DOMAIN new, new[a].key = new[b].key
              PROVE  a = b
            <4>1. PICK m \in DOMAIN es \ {i} :
                        m = (IF a < i THEN a ELSE a + 1) /\ new[a] = es[m]
                BY <3>2
            <4>2. PICK n \in DOMAIN es \ {i} :
                        n = (IF b < i THEN b ELSE b + 1) /\ new[b] = es[n]
                BY <3>2
            <4>3. m = n
                BY <3>3, <4>1, <4>2 DEF Uniq
            <4>4. a \in Nat /\ b \in Nat /\ i \in Nat
                <5>1. DOMAIN new = 1..Len(new) /\ Len(new) \in Nat
                    BY <3>2, KeyType
                <5> QED
                    BY <5>1, <1>1
            <4> QED
                BY <4>1, <4>2, <4>3, <4>4
        <3>4. Uniq(new)
            BY <3>3 DEF Uniq
        <3>5. ASSUME NEW a \in DOMAIN new PROVE D[new[a].key] = new[a]
            <4>1. PICK m \in DOMAIN es \ {i} : new[a] = es[m]
                BY <3>2
            <4>2. es[m].key # k
                BY <2>1, <4>1 DEF Uniq
            <4> QED
                BY <1>1, <1>2, <1>3, <4>1, <4>2
        <3>6. ASSUME NEW m \in Keys, D[m] # None PROVE \E a \in DOMAIN new : new[a].key = m
            <4>1. m # k /\ Doc(es)[m] # None
                BY <1>3, <2>3, <3>6
            <4>2. PICK j \in DOMAIN es : es[j].key = m
                BY <1>2, <4>1
            <4>3. j # i
                BY <2>1, <4>1, <4>2
            <4> QED
                BY <3>2, <4>2, <4>3
        <3>7. Doc(new) = D
            BY <1>3, <3>2, <3>4, <3>5, <3>6, DocBy
        <3> QED
            BY <3>2, <3>4, <3>7 DEF new, D
    <2>4. CASE target # None
        <3>0. target \in Entry /\ target.key = k
            BY <2>4
        <3>1. new = [es EXCEPT ![i] = target]
            BY <1>5, <2>2, <2>4 DEF Apply
        <3>2. /\ new \in Seq(Entry) /\ DOMAIN new = DOMAIN es /\ new[i] = target
              /\ \A j \in DOMAIN es \ {i} : new[j] = es[j]
            BY <3>0, <3>1
        <3> HIDE DEF new
        <3>3. \A j \in DOMAIN es : new[j].key = es[j].key
            BY <2>1, <3>0, <3>2
        <3>4. Uniq(new)
            BY <3>2, <3>3 DEF Uniq
        <3>5. ASSUME NEW j \in DOMAIN new PROVE D[new[j].key] = new[j]
            <4>1. CASE j = i
                BY <1>3, <3>0, <3>2, <4>1
            <4>2. CASE j # i
                <5>1. es[j].key # k
                    BY <2>1, <3>2, <4>2 DEF Uniq
                <5> QED
                    BY <1>1, <1>2, <1>3, <3>2, <4>2, <5>1
            <4> QED
                BY <4>1, <4>2
        <3>6. \A m \in Keys : D[m] # None => \E j \in DOMAIN new : new[j].key = m
            BY <1>2, <1>3, <2>1, <3>2, <3>3
        <3>7. Doc(new) = D
            BY <1>3, <3>2, <3>4, <3>5, <3>6, DocBy
        <3> QED
            BY <3>2, <3>4, <3>7 DEF new, D
    <2> QED
        BY <2>3, <2>4
<1> QED
    BY <1>4, <1>5

\* Archives without equal keys.
Archives == {es \in Seq(Entry) : Uniq(es)}

\* The changes of a transaction, each of a key of its own, and what they make
\* of it.
ChangeSet == [key : Keys, before : Entry \cup {None}, after : Entry \cup {None}]

Fits(target, changes) ==
    /\ DOMAIN target = DOMAIN changes
    /\ \A n \in DOMAIN changes :
          /\ target[n] \in Entry \cup {None}
          /\ target[n] # None => target[n].key = changes[n].key

\* What the recursive definition in Patches says of its function.
Follows(f, es, changes, target) ==
    f = [n \in 0..Len(changes) |->
            IF n = 0 THEN es ELSE Apply(f[n - 1], changes[n], target[n])]

LEMMA OnePatch ==
    ASSUME NEW changes \in Seq(ChangeSet), NEW target, Fits(target, changes),
           NEW n \in DOMAIN changes, NEW es \in Archives
    PROVE  /\ Apply(es, changes[n], target[n]) \in Archives
           /\ Doc(Apply(es, changes[n], target[n])) =
                 [Doc(es) EXCEPT ![changes[n].key] = target[n]]
<1>1. changes[n] \in ChangeSet
    OBVIOUS
<1>2. changes[n].key \in Keys
    BY <1>1 DEF ChangeSet
<1>3. es \in Seq(Entry) /\ Uniq(es)
    BY DEF Archives
<1> QED
    BY <1>2, <1>3, ApplyIs DEF Fits, Archives

LEMMA PatchesExist ==
    ASSUME NEW changes \in Seq(ChangeSet), NEW target, NEW T, NEW es \in T,
           \A n \in DOMAIN changes : \A x \in T : Apply(x, changes[n], target[n]) \in T
    PROVE  \E f : Follows(f, es, changes, target)
<1> DEFINE step(n, x) == Apply(x, changes[n], target[n])
           Upto(f, m) == f[0] = es /\ \A n \in 1..m : f[n] = step(n, f[n - 1])
           Has(m) == \E f \in [0..m -> T] : Upto(f, m)
           S == {m \in Nat : m <= Len(changes) => Has(m)}
<1>0. Len(changes) \in Nat /\ DOMAIN changes = 1..Len(changes)
    OBVIOUS
<1>1. \A n \in 1..Len(changes) : \A x \in T : step(n, x) \in T
    BY <1>0
<1> HIDE DEF step
<1>2. 0 \in S
    <2> DEFINE f == [n \in 0..0 |-> es]
    <2>1. f \in [0..0 -> T] /\ Upto(f, 0)
        OBVIOUS
    <2> QED
        BY <2>1
<1>3. ASSUME NEW m \in Nat, Has(m), m + 1 <= Len(changes)
      PROVE  Has(m + 1)
    <2>1. PICK f \in [0..m -> T] : Upto(f, m)
        BY <1>3
    <2> DEFINE last == step(m + 1, f[m])
               g == [n \in 0..(m + 1) |-> IF n = m + 1 THEN last ELSE f[n]]
    <2>2. m + 1 \in 1..Len(changes) /\ f[m] \in T
        BY <1>0, <1>3
    <2>3. last \in T
        BY <1>1, <2>2
    <2>4. g \in [0..(m + 1) -> T]
        BY <2>3
    <2>5. g[m + 1] = last /\ \A n \in 0..m : g[n] = f[n]
        OBVIOUS
    <2> HIDE DEF g
    <2>6. ASSUME NEW n \in 1..(m + 1) PROVE g[n] = step(n, g[n - 1])
        <3>1. CASE n = m + 1
            <4>1. n - 1 = m /\ m \in 0..m
                BY <3>1
            <4> QED
                BY <3>1, <4>1, <2>5
        <3>2. CASE n # m + 1
            <4>1. n \in 0..m /\ n - 1 \in 0..m /\ n \in 1..m
                BY <3>2
            <4>2. f[n] = step(n, f[n - 1])
                BY <4>1, <2>1
            <4> QED
                BY <4>1, <4>2, <2>5
        <3> QED
            BY <3>1, <3>2
    <2>7. g[0] = es
        BY <2>1, <2>5
    <2> QED
        BY <2>4, <2>6, <2>7
<1> HIDE DEF Has
<1>4. \A m \in Nat : m \in S => m + 1 \in S
    BY <1>0, <1>3
<1> HIDE DEF S
<1>5. Len(changes) \in S
    BY <1>0, <1>2, <1>4, Induct
<1>6. PICK f \in [0..Len(changes) -> T] : Upto(f, Len(changes))
    BY <1>0, <1>5 DEF S, Has
<1>7. ASSUME NEW n \in 0..Len(changes)
      PROVE  f[n] = IF n = 0 THEN es ELSE step(n, f[n - 1])
    <2>1. n = 0 \/ n \in 1..Len(changes)
        BY <1>0
    <2> QED
        BY <1>6, <2>1
<1> HIDE DEF Upto
<1>8. f = [n \in 0..Len(changes) |-> IF n = 0 THEN es ELSE step(n, f[n - 1])]
    BY <1>7
<1> QED
    BY <1>8 DEF Follows, step

\* Patches applies one change after the other ...
LEMMA PatchesFollow ==
    ASSUME NEW changes \in Seq(ChangeSet), NEW target, NEW T, NEW es \in T,
           \A n \in DOMAIN changes : \A x \in T : Apply(x, changes[n], target[n]) \in T
    PROVE  /\ Patches(es, changes, target)[0] = es
           /\ \A n \in 1..Len(changes) :
                 Patches(es, changes, target)[n] =
                    Apply(Patches(es, changes, target)[n - 1], changes[n], target[n])
           /\ Patches(es, changes, target)[Len(changes)] \in T
<1> DEFINE P == Patches(es, changes, target)
<1>1. P = CHOOSE f : Follows(f, es, changes, target)
    BY DEF Patches, Follows
<1> HIDE DEF P
<1>2. Follows(P, es, changes, target)
    BY <1>1, PatchesExist
<1> DEFINE F(n) == IF n = 0 THEN es ELSE Apply(P[n - 1], changes[n], target[n])
<1>3. P = [n \in 0..Len(changes) |-> F(n)]
    BY <1>2 DEF Follows
<1> HIDE DEF F
<1>4. \A n \in 0..Len(changes) : P[n] = F(n)
    BY <1>3
<1>5. 0 \in 0..Len(changes) /\ \A n \in 1..Len(changes) : n \in 0..Len(changes) /\ n # 0
    <2>1. Len(changes) \in Nat
        OBVIOUS
    <2> QED
        BY <2>1
<1>6. P[0] = es
    BY <1>4, <1>5 DEF F
<1>7. ASSUME NEW n \in 1..Len(changes) PROVE P[n] = Apply(P[n - 1], changes[n], target[n])
    BY <1>4, <1>5 DEF F
<1> DEFINE S == {m \in Nat : m <= Len(changes) => P[m] \in T}
<1>8. Len(changes) \in Nat /\ DOMAIN changes = 1..Len(changes)
    OBVIOUS
<1>9. 0 \in S
    BY <1>6
<1>10. ASSUME NEW m \in Nat, m \in S PROVE m + 1 \in S
    <2>1. CASE m + 1 <= Len(changes)
        <3>1. m + 1 \in 1..Len(changes) /\ P[m] \in T /\ (m + 1) - 1 = m
            BY <1>8, <1>10, <2>1
        <3>2. P[m + 1] = Apply(P[m], changes[m + 1], target[m + 1])
            BY <1>7, <3>1
        <3>3. P[m + 1] \in T
            BY <1>8, <3>1, <3>2
        <3> QED
            BY <3>3
    <2>2. CASE ~(m + 1 <= Len(changes))
        BY <2>2
    <2> QED
        BY <2>1, <2>2
<1> HIDE DEF S
<1>11. Len(changes) \in S
    BY <1>8, <1>9, <1>10, Induct
<1>12. P[Len(changes)] \in T
    BY <1>8, <1>11 DEF S
<1> QED
    BY <1>6, <1>7, <1>12 DEF P

\* ... and so puts each target under its key, and leaves other keys alone.
Keyed(changes) ==
    \A m, n \in DOMAIN changes : changes[m].key = changes[n].key => m = n

Turned(D, E, changes, target) ==
    /\ \A n \in DOMAIN changes : E[changes[n].key] = target[n]
    /\ \A k \in Keys : (\A n \in DOMAIN changes : changes[n].key # k) => E[k] = D[k]

LEMMA PatchedIs ==
    ASSUME NEW changes \in Seq(ChangeSet), Keyed(changes),
           NEW target, Fits(target, changes), NEW es \in Archives
    PROVE  /\ Patched(es, changes, target) \in Archives
           /\ Turned(Doc(es), Doc(Patched(es, changes, target)), changes, target)
<1> DEFINE P == Patches(es, changes, target)
           Good(m) ==
              /\ P[m] \in Archives
              /\ \A n \in 1..m : Doc(P[m])[changes[n].key] = target[n]
              /\ \A k \in Keys : (\A n \in 1..m : changes[n].key # k)
                                    => Doc(P[m])[k] = Doc(es)[k]
           S == {m \in Nat : m <= Len(changes) => Good(m)}
<1>0. Len(changes) \in Nat /\ DOMAIN changes = 1..Len(changes)
    OBVIOUS
<1>1. P[0] = es /\ \A n \in 1..Len(changes) : P[n] = Apply(P[n - 1], changes[n], target[n])
    <2>1. \A n \in DOMAIN changes : \A x \in Archives :
            Apply(x, changes[n], target[n]) \in Archives
        BY OnePatch
    <2> DEFINE T == Archives
    <2>2. /\ changes \in Seq(ChangeSet) /\ es \in T
          /\ \A n \in DOMAIN changes : \A x \in T : Apply(x, changes[n], target[n]) \in T
        BY <2>1
    <2> HIDE DEF T
    <2>3. /\ Patches(es, changes, target)[0] = es
          /\ \A n \in 1..Len(changes) :
                Patches(es, changes, target)[n] =
                    Apply(Patches(es, changes, target)[n - 1], changes[n], target[n])
          /\ Patches(es, changes, target)[Len(changes)] \in T
        BY ONLY <2>2, PatchesFollow
    <2> QED
        BY <2>3
<1> HIDE DEF P
<1>2. Good(0)
    BY <1>1
<1>3. ASSUME NEW m \in Nat, Good(m), m + 1 <= Len(changes) PROVE Good(m + 1)
    <2> DEFINE next == m + 1
               k0 == changes[next].key
    <2>1. next \in 1..Len(changes) /\ next - 1 = m
        BY <1>0, <1>3
    <2>2. \A n \in 1..next : n \in DOMAIN changes /\ (n = next \/ n \in 1..m)
        BY <1>0, <1>3
    <2>3. \A n \in 1..m : n \in DOMAIN changes /\ n # next
        BY <1>0, <1>3
    <2>4. /\ P[m] \in Archives
          /\ \A n \in 1..m : Doc(P[m])[changes[n].key] = target[n]
          /\ \A k \in Keys : (\A n \in 1..m : changes[n].key # k)
                                => Doc(P[m])[k] = Doc(es)[k]
        BY <1>3
    <2>5. P[next] = Apply(P[m], changes[next], target[next])
        BY <1>1, <2>1
    <2> HIDE DEF next
    <2>6. /\ P[next] \in Archives
          /\ Doc(P[next]) = [Doc(P[m]) EXCEPT ![k0] = target[next]]
        BY <1>0, <2>1, <2>4, <2>5, OnePatch
    <2>7. Doc(P[m]) \in Docs
        BY <2>4, DocIs DEF Archives
    <2>8. \A n \in DOMAIN changes : changes[n] \in ChangeSet /\ changes[n].key \in Keys
        <3>1. \A n \in DOMAIN changes : changes[n] \in ChangeSet
            OBVIOUS
        <3> QED
            BY <3>1 DEF ChangeSet
    <2>9. \A k \in Keys : Doc(P[next])[k] = IF k = k0 THEN target[next] ELSE Doc(P[m])[k]
        BY <2>6, <2>7 DEF Docs
    <2>10. ASSUME NEW n \in 1..next PROVE Doc(P[next])[changes[n].key] = target[n]
        <3>1. CASE n = next
            BY <3>1, <2>2, <2>8, <2>9
        <3>2. CASE n # next
            <4>1. n \in 1..m /\ n \in DOMAIN changes /\ next \in DOMAIN changes
                BY <3>2, <2>1, <2>2, <1>0
            <4>2. changes[n].key # k0 /\ changes[n].key \in Keys
                BY <3>2, <4>1, <2>8 DEF Keyed
            <4> QED
                BY <4>1, <4>2, <2>4, <2>9
        <3> QED
            BY <3>1, <3>2
    <2>11. ASSUME NEW k \in Keys, \A n \in 1..next : changes[n].key # k
           PROVE  Doc(P[next])[k] = Doc(es)[k]
        <3>1. next \in 1..next /\ \A n \in 1..m : n \in 1..next
            BY <2>1 DEF next
        <3> QED
            BY <2>4, <2>9, <2>11, <3>1
    <2>12. Good(next)
        BY <2>6, <2>10, <2>11
    <2> QED
        BY <2>12 DEF next
<1> HIDE DEF Good
<1>4. ASSUME NEW m \in Nat, m \in S PROVE m + 1 \in S
    BY <1>0, <1>3, <1>4
<1>5. 0 \in S
    BY <1>2
<1> HIDE DEF S
<1>6. Len(changes) \in S
    BY <1>0, <1>4, <1>5, Induct
<1>7. Good(Len(changes))
    BY <1>0, <1>6 DEF S
<1> DEFINE last == P[Len(changes)]
<1>8. last \in Archives /\ Turned(Doc(es), Doc(last), changes, target)
    BY <1>0, <1>7 DEF Good, Turned
<1> HIDE DEF last
<1>9. Sorted(last) \in Archives /\ Doc(Sorted(last)) = Doc(last)
    BY <1>8, SortedType, SortedDoc DEF Archives
<1>10. Patched(es, changes, target) = Sorted(last)
    BY DEF Patched, last, P
<1> QED
    BY <1>8, <1>9, <1>10

----------------------------------------------------------------------------
(* Transactions, and the documents before and after them.                  *)

Transactions == [changes : Seq(ChangeSet), dirtyBefore : BOOLEAN]

Befores(changes) == [n \in DOMAIN changes |-> changes[n].before]
Afters(changes) == [n \in DOMAIN changes |-> changes[n].after]

\* Changes lead from the document B to A, and back.
Leads(changes, B, A) ==
    /\ Keyed(changes)
    /\ Fits(Befores(changes), changes) /\ Fits(Afters(changes), changes)
    /\ Turned(B, A, changes, Afters(changes))
    /\ Turned(A, B, changes, Befores(changes))

\* Where a document is turned to is determined.
LEMMA TurnedOnce ==
    ASSUME NEW D \in Docs, NEW E \in Docs, NEW F \in Docs, NEW changes, NEW target,
           Turned(D, E, changes, target), Turned(D, F, changes, target)
    PROVE  E = F
<1>1. \A k \in Keys : E[k] = F[k]
    BY DEF Turned
<1> QED
    BY <1>1 DEF Docs

LEMMA ArchiveDoc ==
    ASSUME NEW es \in Archives
    PROVE  es \in Seq(Entry) /\ Uniq(es) /\ Doc(es) \in Docs
BY DocIs DEF Archives

\* Undo and Redo go along the changes.
LEMMA UndoneIs ==
    ASSUME NEW es \in Archives, NEW changes \in Seq(ChangeSet), NEW B \in Docs,
           Leads(changes, B, Doc(es))
    PROVE  Undone(es, changes) \in Archives /\ Doc(Undone(es, changes)) = B
<1>1. Undone(es, changes) = Patched(es, changes, Befores(changes))
    BY DEF Undone, Befores
<1>2. /\ Undone(es, changes) \in Archives
      /\ Turned(Doc(es), Doc(Undone(es, changes)), changes, Befores(changes))
    BY <1>1, PatchedIs DEF Leads
<1> QED
    BY <1>2, ArchiveDoc, TurnedOnce DEF Leads

LEMMA RedoneIs ==
    ASSUME NEW es \in Archives, NEW changes \in Seq(ChangeSet), NEW A \in Docs,
           Leads(changes, Doc(es), A)
    PROVE  Redone(es, changes) \in Archives /\ Doc(Redone(es, changes)) = A
<1>1. Redone(es, changes) = Patched(es, changes, Afters(changes))
    BY DEF Redone, Afters
<1>2. /\ Redone(es, changes) \in Archives
      /\ Turned(Doc(es), Doc(Redone(es, changes)), changes, Afters(changes))
    BY <1>1, PatchedIs DEF Leads
<1> QED
    BY <1>2, ArchiveDoc, TurnedOnce DEF Leads

----------------------------------------------------------------------------
(* Stacks: their transactions lead from one document to the next, to the   *)
(* one of the tab, and those that would leave the tab without the dirty    *)
(* mark lead back to what is stored.                                       *)

Lead(stored, t, B, A) ==
    Leads(t.changes, B, A) /\ (~t.dirtyBefore => B \in stored)

ChainBy(docs, stored, D, stack, back) ==
    /\ Len(docs) = Len(stack) + 1 /\ docs[Len(stack) + 1] = D
    /\ \A n \in DOMAIN stack :
          IF back THEN Lead(stored, stack[n], docs[n], docs[n + 1])
                  ELSE Lead(stored, stack[n], docs[n + 1], docs[n])

Chain(stored, D, stack, back) == \E docs \in Seq(Docs) : ChainBy(docs, stored, D, stack, back)

LEMMA ChainEmpty ==
    ASSUME NEW stored, NEW D \in Docs, NEW back
    PROVE  Chain(stored, D, <<>>, back)
<1>1. <<D>> \in Seq(Docs) /\ ChainBy(<<D>>, stored, D, <<>>, back)
    BY DEF ChainBy
<1> QED
    BY <1>1 DEF Chain

\* Recording, and what Undo and Redo move to the other stack.
LEMMA ChainAppend ==
    ASSUME NEW stored, NEW D \in Docs, NEW E \in Docs, NEW stack \in Seq(Transactions),
           NEW t \in Transactions, NEW back \in BOOLEAN, Chain(stored, D, stack, back),
           IF back THEN Lead(stored, t, D, E) ELSE Lead(stored, t, E, D)
    PROVE  Chain(stored, E, Append(stack, t), back)
<1>1. PICK docs \in Seq(Docs) : ChainBy(docs, stored, D, stack, back)
    BY DEF Chain
<1> DEFINE more == Append(docs, E)
           longer == Append(stack, t)
           l == Len(stack)
<1>2. /\ l \in Nat /\ DOMAIN stack = 1..l /\ Len(docs) = l + 1 /\ DOMAIN docs = 1..(l + 1)
      /\ docs[l + 1] = D
    BY <1>1 DEF ChainBy
<1>3. /\ more \in Seq(Docs) /\ Len(more) = l + 2
      /\ \A n \in 1..(l + 1) : more[n] = docs[n]
      /\ more[l + 2] = E
    BY <1>2
<1>4. /\ Len(longer) = l + 1 /\ DOMAIN longer = 1..(l + 1)
      /\ \A n \in 1..l : longer[n] = stack[n]
      /\ longer[l + 1] = t
    BY <1>2
<1> HIDE DEF more, longer
<1>5. ASSUME NEW n \in 1..(l + 1)
      PROVE  IF back THEN Lead(stored, longer[n], more[n], more[n + 1])
                     ELSE Lead(stored, longer[n], more[n + 1], more[n])
    <2>1. CASE n = l + 1
        <3>1. n + 1 = l + 2 /\ n \in 1..(l + 1)
            BY <1>2, <2>1
        <3>2. more[n] = D /\ more[n + 1] = E /\ longer[n] = t
            BY <1>2, <1>3, <1>4, <2>1, <3>1
        <3> QED
            BY <3>2
    <2>2. CASE n # l + 1
        <3>1. n \in 1..l /\ n + 1 \in 1..(l + 1) /\ n \in DOMAIN stack
            BY <1>2, <2>2
        <3>2. more[n] = docs[n] /\ more[n + 1] = docs[n + 1] /\ longer[n] = stack[n]
            BY <1>3, <1>4, <3>1
        <3> QED
            BY <1>1, <3>1, <3>2 DEF ChainBy
    <2> QED
        BY <2>1, <2>2
<1>6. Len(longer) + 1 = l + 2
    BY <1>2, <1>4
<1>7. ChainBy(more, stored, E, longer, back)
    BY <1>3, <1>4, <1>5, <1>6 DEF ChainBy
<1> QED
    BY <1>3, <1>7 DEF Chain, longer

\* The stack without its last transaction, and where that leads.
LEMMA FrontIs ==
    ASSUME NEW S, NEW s \in Seq(S), s # <<>>
    PROVE  /\ Front(s) \in Seq(S) /\ Len(Front(s)) = Len(s) - 1 /\ Len(s) \in Nat \ {0}
           /\ \A n \in 1..(Len(s) - 1) : Front(s)[n] = s[n]
           /\ Last(s) = s[Len(s)] /\ Last(s) \in S
<1>1. Len(s) \in Nat \ {0} /\ DOMAIN s = 1..Len(s)
    OBVIOUS
<1>2. /\ 1 \in Int /\ Len(s) - 1 \in Int /\ \A n \in 1..(Len(s) - 1) : s[n] \in S
    BY <1>1
<1>3. /\ Front(s) \in Seq(S)
      /\ Len(Front(s)) = IF 1 <= Len(s) - 1 THEN Len(s) - 1 - 1 + 1 ELSE 0
      /\ \A n \in 1..(Len(s) - 1 - 1 + 1) : Front(s)[n] = s[1 + n - 1]
    BY <1>2, SubSeqProperties DEF Front
<1>4. Len(Front(s)) = Len(s) - 1 /\ Len(s) - 1 - 1 + 1 = Len(s) - 1
    <2> DEFINE l == Len(s)
    <2>1. l \in Nat \ {0}
        BY <1>1
    <2> HIDE DEF l
    <2>2. (IF 1 <= l - 1 THEN l - 1 - 1 + 1 ELSE 0) = l - 1 /\ l - 1 - 1 + 1 = l - 1
        BY ONLY <2>1
    <2> QED
        BY <1>3, <2>2, Zenon DEF l
<1>5. ASSUME NEW n \in 1..(Len(s) - 1) PROVE Front(s)[n] = s[n]
    <2>1. 1 + n - 1 = n
        OBVIOUS
    <2> QED
        BY <1>3, <1>4, <2>1
<1>6. Last(s) = s[Len(s)] /\ Last(s) \in S
    BY <1>1 DEF Last
<1> QED
    BY <1>1, <1>3, <1>4, <1>5, <1>6, Zenon

LEMMA ChainFront ==
    ASSUME NEW stored, NEW E \in Docs, NEW stack \in Seq(Transactions), stack # <<>>,
           NEW back \in BOOLEAN, Chain(stored, E, stack, back)
    PROVE  \E D \in Docs :
              /\ Chain(stored, D, Front(stack), back)
              /\ IF back THEN Lead(stored, Last(stack), D, E)
                         ELSE Lead(stored, Last(stack), E, D)
<1>1. PICK docs \in Seq(Docs) : ChainBy(docs, stored, E, stack, back)
    BY DEF Chain
<1> DEFINE l == Len(stack)
           less == Front(docs)
           D == docs[l]
<1>2. /\ l \in Nat \ {0} /\ DOMAIN stack = 1..l
      /\ Len(docs) = l + 1 /\ DOMAIN docs = 1..(l + 1) /\ docs[l + 1] = E
    BY <1>1 DEF ChainBy
<1>3. /\ Front(stack) \in Seq(Transactions) /\ Len(Front(stack)) = l - 1
      /\ \A n \in 1..(l - 1) : Front(stack)[n] = stack[n]
      /\ Last(stack) = stack[l]
    BY FrontIs
<1>4. DOMAIN Front(stack) = 1..(l - 1)
    BY <1>3
<1>5. docs # <<>> /\ Len(docs) - 1 = l
    BY <1>2
<1>6. /\ less \in Seq(Docs) /\ Len(less) = l
      /\ \A n \in 1..l : less[n] = docs[n]
    BY <1>5, FrontIs
<1> HIDE DEF less
<1>7. D \in Docs /\ l \in DOMAIN stack
    BY <1>2
<1>8. ASSUME NEW n \in 1..(l - 1)
      PROVE  IF back THEN Lead(stored, Front(stack)[n], less[n], less[n + 1])
                     ELSE Lead(stored, Front(stack)[n], less[n + 1], less[n])
    <2>1. n \in 1..l /\ n + 1 \in 1..l /\ n \in DOMAIN stack
        BY <1>2
    <2>2. Front(stack)[n] = stack[n] /\ less[n] = docs[n] /\ less[n + 1] = docs[n + 1]
        BY <2>1, <1>3, <1>6
    <2> QED
        BY <1>1, <2>1, <2>2 DEF ChainBy
<1>9. (l - 1) + 1 = l /\ l \in 1..l
    BY <1>2
<1>10. ChainBy(less, stored, D, Front(stack), back)
    BY <1>3, <1>4, <1>6, <1>8, <1>9 DEF ChainBy
<1>11. IF back THEN Lead(stored, Last(stack), D, E) ELSE Lead(stored, Last(stack), E, D)
    BY <1>1, <1>2, <1>3, <1>7 DEF ChainBy
<1> QED
    BY <1>6, <1>7, <1>10, <1>11 DEF Chain

----------------------------------------------------------------------------
(* Tabs.                                                                   *)

\* The document of a file, if it holds each resource once.
OnDisk(d, file) ==
    IF file \in Files /\ d[file] \in Archives THEN {Doc(d[file])} ELSE {}

TabSet == [id : Nat, file : Files \cup {NoFile}, entries : Archives, dirty : BOOLEAN,
           undo : Seq(Transactions), redo : Seq(Transactions)]

\* A tab is sound with what its file holds.
SoundTab(d, t) ==
    /\ t \in TabSet
    /\ ~t.dirty => Doc(t.entries) \in OnDisk(d, t.file)
    /\ Chain(OnDisk(d, t.file), Doc(t.entries), t.undo, TRUE)
    /\ Chain(OnDisk(d, t.file), Doc(t.entries), t.redo, FALSE)

LEMMA TabFields ==
    ASSUME NEW t \in TabSet
    PROVE  /\ t.id \in Nat /\ t.file \in Files \cup {NoFile} /\ t.entries \in Archives
           /\ t.dirty \in BOOLEAN
           /\ t.undo \in Seq(Transactions) /\ t.redo \in Seq(Transactions)
           /\ Doc(t.entries) \in Docs
BY ArchiveDoc DEF TabSet

LEMMA NewTabSound ==
    ASSUME NEW d, NEW id \in Nat, NEW file \in Files \cup {NoFile},
           NEW es \in Archives, NEW dirty \in BOOLEAN,
           ~dirty => Doc(es) \in OnDisk(d, file)
    PROVE  SoundTab(d, Tab(id, file, es, dirty))
<1>1. Tab(id, file, es, dirty) \in TabSet
    BY DEF Tab, TabSet
<1>2. /\ Tab(id, file, es, dirty).entries = es /\ Tab(id, file, es, dirty).file = file
      /\ Tab(id, file, es, dirty).dirty = dirty /\ Tab(id, file, es, dirty).undo = <<>>
      /\ Tab(id, file, es, dirty).redo = <<>>
    BY DEF Tab
<1>3. Doc(es) \in Docs
    BY ArchiveDoc
<1> QED
    BY <1>1, <1>2, <1>3, ChainEmpty DEF SoundTab

\* EditHistory::record of changes that lead to what the tab holds.
LEMMA RecordedSound ==
    ASSUME NEW d, NEW t \in TabSet, t.dirty, NEW B \in Docs,
           Chain(OnDisk(d, t.file), B, t.undo, TRUE),
           NEW changes \in Seq(ChangeSet), Leads(changes, B, Doc(t.entries)),
           NEW dirtyBefore \in BOOLEAN, ~dirtyBefore => B \in OnDisk(d, t.file)
    PROVE  /\ SoundTab(d, Recorded(t, changes, dirtyBefore))
           /\ Recorded(t, changes, dirtyBefore).id = t.id
           /\ Recorded(t, changes, dirtyBefore).file = t.file
           /\ Recorded(t, changes, dirtyBefore).dirty
           /\ Recorded(t, changes, dirtyBefore).entries = t.entries
<1> DEFINE new == [changes |-> changes, dirtyBefore |-> dirtyBefore]
           r == Recorded(t, changes, dirtyBefore)
<1>1. new \in Transactions
    BY DEF Transactions
<1>2. t.undo \in Seq(Transactions) /\ Doc(t.entries) \in Docs
    BY TabFields
<1>3. Append(t.undo, new) \in Seq(Transactions) /\ <<>> \in Seq(Transactions)
    BY <1>1, <1>2
<1>4. r = [[t EXCEPT !.undo = Append(t.undo, new)] EXCEPT !.redo = <<>>]
    BY DEF Recorded, TabSet
<1>5. /\ r.undo = Append(t.undo, new) /\ r.redo = <<>> /\ r.id = t.id /\ r.file = t.file
      /\ r.dirty = t.dirty /\ r.entries = t.entries /\ r \in TabSet
    BY <1>3, <1>4 DEF TabSet
<1> HIDE DEF r
<1>6. Lead(OnDisk(d, t.file), new, B, Doc(t.entries))
    BY DEF Lead
<1> HIDE DEF new
<1>7. Chain(OnDisk(d, t.file), Doc(t.entries), Append(t.undo, new), TRUE)
    BY <1>1, <1>2, <1>6, ChainAppend
<1> QED
    BY <1>2, <1>5, <1>7, ChainEmpty DEF SoundTab, r

\* Undo and Redo.
LEMMA UndoSound ==
    ASSUME NEW d, NEW t, SoundTab(d, t), t.undo # <<>>, NEW u,
           u = [t EXCEPT !.entries = Undone(@, Last(t.undo).changes),
                         !.dirty = Last(t.undo).dirtyBefore,
                         !.undo = Front(@), !.redo = Append(@, Last(t.undo))]
    PROVE  SoundTab(d, u) /\ u.id = t.id /\ u.file = t.file
<1> DEFINE last == Last(t.undo)
           stored == OnDisk(d, t.file)
           A == Doc(t.entries)
<1>1. t \in TabSet
    BY DEF SoundTab
<1>2. /\ t.undo \in Seq(Transactions) /\ t.redo \in Seq(Transactions) /\ A \in Docs
      /\ t.entries \in Archives
    BY <1>1, TabFields
<1>3. Front(t.undo) \in Seq(Transactions) /\ last \in Transactions
    BY <1>2, FrontIs
<1>4. last.changes \in Seq(ChangeSet) /\ last.dirtyBefore \in BOOLEAN
    BY <1>3 DEF Transactions
<1>5. PICK B \in Docs : Chain(stored, B, Front(t.undo), TRUE) /\ Lead(stored, last, B, A)
    BY <1>2, ChainFront DEF SoundTab
<1>6. Undone(t.entries, last.changes) \in Archives /\ Doc(Undone(t.entries, last.changes)) = B
    BY <1>2, <1>4, <1>5, UndoneIs DEF Lead
<1>7. Append(t.redo, last) \in Seq(Transactions)
    BY <1>2, <1>3
<1>8. Chain(stored, B, Append(t.redo, last), FALSE)
    BY <1>2, <1>3, <1>5, ChainAppend DEF SoundTab
<1> HIDE DEF last
<1>9. /\ u.entries = Undone(t.entries, last.changes) /\ u.dirty = last.dirtyBefore
      /\ u.undo = Front(t.undo) /\ u.redo = Append(t.redo, last)
      /\ u.id = t.id /\ u.file = t.file
    BY <1>1 DEF TabSet, last
<1>10. u \in TabSet
    BY <1>1, <1>3, <1>4, <1>6, <1>7 DEF TabSet, last
<1>11. ~u.dirty => B \in stored
    BY <1>5, <1>9 DEF Lead
<1> QED
    BY <1>5, <1>6, <1>8, <1>9, <1>10, <1>11 DEF SoundTab

LEMMA RedoSound ==
    ASSUME NEW d, NEW t, SoundTab(d, t), t.redo # <<>>, NEW u,
           u = [t EXCEPT !.entries = Redone(@, Last(t.redo).changes),
                         !.dirty = TRUE,
                         !.redo = Front(@), !.undo = Append(@, Last(t.redo))]
    PROVE  SoundTab(d, u) /\ u.id = t.id /\ u.file = t.file
<1> DEFINE last == Last(t.redo)
           stored == OnDisk(d, t.file)
           B == Doc(t.entries)
<1>1. t \in TabSet
    BY DEF SoundTab
<1>2. /\ t.undo \in Seq(Transactions) /\ t.redo \in Seq(Transactions) /\ B \in Docs
      /\ t.entries \in Archives
    BY <1>1, TabFields
<1>3. Front(t.redo) \in Seq(Transactions) /\ last \in Transactions
    BY <1>2, FrontIs
<1>4. last.changes \in Seq(ChangeSet)
    BY <1>3 DEF Transactions
<1>5. PICK A \in Docs : Chain(stored, A, Front(t.redo), FALSE) /\ Lead(stored, last, B, A)
    BY <1>2, ChainFront DEF SoundTab
<1>6. Redone(t.entries, last.changes) \in Archives /\ Doc(Redone(t.entries, last.changes)) = A
    BY <1>2, <1>4, <1>5, RedoneIs DEF Lead
<1>7. Append(t.undo, last) \in Seq(Transactions)
    BY <1>2, <1>3
<1>8. Chain(stored, A, Append(t.undo, last), TRUE)
    BY <1>2, <1>3, <1>5, ChainAppend DEF SoundTab
<1> HIDE DEF last
<1>9. /\ u.entries = Redone(t.entries, last.changes) /\ u.dirty = TRUE
      /\ u.redo = Front(t.redo) /\ u.undo = Append(t.undo, last)
      /\ u.id = t.id /\ u.file = t.file
    BY <1>1 DEF TabSet, last
<1>10. u \in TabSet
    BY <1>1, <1>3, <1>6, <1>7 DEF TabSet, last
<1> QED
    BY <1>5, <1>6, <1>8, <1>9, <1>10 DEF SoundTab

----------------------------------------------------------------------------
(* Deleting.                                                               *)

\* The numbers of a set in order are the set, each number once.
LEMMA InOrderIs ==
    ASSUME NEW S, S \in SUBSET Nat, IsFiniteSet(S)
    PROVE  /\ DOMAIN InOrder(S) = 1..Cardinality(S) /\ Cardinality(S) \in Nat
           /\ \A n \in DOMAIN InOrder(S) : InOrder(S)[n] \in S
           /\ \A m, n \in DOMAIN InOrder(S) : InOrder(S)[m] = InOrder(S)[n] => m = n
           /\ \A i \in S : \E n \in DOMAIN InOrder(S) : InOrder(S)[n] = i
           /\ \A n \in DOMAIN InOrder(S) : Cardinality({j \in S : j <= InOrder(S)[n]}) = n
<1> DEFINE upto(i) == {j \in S : j <= i}
           rank(i) == Cardinality(upto(i))
           T == 1..Cardinality(S)
           f == [i \in S |-> rank(i)]
           from(n) == CHOOSE i \in S : rank(i) = n
<1>1. Cardinality(S) \in Nat
    BY FS_CardinalityType
<1>2. ASSUME NEW i \in S
      PROVE  IsFiniteSet(upto(i)) /\ rank(i) \in T
    <2>1. upto(i) \in SUBSET S /\ i \in upto(i)
        OBVIOUS
    <2>2. IsFiniteSet(upto(i)) /\ rank(i) <= Cardinality(S)
        BY <2>1, FS_Subset
    <2>3. rank(i) \in Nat /\ rank(i) # 0
        BY <2>1, <2>2, FS_CardinalityType, FS_EmptySet
    <2> QED
        BY <1>1, <2>2, <2>3
<1>3. ASSUME NEW i \in S, NEW j \in S, i < j PROVE rank(i) # rank(j)
    <2>0. \A m \in S : m \in Nat
        OBVIOUS
    <2>1. \A m \in S : m <= i => m <= j
        BY <1>3, <2>0
    <2>2. j <= j /\ ~(j <= i)
        BY <1>3, <2>0
    <2>3. upto(i) \in SUBSET upto(j) /\ j \in upto(j) /\ j \notin upto(i)
        BY <2>1, <2>2
    <2> QED
        BY <2>3, <1>2, FS_Subset
<1>4. ASSUME NEW i \in S, NEW j \in S, rank(i) = rank(j) PROVE i = j
    BY <1>3, <1>4
<1> HIDE DEF rank
<1>5. f \in Injection(S, T)
    BY <1>2, <1>4 DEF Injection, IsInjective
<1>6. IsFiniteSet(T) /\ Cardinality(T) = Cardinality(S)
    <2>1. 1 \in Int /\ Cardinality(S) \in Int
        BY <1>1
    <2>2. /\ IsFiniteSet(T)
          /\ Cardinality(T) = IF 1 > Cardinality(S) THEN 0 ELSE Cardinality(S) - 1 + 1
        BY <2>1, FS_Interval
    <2> QED
        BY <1>1, <2>2
<1>7. f \in Surjection(S, T)
    BY <1>5, <1>6, FS_Injection
<1>8. ASSUME NEW n \in T PROVE \E i \in S : rank(i) = n
    BY <1>7 DEF Surjection
<1>9. ASSUME NEW n \in T PROVE from(n) \in S /\ rank(from(n)) = n
    BY <1>8
<1>10. \A i \in S : from(rank(i)) = i
    BY <1>2, <1>4, <1>9
<1>11. InOrder(S) = [n \in T |-> from(n)]
    BY DEF InOrder, rank
<1> HIDE DEF from, T
<1>12. \A i \in S : \E n \in DOMAIN InOrder(S) : InOrder(S)[n] = i
    BY <1>2, <1>10, <1>11
<1>13. DOMAIN InOrder(S) = 1..Cardinality(S)
    BY <1>11 DEF T
<1>14. \A n \in DOMAIN InOrder(S) : rank(InOrder(S)[n]) = n
    BY <1>9, <1>11
<1>15. \A n \in DOMAIN InOrder(S) : Cardinality({j \in S : j <= InOrder(S)[n]}) = n
    BY <1>14 DEF rank
<1> QED
    BY <1>1, <1>9, <1>11, <1>12, <1>13, <1>15

\* Deleting entries leads to the document without them.
LEMMA DeleteLeads ==
    ASSUME NEW es \in Archives, NEW gone, NEW kept, NEW left, NEW changes,
           DOMAIN gone = 1..Len(gone), Len(gone) \in Nat,
           DOMAIN kept = 1..Len(kept), Len(kept) \in Nat,
           \A n \in DOMAIN gone : gone[n] \in DOMAIN es,
           \A n \in DOMAIN kept : kept[n] \in DOMAIN es,
           \A m, n \in DOMAIN gone : gone[m] = gone[n] => m = n,
           \A m, n \in DOMAIN kept : kept[m] = kept[n] => m = n,
           \A i \in DOMAIN es : \/ \E n \in DOMAIN gone : gone[n] = i
                                \/ \E n \in DOMAIN kept : kept[n] = i,
           \A m \in DOMAIN gone : \A n \in DOMAIN kept : gone[m] # kept[n],
           left = [n \in DOMAIN kept |-> es[kept[n]]],
           changes = [n \in DOMAIN gone |-> [key |-> es[gone[n]].key,
                                             before |-> es[gone[n]], after |-> None]]
    PROVE  left \in Archives /\ changes \in Seq(ChangeSet) /\ Leads(changes, Doc(es), Doc(left))
<1> DEFINE B == Doc(es)
           A == Doc(left)
           out(k) == \E n \in DOMAIN gone : es[gone[n]].key = k
           D == [k \in Keys |-> IF out(k) THEN None ELSE B[k]]
<1>1. /\ es \in Seq(Entry) /\ Uniq(es) /\ B \in Docs
      /\ \A i \in DOMAIN es : es[i] \in Entry /\ es[i].key \in Keys /\ B[es[i].key] = es[i]
                              /\ es[i] # None
      /\ \A k \in Keys : B[k] # None <=> \E i \in DOMAIN es : es[i].key = k
    BY ArchiveDoc, DocIs, KeyType, EditorAssumption
<1>2. left \in Seq(Entry)
    <2>1. left \in [1..Len(kept) -> Entry]
        BY <1>1
    <2> QED
        BY <2>1
<1>3. Uniq(left)
    BY <1>1 DEF Uniq
<1>4. D \in Docs
    BY <1>1 DEF Docs
<1>5. \A k \in Keys : D[k] = IF out(k) THEN None ELSE B[k]
    OBVIOUS
<1> HIDE DEF D
<1>6. ASSUME NEW n \in DOMAIN left PROVE D[left[n].key] = left[n]
    <2>1. n \in DOMAIN kept /\ left[n] = es[kept[n]] /\ kept[n] \in DOMAIN es
        OBVIOUS
    <2>2. ~out(left[n].key)
        BY <1>1, <2>1 DEF Uniq
    <2> QED
        BY <1>1, <1>5, <2>1, <2>2, ZenonT(60)
<1>7. ASSUME NEW k \in Keys, D[k] # None PROVE \E n \in DOMAIN left : left[n].key = k
    <2>1. ~out(k) /\ B[k] # None
        BY <1>5, <1>7
    <2>2. PICK i \in DOMAIN es : es[i].key = k
        BY <1>1, <2>1
    <2>3. ~\E n \in DOMAIN gone : gone[n] = i
        BY <2>1, <2>2
    <2>4. PICK n \in DOMAIN kept : kept[n] = i
        BY <2>3
    <2> QED
        BY <2>2, <2>4
<1> HIDE DEF out
<1>8. A = D
    BY ONLY <1>2, <1>3, <1>4, <1>6, <1>7, DocBy
<1> USE DEF out
<1>9. \A n \in DOMAIN changes :
          /\ changes[n].key = es[gone[n]].key /\ changes[n].before = es[gone[n]]
          /\ changes[n].after = None /\ n \in DOMAIN gone
    OBVIOUS
<1>10. changes \in Seq(ChangeSet)
    <2>1. \A n \in DOMAIN gone : changes[n] \in ChangeSet
        BY <1>1 DEF ChangeSet
    <2>2. changes \in [1..Len(gone) -> ChangeSet]
        BY <2>1
    <2> QED
        BY <2>2
<1>11. DOMAIN changes = DOMAIN gone
    OBVIOUS
<1> HIDE DEF A, B
<1>12. Keyed(changes)
    BY <1>1, <1>9, <1>11 DEF Keyed, Uniq
<1>13. Fits(Befores(changes), changes) /\ Fits(Afters(changes), changes)
    BY <1>1, <1>9 DEF Fits, Befores, Afters
<1>14. ASSUME NEW n \in DOMAIN changes
       PROVE  A[changes[n].key] = Afters(changes)[n] /\ B[changes[n].key] = Befores(changes)[n]
    <2>1. out(changes[n].key) /\ changes[n].key \in Keys /\ n \in DOMAIN gone
        BY <1>1, <1>9
    <2> QED
        BY <1>1, <1>5, <1>8, <1>9, <2>1 DEF Afters, Befores
<1>15. ASSUME NEW k \in Keys, \A n \in DOMAIN changes : changes[n].key # k PROVE A[k] = B[k]
    BY <1>5, <1>8, <1>9, <1>11, <1>15
<1>16. Leads(changes, B, A)
    BY <1>12, <1>13, <1>14, <1>15 DEF Leads, Turned
<1> QED
    BY <1>2, <1>3, <1>10, <1>16 DEF Archives, A, B

LEMMA DeleteSound ==
    ASSUME NEW d, NEW t, SoundTab(d, t), NEW selected \in SUBSET DOMAIN t.entries, NEW u,
           LET gone == InOrder(selected)
               kept == InOrder(DOMAIN t.entries \ selected)
               change(i) == [key |-> t.entries[i].key,
                             before |-> t.entries[i], after |-> None]
           IN  u = Recorded([t EXCEPT !.entries = [n \in DOMAIN kept |-> @[kept[n]]],
                                      !.dirty = TRUE],
                            [n \in DOMAIN gone |-> change(gone[n])], t.dirty)
    PROVE  SoundTab(d, u) /\ u.id = t.id /\ u.file = t.file
<1> DEFINE es == t.entries
           gone == InOrder(selected)
           kept == InOrder(DOMAIN es \ selected)
           left == [n \in DOMAIN kept |-> es[kept[n]]]
           changes == [n \in DOMAIN gone |-> [key |-> es[gone[n]].key,
                                              before |-> es[gone[n]], after |-> None]]
           v == [[t EXCEPT !.entries = left] EXCEPT !.dirty = TRUE]
<1>1. t \in TabSet /\ es \in Archives /\ t.undo \in Seq(Transactions) /\ Doc(es) \in Docs
      /\ t.dirty \in BOOLEAN
    BY TabFields DEF SoundTab
<1>2. DOMAIN es = 1..Len(es) /\ Len(es) \in Nat /\ es \in Seq(Entry)
    BY <1>1, ArchiveDoc, KeyType
<1>3. IsFiniteSet(DOMAIN es) /\ DOMAIN es \in SUBSET Nat
    <2>1. 1 \in Int /\ Len(es) \in Int
        BY <1>2
    <2>2. IsFiniteSet(1..Len(es))
        BY <2>1, FS_Interval
    <2> QED
        BY <1>2, <2>2
<1>4. /\ selected \in SUBSET Nat /\ IsFiniteSet(selected)
      /\ DOMAIN es \ selected \in SUBSET Nat /\ IsFiniteSet(DOMAIN es \ selected)
    <2>1. DOMAIN es \ selected \in SUBSET DOMAIN es
        OBVIOUS
    <2> QED
        BY <1>3, <2>1, FS_Subset
<1>5. /\ DOMAIN gone = 1..Cardinality(selected) /\ Cardinality(selected) \in Nat
      /\ \A n \in DOMAIN gone : gone[n] \in selected
      /\ \A m, n \in DOMAIN gone : gone[m] = gone[n] => m = n
      /\ \A i \in selected : \E n \in DOMAIN gone : gone[n] = i
    BY <1>4, InOrderIs
<1>6. /\ DOMAIN kept = 1..Cardinality(DOMAIN es \ selected)
      /\ Cardinality(DOMAIN es \ selected) \in Nat
      /\ \A n \in DOMAIN kept : kept[n] \in DOMAIN es \ selected
      /\ \A m, n \in DOMAIN kept : kept[m] = kept[n] => m = n
      /\ \A i \in DOMAIN es \ selected : \E n \in DOMAIN kept : kept[n] = i
    BY <1>4, InOrderIs
<1> HIDE DEF gone, kept
<1>7. /\ Len(gone) = Cardinality(selected) /\ Len(kept) = Cardinality(DOMAIN es \ selected)
    BY <1>5, <1>6
<1>8. /\ DOMAIN gone = 1..Len(gone) /\ Len(gone) \in Nat
      /\ DOMAIN kept = 1..Len(kept) /\ Len(kept) \in Nat
      /\ \A n \in DOMAIN gone : gone[n] \in DOMAIN es
      /\ \A n \in DOMAIN kept : kept[n] \in DOMAIN es
      /\ \A i \in DOMAIN es : \/ \E n \in DOMAIN gone : gone[n] = i
                              \/ \E n \in DOMAIN kept : kept[n] = i
      /\ \A m \in DOMAIN gone : \A n \in DOMAIN kept : gone[m] # kept[n]
    BY <1>5, <1>6, <1>7
<1>9. left \in Archives /\ changes \in Seq(ChangeSet) /\ Leads(changes, Doc(es), Doc(left))
    BY <1>1, <1>5, <1>6, <1>8, DeleteLeads
<1>10. u = Recorded(v, changes, t.dirty)
    BY DEF gone, kept
<1> HIDE DEF left, changes
<1>11. /\ v \in TabSet /\ v.dirty /\ v.entries = left /\ v.id = t.id /\ v.file = t.file
       /\ v.undo = t.undo
    BY <1>1, <1>9 DEF TabSet
<1> HIDE DEF v
<1>12. /\ Chain(OnDisk(d, v.file), Doc(es), v.undo, TRUE)
       /\ ~t.dirty => Doc(es) \in OnDisk(d, v.file)
    BY <1>11 DEF SoundTab
<1>13. Leads(changes, Doc(es), Doc(v.entries))
    BY <1>9, <1>11
<1>14. /\ SoundTab(d, Recorded(v, changes, t.dirty))
       /\ Recorded(v, changes, t.dirty).id = v.id
       /\ Recorded(v, changes, t.dirty).file = v.file
    BY ONLY <1>1, <1>9, <1>11, <1>12, <1>13, RecordedSound, ZenonT(60)
<1> QED
    BY <1>10, <1>11, <1>14

----------------------------------------------------------------------------
(* The import.                                                             *)

Item == [key : Keys, data : Incoming]
Question == [entry : Item, at : Nat]

BatchSet ==
    [target : Nat \ {0}, home : Nat, shifted : BOOLEAN, queue : Seq(Item), conflict : Question \cup {None},
     policy : {"ask", "replaceAll", "skipAll"}, changed : BOOLEAN, lookup : [Keys -> Nat],
     changes : Seq(ChangeSet), dirtyBefore : BOOLEAN]

\* The lookup of an archive finds each entry under its key.
LEMMA LookupIs ==
    ASSUME NEW es \in Archives
    PROVE  /\ Lookup(es) \in [Keys -> Nat]
           /\ \A k \in Keys : Lookup(es)[k] = 0 <=> \A i \in DOMAIN es : es[i].key # k
           /\ \A k \in Keys : Lookup(es)[k] # 0 =>
                 Lookup(es)[k] \in DOMAIN es /\ es[Lookup(es)[k]].key = k
           /\ \A k \in Keys : Doc(es)[k] =
                 IF Lookup(es)[k] = 0 THEN None ELSE es[Lookup(es)[k]]
<1> DEFINE last(k) == CHOOSE i \in At(es, k) : \A j \in At(es, k) : j <= i
<1>1. /\ es \in Seq(Entry) /\ Uniq(es) /\ DOMAIN es = 1..Len(es) /\ Len(es) \in Nat
      /\ \A i \in DOMAIN es : Doc(es)[es[i].key] = es[i]
      /\ \A k \in Keys : Doc(es)[k] # None <=> \E i \in DOMAIN es : es[i].key = k
    BY ArchiveDoc, DocIs, KeyType
<1>2. ASSUME NEW k \in Keys, At(es, k) # {} PROVE last(k) \in At(es, k)
    <2>1. PICK i \in At(es, k) : TRUE
        BY <1>2
    <2>2. \A j \in At(es, k) : j = i /\ j <= i
        BY <1>1 DEF At, Uniq
    <2> QED
        BY <2>2
<1>3. Lookup(es) = [k \in Keys |-> IF At(es, k) = {} THEN 0 ELSE last(k)]
    BY DEF Lookup
<1> HIDE DEF last
<1>4. ASSUME NEW k \in Keys
      PROVE  /\ Lookup(es)[k] \in Nat
             /\ Lookup(es)[k] = 0 <=> \A i \in DOMAIN es : es[i].key # k
             /\ Lookup(es)[k] # 0 => Lookup(es)[k] \in DOMAIN es /\ es[Lookup(es)[k]].key = k
    BY <1>1, <1>2, <1>3 DEF At
<1>5. ASSUME NEW k \in Keys
      PROVE  Doc(es)[k] = IF Lookup(es)[k] = 0 THEN None ELSE es[Lookup(es)[k]]
    BY <1>1, <1>4
<1>6. Lookup(es) \in [Keys -> Nat]
    BY <1>3, <1>4
<1> QED
    BY <1>4, <1>5, <1>6

\* A lookup that finds every entry under its key is the lookup.
LEMMA LookupBy ==
    ASSUME NEW es \in Archives, NEW found \in [Keys -> Nat],
           \A k \in Keys : \/ found[k] = 0 /\ \A i \in DOMAIN es : es[i].key # k
                           \/ found[k] \in DOMAIN es /\ es[found[k]].key = k
    PROVE  found = Lookup(es)
<1>1. Uniq(es) /\ DOMAIN es = 1..Len(es)
    BY ArchiveDoc, KeyType
<1>2. ASSUME NEW k \in Keys PROVE found[k] = Lookup(es)[k]
    BY <1>1, LookupIs DEF Uniq
<1> QED
    BY <1>2, LookupIs

\* What a change of a key notes leads to the new document.
LEMMA NotedLeads ==
    ASSUME NEW changes \in Seq(ChangeSet), NEW B \in Docs, NEW A \in Docs,
           Leads(changes, B, A), NEW key \in Keys, NEW after \in Entry, after.key = key,
           A[key] # None => A[key].key = key, NEW E \in Docs,
           E = [A EXCEPT ![key] = after]
    PROVE  /\ Noted(changes, key, A[key], after) \in Seq(ChangeSet)
           /\ Leads(Noted(changes, key, A[key], after), B, E)
<1> DEFINE noted == Noted(changes, key, A[key], after)
           at == {i \in DOMAIN changes : changes[i].key = key}
           new == [key |-> key, before |-> A[key], after |-> after]
<1>0. /\ \A i \in DOMAIN changes : changes[i] \in ChangeSet
      /\ DOMAIN changes = 1..Len(changes) /\ Len(changes) \in Nat
    OBVIOUS
<1>1. \A k \in Keys : E[k] = IF k = key THEN after ELSE A[k]
    BY DEF Docs
<1>2. A[key] \in Entry \cup {None}
    BY DEF Docs
<1>3. /\ \A m, n \in DOMAIN changes : changes[m].key = changes[n].key => m = n
      /\ \A n \in DOMAIN changes :
            /\ changes[n].before \in Entry \cup {None} /\ changes[n].after \in Entry \cup {None}
            /\ changes[n].before # None => changes[n].before.key = changes[n].key
            /\ changes[n].after # None => changes[n].after.key = changes[n].key
            /\ A[changes[n].key] = changes[n].after /\ B[changes[n].key] = changes[n].before
            /\ changes[n].key \in Keys
      /\ \A k \in Keys : (\A n \in DOMAIN changes : changes[n].key # k) => A[k] = B[k]
    <2>1. \A n \in DOMAIN changes :
             /\ Befores(changes)[n] = changes[n].before /\ Afters(changes)[n] = changes[n].after
             /\ changes[n].key \in Keys
        BY <1>0 DEF Befores, Afters, ChangeSet
    <2> QED
        BY <2>1 DEF Leads, Keyed, Fits, Turned
<1>4. CASE at = {}
    <2>1. new \in ChangeSet
        BY <1>2 DEF ChangeSet
    <2>2. noted = Append(changes, new)
        BY <1>4 DEF Noted
    <2>3. /\ noted \in Seq(ChangeSet) /\ DOMAIN noted = DOMAIN changes \cup {Len(changes) + 1}
          /\ Len(changes) + 1 \notin DOMAIN changes
          /\ \A i \in DOMAIN changes : noted[i] = changes[i]
          /\ noted[Len(changes) + 1] = new
        BY <2>1, <2>2, AppendIs
    <2>4. new.key = key /\ new.before = A[key] /\ new.after = after
        OBVIOUS
    <2>5. \A i \in DOMAIN changes : changes[i].key # key
        BY <1>4
    <2>6. A[key] = B[key]
        BY <1>3, <2>5
    <2> HIDE DEF noted, new, at
    <2> DEFINE l == Len(changes) + 1
    <2>7. \A n \in DOMAIN noted : n \in DOMAIN changes \/ n = l
        BY <2>3
    <2> HIDE DEF l
    <2>8. l \in DOMAIN noted /\ noted[l] = new
        BY <2>3 DEF l
    <2>9. Keyed(noted)
        <3>1. ASSUME NEW m \in DOMAIN noted, NEW n \in DOMAIN noted, noted[m].key = noted[n].key
              PROVE  m = n
            BY <1>3, <2>3, <2>4, <2>5, <2>7, <2>8, <3>1
        <3> QED
            BY <3>1 DEF Keyed
    <2>10. ASSUME NEW n \in DOMAIN noted
           PROVE  /\ noted[n].before \in Entry \cup {None} /\ noted[n].after \in Entry \cup {None}
                  /\ noted[n].before # None => noted[n].before.key = noted[n].key
                  /\ noted[n].after # None => noted[n].after.key = noted[n].key
                  /\ E[noted[n].key] = noted[n].after /\ B[noted[n].key] = noted[n].before
        <3>1. CASE n = l
            BY <1>1, <1>2, <2>4, <2>6, <2>8, <3>1
        <3>2. CASE n # l
            <4>1. n \in DOMAIN changes /\ noted[n] = changes[n]
                BY <2>3, <2>7, <3>2
            <4> QED
                BY <1>1, <1>3, <2>5, <4>1
        <3> QED
            BY <3>1, <3>2
    <2>11. ASSUME NEW k \in Keys, \A n \in DOMAIN noted : noted[n].key # k
           PROVE  E[k] = B[k]
        <3>1. k # key /\ \A n \in DOMAIN changes : changes[n].key # k
            BY <2>3, <2>4, <2>8, <2>11
        <3> QED
            BY <1>1, <1>3, <3>1
    <2>12. Leads(noted, B, E)
        BY <2>9, <2>10, <2>11 DEF Leads, Fits, Turned, Befores, Afters
    <2> QED
        BY <2>3, <2>12 DEF noted
<1>5. CASE at # {}
    <2>1. PICK j \in DOMAIN changes : changes[j].key = key
        BY <1>5
    <2>2. (CHOOSE i \in at : TRUE) = j
        <3>1. (CHOOSE i \in at : TRUE) \in at
            BY <1>5
        <3> QED
            BY <1>3, <2>1, <3>1
    <2> DEFINE c == [changes[j] EXCEPT !.after = after]
    <2>3. c \in ChangeSet /\ c.key = key /\ c.before = changes[j].before /\ c.after = after
        BY <1>0, <2>1 DEF ChangeSet
    <2>4. noted = [changes EXCEPT ![j].after = after]
        BY <1>5, <2>2 DEF Noted
    <2>5. noted = [changes EXCEPT ![j] = c]
        BY <2>4
    <2> HIDE DEF c, noted, at
    <2>6. /\ noted \in Seq(ChangeSet) /\ DOMAIN noted = DOMAIN changes /\ noted[j] = c
          /\ \A i \in DOMAIN changes : i # j => noted[i] = changes[i]
        BY <1>0, <2>3, <2>5
    <2>7. \A i \in DOMAIN changes : noted[i].key = changes[i].key
        BY <2>1, <2>3, <2>6
    <2>8. Keyed(noted)
        BY <1>3, <2>6, <2>7 DEF Keyed
    <2>9. ASSUME NEW n \in DOMAIN noted
          PROVE  /\ noted[n].before \in Entry \cup {None} /\ noted[n].after \in Entry \cup {None}
                 /\ noted[n].before # None => noted[n].before.key = noted[n].key
                 /\ noted[n].after # None => noted[n].after.key = noted[n].key
                 /\ E[noted[n].key] = noted[n].after /\ B[noted[n].key] = noted[n].before
        <3>1. CASE n = j
            BY <1>1, <1>3, <2>1, <2>3, <2>6, <3>1
        <3>2. CASE n # j
            <4>1. n \in DOMAIN changes /\ noted[n] = changes[n] /\ changes[n].key # key
                BY <1>3, <2>1, <2>6, <3>2
            <4> QED
                BY <1>1, <1>3, <4>1
        <3> QED
            BY <3>1, <3>2
    <2>10. ASSUME NEW k \in Keys, \A n \in DOMAIN noted : noted[n].key # k
           PROVE  E[k] = B[k]
        <3>1. k # key /\ \A n \in DOMAIN changes : changes[n].key # k
            BY <2>1, <2>6, <2>7, <2>10
        <3> QED
            BY <1>1, <1>3, <3>1
    <2>11. Leads(noted, B, E)
        BY <2>8, <2>9, <2>10 DEF Leads, Fits, Turned, Befores, Afters
    <2> QED
        BY <2>6, <2>11 DEF noted
<1> QED
    BY <1>4, <1>5

\* What add_incoming does to the entries, and to the lookup.
Put(es, entry, at) ==
    IF at = 0 THEN Append(es, entry) ELSE [es EXCEPT ![at] = entry]

LEMMA AddEntries ==
    ASSUME NEW es \in Archives, NEW entry \in Entry, NEW at, at = Lookup(es)[entry.key]
    PROVE  /\ Put(es, entry, at) \in Archives
           /\ Doc(Put(es, entry, at)) = [Doc(es) EXCEPT ![entry.key] = entry]
           /\ Lookup(Put(es, entry, at)) =
                 IF at = 0 THEN Learned(Lookup(es), entry.key, Len(es) + 1) ELSE Lookup(es)
<1> DEFINE new == Put(es, entry, at)
           k == entry.key
           change == [key |-> k]
           L == Lookup(es)
<1>1. /\ es \in Seq(Entry) /\ Uniq(es) /\ DOMAIN es = 1..Len(es) /\ Len(es) \in Nat
      /\ k \in Keys /\ change.key = k /\ entry # None
    BY ArchiveDoc, KeyType, EditorAssumption DEF Entry
<1>2. /\ L \in [Keys -> Nat]
      /\ L[k] = 0 <=> \A i \in DOMAIN es : es[i].key # k
      /\ L[k] # 0 => L[k] \in DOMAIN es /\ es[L[k]].key = k
      /\ \A m \in Keys : \/ L[m] = 0 /\ \A i \in DOMAIN es : es[i].key # m
                         \/ L[m] \in DOMAIN es /\ es[L[m]].key = m
    BY <1>1, LookupIs
<1> HIDE DEF change
<1>3. new = Apply(es, change, entry)
    <2>1. CASE at = 0
        <3>1. At(es, k) = {}
            BY <1>2, <2>1 DEF At
        <3> QED
            BY <1>1, <2>1, <3>1 DEF Apply, Put
    <2>2. CASE at # 0
        <3>1. At(es, k) = {at}
            BY <1>1, <1>2, <2>2 DEF At, Uniq
        <3>2. (CHOOSE i \in At(es, k) : \A j \in At(es, k) : i <= j) = at
            <4>1. at \in At(es, k) /\ \A j \in At(es, k) : at <= j
                BY <1>1, <1>2, <2>2, <3>1
            <4>2. (CHOOSE i \in At(es, k) : \A j \in At(es, k) : i <= j) \in At(es, k)
                BY <4>1
            <4> QED
                BY <3>1, <4>2
        <3> QED
            BY <1>1, <2>2, <3>1, <3>2 DEF Apply, Put
    <2> QED
        BY <2>1, <2>2
<1> HIDE DEF new
<1>4. new \in Archives /\ Doc(new) = [Doc(es) EXCEPT ![k] = entry]
    <2>1. /\ entry \in Entry \cup {None} /\ (entry # None => entry.key = change.key)
          /\ change.key \in Keys
        BY <1>1
    <2>2. /\ Apply(es, change, entry) \in Seq(Entry) /\ Uniq(Apply(es, change, entry))
          /\ Doc(Apply(es, change, entry)) = [Doc(es) EXCEPT ![change.key] = entry]
        BY <1>1, <2>1, ApplyIs
    <2> QED
        BY <1>1, <1>3, <2>2 DEF Archives
<1>5. CASE at = 0
    <2> DEFINE found == [L EXCEPT ![k] = Len(es) + 1]
    <2>1. /\ new = Append(es, entry) /\ DOMAIN new = DOMAIN es \cup {Len(es) + 1}
          /\ \A i \in DOMAIN es : new[i] = es[i]
          /\ new[Len(es) + 1] = entry /\ Len(es) + 1 \in Nat
        BY <1>1, <1>5, AppendIs DEF Put, new
    <2>2. found \in [Keys -> Nat] /\ \A m \in Keys : found[m] = IF m = k THEN Len(es) + 1 ELSE L[m]
        BY <1>2, <2>1
    <2> HIDE DEF found, L
    <2>3. ASSUME NEW m \in Keys
          PROVE  \/ found[m] = 0 /\ \A i \in DOMAIN new : new[i].key # m
                 \/ found[m] \in DOMAIN new /\ new[found[m]].key = m
        <3>1. CASE m = k
            BY <2>1, <2>2, <3>1
        <3>2. CASE m # k
            <4>1. found[m] = L[m]
                BY <2>2, <3>2
            <4>2. CASE L[m] = 0 /\ \A i \in DOMAIN es : es[i].key # m
                BY <2>1, <3>2, <4>1, <4>2
            <4>3. CASE L[m] \in DOMAIN es /\ es[L[m]].key = m
                BY <2>1, <4>1, <4>3
            <4> QED
                BY <1>2, <4>2, <4>3
        <3> QED
            BY <3>1, <3>2
    <2>4. found = Lookup(new)
        BY <1>4, <2>2, <2>3, LookupBy
    <2> QED
        BY <1>4, <1>5, <2>4 DEF found, L, new, Learned
<1>6. CASE at # 0
    <2>1. new = [es EXCEPT ![at] = entry] /\ at \in DOMAIN es /\ es[at].key = k
        BY <1>2, <1>6 DEF Put, new
    <2>2. DOMAIN new = DOMAIN es /\ \A i \in DOMAIN es : new[i].key = es[i].key
        BY <1>1, <2>1
    <2> HIDE DEF L
    <2>3. \A m \in Keys : \/ L[m] = 0 /\ \A i \in DOMAIN new : new[i].key # m
                          \/ L[m] \in DOMAIN new /\ new[L[m]].key = m
        BY <1>2, <2>2
    <2>4. L = Lookup(new)
        BY <1>2, <1>4, <2>3, LookupBy
    <2> QED
        BY <1>4, <1>6, <2>4 DEF L, new
<1> QED
    BY <1>5, <1>6

----------------------------------------------------------------------------
(* Frames of an import: what a tab holds, the changes noted so far lead to *)
(* from the document B before the import, where the stacks still end.      *)

Begun(d, t, b, B) ==
    /\ Leads(b.changes, B, Doc(t.entries))
    /\ Chain(OnDisk(d, t.file), B, t.undo, TRUE)
    /\ Chain(OnDisk(d, t.file), B, t.redo, FALSE)
    /\ ~b.dirtyBefore => B \in OnDisk(d, t.file)

Midway(d, t, b) ==
    /\ t \in TabSet /\ b \in BatchSet
    /\ b.lookup = Lookup(t.entries)
    /\ b.conflict # None =>
          b.conflict.at # 0 /\ b.conflict.at = b.lookup[b.conflict.entry.key]
    /\ ~b.changed => b.changes = <<>> /\ t.dirty = b.dirtyBefore
    /\ \E B \in Docs : Begun(d, t, b, B)

RoundSet == [tab : TabSet, batch : BatchSet, panic : BOOLEAN]

\* A frame leaves the archive's identity and the target alone.
Same(s, r) ==
    /\ r.tab.id = s.tab.id /\ r.tab.file = s.tab.file /\ r.tab.dirty = s.tab.dirty
    /\ r.batch.target = s.batch.target /\ r.batch.home = s.batch.home
    /\ r.panic = s.panic

LEMMA ItemType ==
    ASSUME NEW entry \in Item
    PROVE  entry \in Entry /\ entry.key \in Keys
BY DEF Item, Entry

\* add_incoming of an entry where the lookup says.
LEMMA AddSound ==
    ASSUME NEW d, NEW s \in RoundSet, Midway(d, s.tab, s.batch), s.batch.conflict = None,
           NEW entry \in Item, NEW at, at = s.batch.lookup[entry.key],
           NEW r, r = Add(s, entry, at)
    PROVE  /\ r \in RoundSet /\ Midway(d, r.tab, r.batch) /\ Same(s, r)
           /\ r.batch.conflict = None /\ r.batch.changed
<1> DEFINE t == s.tab
           b == s.batch
           es == t.entries
           k == entry.key
           before == IF at = 0 THEN None ELSE es[at]
           noted == Noted(b.changes, k, before, entry)
           new == Put(es, entry, at)
           found == IF at = 0 THEN Learned(b.lookup, k, Len(es) + 1) ELSE b.lookup
           b1 == [[b EXCEPT !.changed = TRUE] EXCEPT !.changes = noted]
           b2 == [b1 EXCEPT !.lookup = found]
           t2 == [t EXCEPT !.entries = new]
<1>1. /\ t \in TabSet /\ b \in BatchSet /\ b.lookup = Lookup(es) /\ es \in Archives
      /\ b.changes \in Seq(ChangeSet) /\ Doc(es) \in Docs
    BY TabFields DEF Midway, BatchSet
<1>2. entry \in Entry /\ k \in Keys
    BY ItemType
<1>3. /\ Lookup(es) \in [Keys -> Nat] /\ at = Lookup(es)[k]
      /\ at # 0 => at \in DOMAIN es /\ es[at].key = k
      /\ Doc(es)[k] = before
    BY <1>1, <1>2, LookupIs
<1>4. /\ new \in Archives /\ Doc(new) = [Doc(es) EXCEPT ![k] = entry]
      /\ Lookup(new) = found
    <2>1. es \in Archives /\ entry \in Entry /\ at = Lookup(es)[entry.key]
        BY <1>1, <1>2, <1>3
    <2>2. /\ new \in Archives /\ Doc(new) = [Doc(es) EXCEPT ![entry.key] = entry]
          /\ Lookup(new) =
                 IF at = 0 THEN Learned(Lookup(es), entry.key, Len(es) + 1) ELSE Lookup(es)
        BY <2>1, AddEntries
    <2> QED
        BY <1>1, <2>2
<1>5. Doc(new) \in Docs
    BY <1>4, ArchiveDoc
<1>6. before # None => before.key = k
    BY <1>3
<1>7. PICK B \in Docs : Begun(d, t, b, B)
    BY DEF Midway
<1> HIDE DEF before, new, found
<1>8. noted \in Seq(ChangeSet) /\ Leads(noted, B, Doc(new))
    BY <1>1, <1>2, <1>3, <1>4, <1>5, <1>6, <1>7, NotedLeads DEF Begun
<1>9. found \in [Keys -> Nat]
    BY <1>4, LookupIs
<1> HIDE DEF noted
<1>10. /\ b2 \in BatchSet /\ b2.changed = TRUE /\ b2.changes = noted /\ b2.lookup = found
       /\ b2.target = b.target /\ b2.home = b.home /\ b2.conflict = b.conflict
       /\ b2.dirtyBefore = b.dirtyBefore /\ b2.queue = b.queue
    BY <1>1, <1>8, <1>9 DEF BatchSet
<1>11. /\ t2 \in TabSet /\ t2.entries = new /\ t2.id = t.id /\ t2.file = t.file
       /\ t2.dirty = t.dirty /\ t2.undo = t.undo /\ t2.redo = t.redo
    BY <1>1, <1>4 DEF TabSet
<1>12. r = [[s EXCEPT !.tab = t2] EXCEPT !.batch = b2]
    <2> DEFINE added == [s EXCEPT !.batch = b1]
    <2>1. s.tab = t /\ s.batch = b /\ s = [tab |-> t, batch |-> b, panic |-> s.panic]
        BY DEF RoundSet
    <2>2. [s EXCEPT !.batch.changed = TRUE, !.batch.changes = noted] = added
        BY <2>1
    <2>3. CASE at = 0
        <3>1. r = [added EXCEPT !.tab.entries = Append(es, entry),
                                !.batch.lookup = Learned(b.lookup, k, Len(es) + 1)]
            BY <1>1, <2>1, <2>3, <2>2 DEF Add, noted, before, RoundSet, BatchSet
        <3> QED
            BY <2>1, <2>3, <3>1 DEF new, found, Put
    <2>4. CASE at # 0
        <3>1. r = [added EXCEPT !.tab.entries[at] = entry]
            BY <1>1, <1>3, <2>1, <2>2, <2>4 DEF Add, noted, before, RoundSet, BatchSet
        <3>2. b2 = b1
            BY <1>1, <2>4 DEF found, BatchSet
        <3> QED
            BY <2>1, <2>4, <3>1, <3>2 DEF new, Put
    <2> QED
        BY <2>3, <2>4
<1> HIDE DEF b2, t2
<1>13. /\ r \in RoundSet /\ r.tab = t2 /\ r.batch = b2 /\ r.panic = s.panic
    BY <1>10, <1>11, <1>12 DEF RoundSet
<1>14. Begun(d, t2, b2, B)
    BY <1>7, <1>8, <1>10, <1>11 DEF Begun
<1>15. Midway(d, r.tab, r.batch)
    BY <1>4, <1>10, <1>11, <1>13, <1>14 DEF Midway
<1> QED
    BY <1>10, <1>11, <1>13, <1>15 DEF Same

\* A batch that differs in its question, its policy and its queue only.
LEMMA MidwayLike ==
    ASSUME NEW d, NEW t, NEW b, Midway(d, t, b), NEW c \in BatchSet,
           c.lookup = b.lookup, c.changes = b.changes, c.changed = b.changed,
           c.dirtyBefore = b.dirtyBefore,
           c.conflict # None =>
              c.conflict.at # 0 /\ c.conflict.at = c.lookup[c.conflict.entry.key]
    PROVE  Midway(d, t, c)
<1>1. \A B \in Docs : Begun(d, t, b, B) => Begun(d, t, c, B)
    BY DEF Begun
<1> QED
    BY <1>1 DEF Midway

\* AddBatch::new: nothing is changed yet.
LEMMA StartSound ==
    ASSUME NEW d, NEW t, SoundTab(d, t), NEW target \in Nat \ {0}, NEW queue \in Seq(Item), NEW b,
           b = [target |-> target, home |-> t.id, shifted |-> FALSE, queue |-> queue, conflict |-> None,
                policy |-> "ask", changed |-> FALSE, lookup |-> Lookup(t.entries),
                changes |-> <<>>, dirtyBefore |-> t.dirty]
    PROVE  Midway(d, t, b)
<1>1. t \in TabSet /\ t.id \in Nat /\ t.dirty \in BOOLEAN /\ t.entries \in Archives
      /\ Doc(t.entries) \in Docs
    BY TabFields DEF SoundTab
<1>2. Lookup(t.entries) \in [Keys -> Nat]
    BY <1>1, LookupIs
<1>3. b \in BatchSet
    BY <1>1, <1>2 DEF BatchSet
<1>4. Leads(<<>>, Doc(t.entries), Doc(t.entries))
    BY DEF Leads, Keyed, Fits, Turned, Befores, Afters
<1>5. Begun(d, t, b, Doc(t.entries))
    BY <1>4 DEF Begun, SoundTab
<1> QED
    BY <1>1, <1>3, <1>5 DEF Midway

\* What is done about the open question.
LEMMA AnsweredSound ==
    ASSUME NEW d, NEW s \in RoundSet, Midway(d, s.tab, s.batch),
           NEW answer \in Answers \cup {"continue"},
           answer # "continue" => s.batch.conflict # None,
           NEW r, r = Answered(s, answer)
    PROVE  /\ r \in RoundSet /\ Midway(d, r.tab, r.batch) /\ Same(s, r)
<1> DEFINE b == s.batch
           c == b.conflict
           b1 == [b EXCEPT !.conflict = None]
           cleared == [s EXCEPT !.batch = b1]
<1>1. /\ s.tab \in TabSet /\ b \in BatchSet /\ s.panic \in BOOLEAN
      /\ s = [tab |-> s.tab, batch |-> b, panic |-> s.panic]
    BY DEF RoundSet
<1>2. [s EXCEPT !.batch.conflict = None] = cleared
    BY <1>1
<1>3. ASSUME NEW p \in {"ask", "replaceAll", "skipAll"}, NEW u,
             u = [cleared EXCEPT !.batch.policy = p]
      PROVE  /\ u \in RoundSet /\ Midway(d, u.tab, u.batch) /\ Same(s, u)
             /\ u.batch.conflict = None /\ u.batch.lookup = b.lookup
    <2> DEFINE b2 == [b1 EXCEPT !.policy = p]
    <2>1. /\ b2 \in BatchSet /\ b2.conflict = None /\ b2.lookup = b.lookup
          /\ b2.changes = b.changes /\ b2.changed = b.changed
          /\ b2.dirtyBefore = b.dirtyBefore /\ b2.target = b.target /\ b2.home = b.home
        BY <1>1 DEF BatchSet
    <2>2. u = [tab |-> s.tab, batch |-> b2, panic |-> s.panic]
        BY <1>1, <1>3
    <2> HIDE DEF b2
    <2>3. Midway(d, s.tab, b2)
        BY <2>1, MidwayLike
    <2> QED
        BY <1>1, <2>1, <2>2, <2>3 DEF RoundSet, Same
<1>4. cleared = [cleared EXCEPT !.batch.policy = b.policy]
    BY <1>1 DEF BatchSet
<1>5. b.policy \in {"ask", "replaceAll", "skipAll"}
    BY <1>1 DEF BatchSet
<1>6. ASSUME NEW u \in RoundSet, Midway(d, u.tab, u.batch), Same(s, u),
             u.batch.conflict = None, u.batch.lookup = b.lookup, c # None,
             r = Add(u, c.entry, c.at)
      PROVE  r \in RoundSet /\ Midway(d, r.tab, r.batch) /\ Same(s, r)
    <2>1. c \in Question
        BY <1>1, <1>6 DEF BatchSet
    <2>2. c.entry \in Item /\ c.at = u.batch.lookup[c.entry.key]
        BY <1>6, <2>1 DEF Question, Midway
    <2>3. r \in RoundSet /\ Midway(d, r.tab, r.batch) /\ Same(u, r)
        BY <1>6, <2>2, AddSound, Zenon
    <2> QED
        BY <1>6, <2>3 DEF Same
<1> HIDE DEF cleared, b1
<1>7. CASE answer = "continue"
    BY <1>7 DEF Answered, Same
<1>8. CASE answer = "replace"
    <2>1. r = Add(cleared, c.entry, c.at) /\ c # None
        BY <1>2, <1>8 DEF Answered
    <2> QED
        BY <1>3, <1>4, <1>5, <1>6, <2>1
<1>9. CASE answer = "replaceAll"
    <2>1. r = Add([cleared EXCEPT !.batch.policy = "replaceAll"], c.entry, c.at) /\ c # None
        BY <1>2, <1>9 DEF Answered
    <2> QED
        BY <1>3, <1>6, <2>1
<1>10. CASE answer = "skip" \/ answer = "cancel"
    <2>1. r = cleared
        BY <1>2, <1>10 DEF Answered
    <2> QED
        BY <1>3, <1>4, <1>5, <2>1
<1>11. CASE answer = "skipAll"
    <2>1. r = [cleared EXCEPT !.batch.policy = "skipAll"]
        BY <1>2, <1>11 DEF Answered
    <2> QED
        BY <1>3, <2>1
<1> QED
    BY <1>7, <1>8, <1>9, <1>10, <1>11 DEF Answers

\* The next file: the lookup never leads past the end.
LEMMA TookSound ==
    ASSUME NEW d, NEW s \in RoundSet, Midway(d, s.tab, s.batch), ~s.panic,
           NEW readable \in BOOLEAN, NEW r, r = Took(s, readable)
    PROVE  /\ r \in RoundSet /\ Midway(d, r.tab, r.batch) /\ Same(s, r)
<1> DEFINE b == s.batch
           entry == Head(b.queue)
           at == b.lookup[entry.key]
           b1 == [b EXCEPT !.queue = Tail(b.queue)]
           rest == [s EXCEPT !.batch = b1]
<1>1. /\ s.tab \in TabSet /\ b \in BatchSet /\ s.panic = FALSE
      /\ s = [tab |-> s.tab, batch |-> b, panic |-> s.panic]
      /\ b.queue \in Seq(Item) /\ b.lookup = Lookup(s.tab.entries)
      /\ s.tab.entries \in Archives
    BY TabFields DEF RoundSet, BatchSet, Midway
<1>2. CASE b.conflict # None \/ b.queue = <<>>
    BY <1>2, Zenon DEF Took, Same
<1>3. CASE b.conflict = None /\ b.queue # <<>>
    <2>1. entry \in Item /\ Tail(b.queue) \in Seq(Item)
        BY <1>1, <1>3
    <2>2. [s EXCEPT !.batch.queue = Tail(@)] = rest
        BY <1>1
    <2>3. /\ b1 \in BatchSet /\ b1.conflict = None /\ b1.lookup = b.lookup
          /\ b1.changes = b.changes /\ b1.changed = b.changed
          /\ b1.dirtyBefore = b.dirtyBefore /\ b1.target = b.target /\ b1.home = b.home
        BY <1>1, <1>3, <2>1 DEF BatchSet
    <2>4. r = IF ~readable THEN rest
              ELSE IF at = 0 THEN Add(rest, entry, 0)
              ELSE IF b.policy = "ask"
                   THEN [rest EXCEPT !.batch.conflict = [entry |-> entry, at |-> at],
                                     !.panic = at > Len(s.tab.entries)]
              ELSE IF b.policy = "replaceAll" THEN Add(rest, entry, at)
              ELSE rest
        BY <1>3, <2>2 DEF Took
    <2> HIDE DEF b1
    <2>5. Midway(d, s.tab, b1)
        BY <1>3, <2>3, MidwayLike
    <2>6. rest = [tab |-> s.tab, batch |-> b1, panic |-> s.panic]
        BY <1>1
    <2> HIDE DEF rest
    <2>7. rest \in RoundSet /\ Midway(d, rest.tab, rest.batch) /\ Same(s, rest)
        BY <1>1, <2>3, <2>5, <2>6 DEF RoundSet, Same
    <2>8. entry.key \in Keys
        BY <2>1, ItemType
    <2>9. /\ at \in Nat
          /\ at # 0 => at \in DOMAIN s.tab.entries
        BY <1>1, <2>8, LookupIs
    <2>10. DOMAIN s.tab.entries = 1..Len(s.tab.entries) /\ Len(s.tab.entries) \in Nat
        BY <1>1, ArchiveDoc, KeyType
    <2> HIDE DEF entry
    <2>11. ASSUME r = Add(rest, entry, at)
           PROVE  r \in RoundSet /\ Midway(d, r.tab, r.batch) /\ Same(s, r)
        <3>1. at = rest.batch.lookup[entry.key] /\ rest.batch.conflict = None
            BY <2>3, <2>6
        <3>2. r \in RoundSet /\ Midway(d, r.tab, r.batch) /\ Same(rest, r)
            BY <2>1, <2>7, <2>11, <3>1, AddSound
        <3> QED
            BY <2>7, <3>2 DEF Same
    <2>12. ASSUME at # 0, r = [rest EXCEPT !.batch.conflict = [entry |-> entry, at |-> at],
                                           !.panic = at > Len(s.tab.entries)]
           PROVE  r \in RoundSet /\ Midway(d, r.tab, r.batch) /\ Same(s, r)
        <3> DEFINE q == [entry |-> entry, at |-> at]
                   b2 == [b1 EXCEPT !.conflict = q]
        <3>1. q \in Question /\ q.at = at /\ q.entry = entry
            BY <2>1, <2>9 DEF Question
        <3>2. (at > Len(s.tab.entries)) = FALSE
            BY <2>9, <2>10, <2>12
        <3> HIDE DEF q, at
        <3>3. r = [tab |-> s.tab, batch |-> b2, panic |-> FALSE]
            BY <2>6, <2>12, <3>2 DEF q
        <3>4. /\ b2 \in BatchSet /\ b2.conflict = q /\ b2.lookup = b.lookup
              /\ b2.changes = b.changes /\ b2.changed = b.changed
              /\ b2.dirtyBefore = b.dirtyBefore /\ b2.target = b.target /\ b2.home = b.home
            BY <2>3, <3>1 DEF BatchSet
        <3> HIDE DEF b2
        <3>5. b2.conflict.at # 0 /\ b2.conflict.at = b2.lookup[b2.conflict.entry.key]
            BY <2>12, <3>1, <3>4 DEF at
        <3>6. Midway(d, s.tab, b2)
            BY <3>4, <3>5, MidwayLike
        <3>7. r.tab = s.tab /\ r.batch = b2 /\ r.panic = FALSE /\ r \in RoundSet
            BY <1>1, <3>3, <3>4 DEF RoundSet
        <3> QED
            BY <1>1, <3>4, <3>6, <3>7 DEF Same
    <2> QED
        BY <2>4, <2>7, <2>11, <2>12
<1> QED
    BY <1>2, <1>3

----------------------------------------------------------------------------
(* The end of a frame, and of the import.                                  *)

\* record_add_batch: one transaction leads back to before the import.
LEMMA FinishedSound ==
    ASSUME NEW d, NEW t, NEW b, Midway(d, t, b)
    PROVE  /\ SoundTab(d, Finished(t, b)) /\ Finished(t, b).id = t.id
           /\ Finished(t, b).file = t.file
           /\ Range(Finished(t, b).entries) = Range(t.entries)
           /\ Finished(t, b).dirty = (t.dirty \/ b.changed)
<1>1. PICK B \in Docs : Begun(d, t, b, B)
    BY DEF Midway
<1>2. /\ t \in TabSet /\ t.entries \in Archives /\ Doc(t.entries) \in Docs
      /\ t.undo \in Seq(Transactions) /\ t.redo \in Seq(Transactions) /\ t.dirty \in BOOLEAN
      /\ b.changes \in Seq(ChangeSet) /\ b.dirtyBefore \in BOOLEAN /\ b.changed \in BOOLEAN
    BY TabFields DEF Midway, BatchSet
<1>3. CASE ~b.changed
    <2>1. Finished(t, b) = t /\ b.changes = <<>> /\ t.dirty = b.dirtyBefore
        BY <1>3 DEF Finished, Midway
    <2>2. Doc(t.entries) = B
        <3>1. \A k \in Keys : Doc(t.entries)[k] = B[k]
            BY <1>1, <2>1 DEF Begun, Leads, Turned
        <3> QED
            BY <1>2, <3>1 DEF Docs
    <2> QED
        BY <1>1, <1>2, <1>3, <2>1, <2>2 DEF SoundTab, Begun
<1>4. CASE b.changed
    <2> DEFINE u == [[t EXCEPT !.entries = Sorted(t.entries)] EXCEPT !.dirty = TRUE]
    <2>1. /\ Sorted(t.entries) \in Archives /\ Doc(Sorted(t.entries)) = Doc(t.entries)
        BY <1>2, ArchiveDoc, SortedType, SortedDoc DEF Archives
    <2>2. /\ u \in TabSet /\ u.dirty = TRUE /\ u.entries = Sorted(t.entries) /\ u.id = t.id
          /\ u.file = t.file /\ u.undo = t.undo
        BY <1>2, <2>1 DEF TabSet
    <2>3. Finished(t, b) = Recorded(u, b.changes, b.dirtyBefore)
        BY <1>4 DEF Finished
    <2> HIDE DEF u
    <2>4. /\ Chain(OnDisk(d, u.file), B, u.undo, TRUE)
          /\ Leads(b.changes, B, Doc(u.entries))
          /\ ~b.dirtyBefore => B \in OnDisk(d, u.file)
        BY <1>1, <2>1, <2>2 DEF Begun
    <2> DEFINE f == Recorded(u, b.changes, b.dirtyBefore)
    <2>5. SoundTab(d, f) /\ f.id = u.id /\ f.file = u.file /\ f.dirty /\ f.entries = u.entries
        <3> DEFINE changes == b.changes
                   before == b.dirtyBefore
        <3>1. /\ changes \in Seq(ChangeSet) /\ before \in BOOLEAN /\ u \in TabSet /\ u.dirty
              /\ Chain(OnDisk(d, u.file), B, u.undo, TRUE)
              /\ Leads(changes, B, Doc(u.entries))
              /\ ~before => B \in OnDisk(d, u.file)
            BY <1>2, <2>2, <2>4
        <3> HIDE DEF changes, before
        <3>2. /\ SoundTab(d, Recorded(u, changes, before))
              /\ Recorded(u, changes, before).id = u.id
              /\ Recorded(u, changes, before).file = u.file
              /\ Recorded(u, changes, before).dirty
              /\ Recorded(u, changes, before).entries = u.entries
            BY ONLY <3>1, RecordedSound
        <3> QED
            BY <3>2 DEF changes, before
    <2>6. f.dirty \in BOOLEAN
        BY <2>5, TabFields DEF SoundTab
    <2>7. Range(Sorted(t.entries)) = Range(t.entries)
        <3>1. t.entries \in Seq(Entry)
            BY <1>2, ArchiveDoc
        <3> QED
            BY <3>1, SortedRange
    <2> HIDE DEF f
    <2>8. Finished(t, b) = f
        BY <2>3 DEF f
    <2> QED
        BY <1>4, <2>2, <2>5, <2>6, <2>7, <2>8
<1> QED
    BY <1>2, <1>3, <1>4

\* An import that goes on leaves the dirty mark, if it changed anything.
LEMMA MarkedSound ==
    ASSUME NEW d, NEW t, NEW b, Midway(d, t, b), NEW u, u = [t EXCEPT !.dirty = @ \/ b.changed]
    PROVE  /\ Midway(d, u, b) /\ (b.changed => u.dirty)
           /\ u.id = t.id /\ u.file = t.file
<1>1. t \in TabSet /\ b \in BatchSet /\ t.dirty \in BOOLEAN /\ b.changed \in BOOLEAN
    BY TabFields DEF Midway, BatchSet
<1>2. (t.dirty \/ b.changed) \in BOOLEAN
    BY <1>1
<1>3. /\ u \in TabSet /\ u.dirty = (t.dirty \/ b.changed) /\ u.entries = t.entries
      /\ u.id = t.id /\ u.file = t.file /\ u.undo = t.undo /\ u.redo = t.redo
    BY <1>1, <1>2 DEF TabSet
<1>4. \A B \in Docs : Begun(d, t, b, B) => Begun(d, u, b, B)
    BY <1>3 DEF Begun
<1>5. ~b.changed => u.dirty = t.dirty
    BY <1>1, <1>3
<1> QED
    BY <1>1, <1>3, <1>4, <1>5 DEF Midway

----------------------------------------------------------------------------
(* Archives that may hold a key twice, and edits of which nothing is known. *)

RawSet == [id : Nat, file : Files \cup {NoFile}, entries : Seq(Entry), dirty : BOOLEAN,
           undo : Seq(Transactions), redo : Seq(Transactions)]

\* The least of some numbers.
LEMMA LeastIs ==
    ASSUME NEW D, D \in SUBSET Nat, D # {}
    PROVE  (CHOOSE i \in D : \A j \in D : i <= j) \in D
<1>1. PICK i \in D : \A j \in D : <<j, i>> \notin Less
    BY LessIsWellFounded, WFMin
<1>2. \A j \in D : i <= j
    <2> SUFFICES ASSUME NEW j \in D, j < i PROVE FALSE
        BY <1>1
    <2>1. <<j, i>> \in Nat \X Nat /\ <<j, i>>[1] < <<j, i>>[2]
        OBVIOUS
    <2> QED
        BY <1>1, <2>1 DEF Less
<1> QED
    BY <1>1, <1>2

LEMMA RawFields ==
    ASSUME NEW t \in RawSet
    PROVE  /\ t.id \in Nat /\ t.file \in Files \cup {NoFile} /\ t.entries \in Seq(Entry)
           /\ t.dirty \in BOOLEAN
           /\ t.undo \in Seq(Transactions) /\ t.redo \in Seq(Transactions)
BY DEF RawSet

LEMMA TabIsRaw ==
    ASSUME NEW t \in TabSet
    PROVE  t \in RawSet
BY DEF TabSet, RawSet, Archives

LEMMA NewTabRaw ==
    ASSUME NEW id \in Nat, NEW file \in Files \cup {NoFile}, NEW es \in Seq(Entry),
           NEW dirty \in BOOLEAN
    PROVE  /\ Tab(id, file, es, dirty) \in RawSet /\ Tab(id, file, es, dirty).id = id
           /\ Tab(id, file, es, dirty).file = file /\ Tab(id, file, es, dirty).entries = es
           /\ Tab(id, file, es, dirty).dirty = dirty
BY DEF Tab, RawSet

LEMMA RecordedRaw ==
    ASSUME NEW t \in RawSet, NEW changes \in Seq(ChangeSet), NEW dirtyBefore \in BOOLEAN
    PROVE  /\ Recorded(t, changes, dirtyBefore) \in RawSet
           /\ Recorded(t, changes, dirtyBefore).id = t.id
           /\ Recorded(t, changes, dirtyBefore).file = t.file
           /\ Recorded(t, changes, dirtyBefore).dirty = t.dirty
           /\ Recorded(t, changes, dirtyBefore).entries = t.entries
<1> DEFINE new == [changes |-> changes, dirtyBefore |-> dirtyBefore]
           r == Recorded(t, changes, dirtyBefore)
<1>1. new \in Transactions
    BY DEF Transactions
<1>2. t.undo \in Seq(Transactions)
    BY RawFields
<1>3. Append(t.undo, new) \in Seq(Transactions) /\ <<>> \in Seq(Transactions)
    BY <1>1, <1>2
<1>4. r = [[t EXCEPT !.undo = Append(t.undo, new)] EXCEPT !.redo = <<>>]
    BY DEF Recorded, RawSet
<1>5. /\ r \in RawSet /\ r.id = t.id /\ r.file = t.file
      /\ r.dirty = t.dirty /\ r.entries = t.entries
    BY <1>3, <1>4 DEF RawSet
<1> QED
    BY <1>5

\* One change.
LEMMA ApplyRaw ==
    ASSUME NEW es \in Seq(Entry), NEW change, NEW target \in Entry \cup {None}
    PROVE  Apply(es, change, target) \in Seq(Entry)
<1> DEFINE at == At(es, change.key)
<1>1. CASE at = {}
    <2>1. CASE target = None
        BY <1>1, <2>1 DEF Apply
    <2>2. CASE target # None
        BY <1>1, <2>2, AppendIs DEF Apply
    <2> QED
        BY <2>1, <2>2
<1>2. CASE at # {}
    <2>1. \A i \in at : i \in DOMAIN es /\ i \in Nat
        BY KeyType DEF At
    <2> DEFINE i == CHOOSE i \in at : \A j \in at : i <= j
    <2>2. at \in SUBSET Nat
        BY <2>1
    <2>3. i \in DOMAIN es
        BY <1>2, <2>1, <2>2, LeastIs
    <2>4. Apply(es, change, target) =
            IF target = None THEN RemoveAt(es, i) ELSE [es EXCEPT ![i] = target]
        BY <1>2 DEF Apply
    <2> HIDE DEF i
    <2>5. RemoveAt(es, i) \in Seq(Entry)
        BY <2>3, RemoveAtIs
    <2>6. target # None => [es EXCEPT ![i] = target] \in Seq(Entry)
        BY <2>3
    <2> QED
        BY <2>4, <2>5, <2>6
<1> QED
    BY <1>1, <1>2

\* All changes of a transaction.
LEMMA PatchedRaw ==
    ASSUME NEW es \in Seq(Entry), NEW changes \in Seq(ChangeSet), NEW target,
           \A n \in DOMAIN changes : target[n] \in Entry \cup {None}
    PROVE  Patched(es, changes, target) \in Seq(Entry)
<1>1. \A n \in DOMAIN changes : \A x \in Seq(Entry) :
         Apply(x, changes[n], target[n]) \in Seq(Entry)
    BY ApplyRaw
<1> DEFINE T == Seq(Entry)
           last == Patches(es, changes, target)[Len(changes)]
<1>2. /\ changes \in Seq(ChangeSet) /\ es \in T
      /\ \A n \in DOMAIN changes : \A x \in T : Apply(x, changes[n], target[n]) \in T
    BY <1>1
<1> HIDE DEF T
<1>3. Patches(es, changes, target)[Len(changes)] \in T
    BY ONLY <1>2, PatchesFollow
<1>4. last \in Seq(Entry)
    BY <1>3 DEF T
<1>5. Patched(es, changes, target) = Sorted(last)
    BY DEF Patched
<1> HIDE DEF last
<1> QED
    BY <1>4, <1>5, SortedType

LEMMA TurnedRaw ==
    ASSUME NEW es \in Seq(Entry), NEW t \in Transactions
    PROVE  /\ Undone(es, t.changes) \in Seq(Entry) /\ Redone(es, t.changes) \in Seq(Entry)
           /\ t.changes \in Seq(ChangeSet) /\ t.dirtyBefore \in BOOLEAN
<1>1. t.changes \in Seq(ChangeSet) /\ t.dirtyBefore \in BOOLEAN
    BY DEF Transactions
<1> DEFINE cs == t.changes
           before == [n \in DOMAIN cs |-> cs[n].before]
           after == [n \in DOMAIN cs |-> cs[n].after]
<1>2. \A n \in DOMAIN cs : cs[n] \in ChangeSet
    BY <1>1
<1>3. \A n \in DOMAIN cs : before[n] \in Entry \cup {None} /\ after[n] \in Entry \cup {None}
    BY <1>2 DEF ChangeSet
<1>4. Undone(es, t.changes) = Patched(es, cs, before) /\ Redone(es, t.changes) = Patched(es, cs, after)
    BY DEF Undone, Redone
<1>5. cs \in Seq(ChangeSet)
    BY <1>1
<1> HIDE DEF cs, before, after
<1>6. Patched(es, cs, before) \in Seq(Entry) /\ Patched(es, cs, after) \in Seq(Entry)
    BY <1>3, <1>5, PatchedRaw
<1> QED
    BY <1>1, <1>4, <1>6

LEMMA UndoRaw ==
    ASSUME NEW t \in RawSet, t.undo # <<>>, NEW u,
           u = [t EXCEPT !.entries = Undone(@, Last(t.undo).changes),
                         !.dirty = Last(t.undo).dirtyBefore,
                         !.undo = Front(@), !.redo = Append(@, Last(t.undo))]
    PROVE  u \in RawSet /\ u.id = t.id /\ u.file = t.file
<1> DEFINE last == Last(t.undo)
<1>1. t.undo \in Seq(Transactions) /\ t.redo \in Seq(Transactions) /\ t.entries \in Seq(Entry)
    BY RawFields
<1>2. Front(t.undo) \in Seq(Transactions) /\ last \in Transactions
    BY <1>1, FrontIs
<1>3. Undone(t.entries, last.changes) \in Seq(Entry) /\ last.dirtyBefore \in BOOLEAN
    BY <1>1, <1>2, TurnedRaw
<1>4. Append(t.redo, last) \in Seq(Transactions)
    BY <1>1, <1>2
<1> HIDE DEF last
<1> QED
    BY <1>2, <1>3, <1>4 DEF RawSet, last

LEMMA RedoRaw ==
    ASSUME NEW t \in RawSet, t.redo # <<>>, NEW u,
           u = [t EXCEPT !.entries = Redone(@, Last(t.redo).changes),
                         !.dirty = TRUE,
                         !.redo = Front(@), !.undo = Append(@, Last(t.redo))]
    PROVE  u \in RawSet /\ u.id = t.id /\ u.file = t.file
<1> DEFINE last == Last(t.redo)
<1>1. t.undo \in Seq(Transactions) /\ t.redo \in Seq(Transactions) /\ t.entries \in Seq(Entry)
    BY RawFields
<1>2. Front(t.redo) \in Seq(Transactions) /\ last \in Transactions
    BY <1>1, FrontIs
<1>3. Redone(t.entries, last.changes) \in Seq(Entry)
    BY <1>1, <1>2, TurnedRaw
<1>4. Append(t.undo, last) \in Seq(Transactions)
    BY <1>1, <1>2
<1> HIDE DEF last
<1> QED
    BY <1>2, <1>3, <1>4 DEF RawSet, last

LEMMA DeleteRaw ==
    ASSUME NEW t \in RawSet, NEW selected \in SUBSET DOMAIN t.entries, NEW u,
           LET gone == InOrder(selected)
               kept == InOrder(DOMAIN t.entries \ selected)
               change(i) == [key |-> t.entries[i].key,
                             before |-> t.entries[i], after |-> None]
           IN  u = Recorded([t EXCEPT !.entries = [n \in DOMAIN kept |-> @[kept[n]]],
                                      !.dirty = TRUE],
                            [n \in DOMAIN gone |-> change(gone[n])], t.dirty)
    PROVE  u \in RawSet /\ u.id = t.id /\ u.file = t.file
<1> DEFINE es == t.entries
           gone == InOrder(selected)
           kept == InOrder(DOMAIN es \ selected)
           left == [n \in DOMAIN kept |-> es[kept[n]]]
           changes == [n \in DOMAIN gone |-> [key |-> es[gone[n]].key,
                                              before |-> es[gone[n]], after |-> None]]
           v == [[t EXCEPT !.entries = left] EXCEPT !.dirty = TRUE]
<1>1. es \in Seq(Entry) /\ t.dirty \in BOOLEAN
    BY RawFields
<1>2. /\ DOMAIN es = 1..Len(es) /\ Len(es) \in Nat
      /\ \A i \in DOMAIN es : es[i] \in Entry /\ es[i].key \in Keys
    BY <1>1, KeyType
<1>3. IsFiniteSet(DOMAIN es) /\ DOMAIN es \in SUBSET Nat
    <2>1. 1 \in Int /\ Len(es) \in Int
        BY <1>2
    <2>2. IsFiniteSet(1..Len(es))
        BY <2>1, FS_Interval
    <2> QED
        BY <1>2, <2>2
<1>4. /\ selected \in SUBSET Nat /\ IsFiniteSet(selected)
      /\ DOMAIN es \ selected \in SUBSET Nat /\ IsFiniteSet(DOMAIN es \ selected)
    <2>1. DOMAIN es \ selected \in SUBSET DOMAIN es
        OBVIOUS
    <2> QED
        BY <1>3, <2>1, FS_Subset
<1>5. /\ DOMAIN gone = 1..Cardinality(selected) /\ Cardinality(selected) \in Nat
      /\ \A n \in DOMAIN gone : gone[n] \in DOMAIN es
    BY <1>4, InOrderIs
<1>6. /\ DOMAIN kept = 1..Cardinality(DOMAIN es \ selected)
      /\ Cardinality(DOMAIN es \ selected) \in Nat
      /\ \A n \in DOMAIN kept : kept[n] \in DOMAIN es
    BY <1>4, InOrderIs
<1> HIDE DEF gone, kept
<1>7. left \in Seq(Entry)
    <2> DEFINE c == Cardinality(DOMAIN es \ selected)
    <2>1. \A n \in 1..c : es[kept[n]] \in Entry
        BY <1>2, <1>6
    <2>2. left = [n \in 1..c |-> es[kept[n]]] /\ c \in Nat
        BY <1>6
    <2> HIDE DEF c, left
    <2> QED
        BY <2>1, <2>2
<1>8. changes \in Seq(ChangeSet)
    <2> DEFINE change(n) == [key |-> es[gone[n]].key, before |-> es[gone[n]], after |-> None]
    <2>1. \A n \in DOMAIN gone : change(n) \in ChangeSet
        BY <1>2, <1>5 DEF ChangeSet
    <2> HIDE DEF change
    <2>2. [n \in DOMAIN gone |-> change(n)] \in Seq(ChangeSet)
        BY <1>5, <2>1
    <2> QED
        BY <2>2 DEF change
<1>9. u = Recorded(v, changes, t.dirty)
    BY DEF gone, kept
<1> HIDE DEF left, changes
<1>10. v \in RawSet /\ v.id = t.id /\ v.file = t.file
    BY <1>7 DEF RawSet
<1> HIDE DEF v
<1> QED
    BY <1>1, <1>8, <1>9, <1>10, RecordedRaw

----------------------------------------------------------------------------
(* An import into an archive of which nothing is known: it leaves alone    *)
(* what it does not bring.                                                 *)

RawRoundSet == [tab : RawSet, batch : BatchSet, panic : BOOLEAN]

\* A frame leaves the archive's identity and mark, and the import's home alone.
Kin(s, r) ==
    /\ r.tab.id = s.tab.id /\ r.tab.file = s.tab.file /\ r.tab.dirty = s.tab.dirty
    /\ r.batch.target = s.batch.target /\ r.batch.home = s.batch.home
    /\ r.batch.shifted = s.batch.shifted

Spares(s, r, K) == Untouched(r.tab.entries, K) = Untouched(s.tab.entries, K)

LEMMA KinTrans ==
    ASSUME NEW s, NEW r, NEW u, NEW K, Kin(s, r), Kin(r, u), Spares(s, r, K), Spares(r, u, K)
    PROVE  Kin(s, u) /\ Spares(s, u, K)
BY DEF Kin, Spares

LEMMA NotedRaw ==
    ASSUME NEW changes \in Seq(ChangeSet), NEW k \in Keys, NEW before \in Entry \cup {None},
           NEW after \in Entry \cup {None}
    PROVE  Noted(changes, k, before, after) \in Seq(ChangeSet)
<1> DEFINE at == {i \in DOMAIN changes : changes[i].key = k}
           new == [key |-> k, before |-> before, after |-> after]
<1>1. CASE at = {}
    <2>1. new \in ChangeSet
        BY DEF ChangeSet
    <2>2. Noted(changes, k, before, after) = Append(changes, new)
        BY <1>1 DEF Noted
    <2> HIDE DEF new
    <2> QED
        BY <2>1, <2>2
<1>2. CASE at # {}
    <2> DEFINE i == CHOOSE i \in at : TRUE
    <2>1. i \in DOMAIN changes
        BY <1>2
    <2>2. Noted(changes, k, before, after) = [changes EXCEPT ![i].after = after]
        BY <1>2 DEF Noted
    <2> HIDE DEF i
    <2> DEFINE c == [changes[i] EXCEPT !.after = after]
    <2>3. changes[i] \in ChangeSet
        BY <2>1
    <2>4. c \in ChangeSet
        BY <2>3 DEF ChangeSet
    <2>5. [changes EXCEPT ![i].after = after] = [changes EXCEPT ![i] = c]
        BY <2>1
    <2> HIDE DEF c
    <2>6. [changes EXCEPT ![i] = c] \in Seq(ChangeSet)
        BY <2>1, <2>4
    <2> QED
        BY <2>2, <2>5, <2>6
<1> QED
    BY <1>1, <1>2

\* What add_incoming does to the entries, at any index that fits the name.
LEMMA PutSpares ==
    ASSUME NEW es \in Seq(Entry), NEW entry \in Entry, NEW at \in Nat, NEW K, entry.key \in K,
           at # 0 => at \in DOMAIN es /\ es[at].key = entry.key
    PROVE  Put(es, entry, at) \in Seq(Entry) /\ Untouched(Put(es, entry, at), K) = Untouched(es, K)
<1> DEFINE new == Put(es, entry, at)
<1>1. CASE at = 0
    <2>1. new = Append(es, entry)
        BY <1>1 DEF Put
    <2>2. /\ new \in Seq(Entry) /\ DOMAIN new = DOMAIN es \cup {Len(es) + 1}
          /\ \A i \in DOMAIN es : new[i] = es[i]
          /\ new[Len(es) + 1] = entry
        BY <2>1, AppendIs
    <2> HIDE DEF new
    <2>3. Range(new) = Range(es) \cup {entry}
        BY <2>2 DEF Range
    <2>4. Untouched(new, K) = Untouched(es, K)
        BY <2>3 DEF Untouched
    <2> QED
        BY <2>2, <2>4 DEF new
<1>2. CASE at # 0
    <2>1. new = [es EXCEPT ![at] = entry]
        BY <1>2 DEF Put
    <2>2. /\ new \in Seq(Entry) /\ DOMAIN new = DOMAIN es
          /\ \A i \in DOMAIN es : new[i] = IF i = at THEN entry ELSE es[i]
        BY <1>2, <2>1
    <2> HIDE DEF new
    <2>3. /\ \A x \in Range(new) : x = entry \/ x \in Range(es)
          /\ \A x \in Range(es) : x = es[at] \/ x \in Range(new)
        BY <2>2 DEF Range
    <2>4. Untouched(new, K) = Untouched(es, K)
        BY <1>2, <2>3 DEF Untouched
    <2> QED
        BY <2>2, <2>4 DEF new
<1> QED
    BY <1>1, <1>2

LEMMA AddRaw ==
    ASSUME NEW s \in RawRoundSet, NEW entry \in Item, NEW at \in Nat, NEW K, entry.key \in K,
           NEW r, r = Add(s, entry, at)
    PROVE  /\ r \in RawRoundSet /\ Kin(s, r) /\ Spares(s, r, K)
           /\ r.batch.queue = s.batch.queue /\ r.batch.conflict = s.batch.conflict
<1> DEFINE t == s.tab
           b == s.batch
           es == t.entries
           k == entry.key
           fits == at # 0 => at \in DOMAIN es /\ es[at].key = k
           before == IF at = 0 THEN None ELSE es[at]
           noted == Noted(b.changes, k, before, entry)
           new == Put(es, entry, at)
           found == IF at = 0 THEN Learned(b.lookup, k, Len(es) + 1) ELSE b.lookup
           b1 == [[b EXCEPT !.changed = TRUE] EXCEPT !.changes = noted]
           b2 == [b1 EXCEPT !.lookup = found]
           t2 == [t EXCEPT !.entries = new]
<1>1. /\ t \in RawSet /\ b \in BatchSet /\ es \in Seq(Entry) /\ s.panic \in BOOLEAN
      /\ b.changes \in Seq(ChangeSet) /\ b.lookup \in [Keys -> Nat]
      /\ Len(es) \in Nat /\ DOMAIN es = 1..Len(es)
    BY RawFields DEF RawRoundSet, BatchSet
<1>2. entry \in Entry /\ k \in Keys
    BY ItemType
<1>3. CASE ~fits
    <2>1. r = s
        BY <1>3 DEF Add
    <2> QED
        BY <2>1 DEF Kin, Spares
<1>4. CASE fits
    <2>1. before \in Entry \cup {None}
        BY <1>1, <1>4
    <2>2. new \in Seq(Entry) /\ Untouched(new, K) = Untouched(es, K)
        BY <1>1, <1>2, <1>4, PutSpares
    <2> HIDE DEF before, new
    <2>3. noted \in Seq(ChangeSet)
        BY <1>1, <1>2, <2>1, NotedRaw
    <2>4. found \in [Keys -> Nat]
        BY <1>1, <1>2 DEF Learned
    <2> HIDE DEF noted, found
    <2>5. /\ b2 \in BatchSet /\ b2.target = b.target /\ b2.home = b.home
          /\ b2.conflict = b.conflict /\ b2.queue = b.queue /\ b2.shifted = b.shifted
        BY <1>1, <2>3, <2>4 DEF BatchSet
    <2>6. /\ t2 \in RawSet /\ t2.entries = new /\ t2.id = t.id /\ t2.file = t.file
          /\ t2.dirty = t.dirty
        BY <1>1, <2>2 DEF RawSet
    <2>7. r = [[s EXCEPT !.tab = t2] EXCEPT !.batch = b2]
        <3> DEFINE added == [s EXCEPT !.batch = b1]
        <3>1. s.tab = t /\ s.batch = b /\ s = [tab |-> t, batch |-> b, panic |-> s.panic]
            BY DEF RawRoundSet
        <3>2. [s EXCEPT !.batch.changed = TRUE, !.batch.changes = noted] = added
            BY <3>1
        <3>3. CASE at = 0
            <4>1. r = [added EXCEPT !.tab.entries = Append(es, entry),
                                    !.batch.lookup = Learned(b.lookup, k, Len(es) + 1)]
                BY <1>1, <3>1, <3>3, <3>2 DEF Add, noted, before, RawRoundSet, BatchSet
            <4> QED
                BY <3>1, <3>3, <4>1 DEF new, found, Put
        <3>4. CASE at # 0
            <4>1. r = [added EXCEPT !.tab.entries[at] = entry]
                BY <1>1, <1>4, <3>1, <3>2, <3>4 DEF Add, noted, before, RawRoundSet, BatchSet
            <4>2. b2 = b1
                BY <1>1, <3>4 DEF found, BatchSet
            <4> QED
                BY <3>1, <3>4, <4>1, <4>2 DEF new, Put
        <3> QED
            BY <3>3, <3>4
    <2> HIDE DEF b2, t2
    <2>8. /\ r \in RawRoundSet /\ r.tab = t2 /\ r.batch = b2
        BY <2>5, <2>6, <2>7 DEF RawRoundSet
    <2> QED
        BY <2>2, <2>5, <2>6, <2>8 DEF Kin, Spares
<1> QED
    BY <1>3, <1>4

\* What is done about the open question.
LEMMA AnsweredRaw ==
    ASSUME NEW s \in RawRoundSet, NEW answer \in Answers \cup {"continue"},
           answer # "continue" => s.batch.conflict # None,
           NEW K, s.batch.conflict # None => s.batch.conflict.entry.key \in K,
           NEW r, r = Answered(s, answer)
    PROVE  r \in RawRoundSet /\ Kin(s, r) /\ Spares(s, r, K) /\ r.batch.queue = s.batch.queue
<1> DEFINE b == s.batch
           c == b.conflict
           b1 == [b EXCEPT !.conflict = None]
           cleared == [s EXCEPT !.batch = b1]
<1>1. /\ s.tab \in RawSet /\ b \in BatchSet /\ s.panic \in BOOLEAN
      /\ s = [tab |-> s.tab, batch |-> b, panic |-> s.panic]
    BY DEF RawRoundSet
<1>2. [s EXCEPT !.batch.conflict = None] = cleared
    BY <1>1
<1>3. ASSUME NEW p \in {"ask", "replaceAll", "skipAll"}, NEW u,
             u = [cleared EXCEPT !.batch.policy = p]
      PROVE  /\ u \in RawRoundSet /\ Kin(s, u) /\ Spares(s, u, K)
             /\ u.batch.queue = s.batch.queue
    <2> DEFINE b2 == [b1 EXCEPT !.policy = p]
    <2>1. /\ b2 \in BatchSet /\ b2.target = b.target /\ b2.home = b.home
          /\ b2.shifted = b.shifted /\ b2.queue = b.queue
        BY <1>1 DEF BatchSet
    <2>2. u = [tab |-> s.tab, batch |-> b2, panic |-> s.panic]
        BY <1>1, <1>3
    <2> HIDE DEF b2
    <2> QED
        BY <1>1, <2>1, <2>2 DEF RawRoundSet, Kin, Spares
<1>4. cleared = [cleared EXCEPT !.batch.policy = b.policy]
    BY <1>1 DEF BatchSet
<1>5. b.policy \in {"ask", "replaceAll", "skipAll"}
    BY <1>1 DEF BatchSet
<1>6. ASSUME NEW u \in RawRoundSet, Kin(s, u), Spares(s, u, K),
             u.batch.queue = s.batch.queue, c # None, r = Add(u, c.entry, c.at)
      PROVE  r \in RawRoundSet /\ Kin(s, r) /\ Spares(s, r, K) /\ r.batch.queue = s.batch.queue
    <2>1. c \in Question
        BY <1>1, <1>6 DEF BatchSet
    <2>2. c.entry \in Item /\ c.at \in Nat /\ c.entry.key \in K
        BY <1>6, <2>1 DEF Question
    <2>3. /\ r \in RawRoundSet /\ Kin(u, r) /\ Spares(u, r, K)
          /\ r.batch.queue = u.batch.queue
        BY <1>6, <2>2, AddRaw
    <2> QED
        BY <1>6, <2>3, KinTrans
<1> HIDE DEF cleared, b1
<1>7. CASE answer = "continue"
    BY <1>7 DEF Answered, Kin, Spares
<1>8. CASE answer = "replace"
    <2>1. r = Add(cleared, c.entry, c.at) /\ c # None
        BY <1>2, <1>8 DEF Answered
    <2> QED
        BY <1>3, <1>4, <1>5, <1>6, <2>1
<1>9. CASE answer = "replaceAll"
    <2>1. r = Add([cleared EXCEPT !.batch.policy = "replaceAll"], c.entry, c.at) /\ c # None
        BY <1>2, <1>9 DEF Answered
    <2> QED
        BY <1>3, <1>6, <2>1
<1>10. CASE answer = "skip" \/ answer = "cancel"
    <2>1. r = cleared
        BY <1>2, <1>10 DEF Answered
    <2> QED
        BY <1>3, <1>4, <1>5, <2>1
<1>11. CASE answer = "skipAll"
    <2>1. r = [cleared EXCEPT !.batch.policy = "skipAll"]
        BY <1>2, <1>11 DEF Answered
    <2> QED
        BY <1>3, <2>1
<1> QED
    BY <1>7, <1>8, <1>9, <1>10, <1>11 DEF Answers

\* The next file.
LEMMA TookRaw ==
    ASSUME NEW s \in RawRoundSet, NEW readable \in BOOLEAN, NEW K,
           \A n \in DOMAIN s.batch.queue : s.batch.queue[n].key \in K,
           NEW r, r = Took(s, readable)
    PROVE  r \in RawRoundSet /\ Kin(s, r) /\ Spares(s, r, K)
<1> DEFINE b == s.batch
           entry == Head(b.queue)
           at == b.lookup[entry.key]
           b1 == [b EXCEPT !.queue = Tail(b.queue)]
           rest == [s EXCEPT !.batch = b1]
<1>1. /\ s.tab \in RawSet /\ b \in BatchSet /\ s.panic \in BOOLEAN
      /\ s = [tab |-> s.tab, batch |-> b, panic |-> s.panic]
      /\ b.queue \in Seq(Item) /\ b.lookup \in [Keys -> Nat]
      /\ Len(s.tab.entries) \in Nat
    BY RawFields DEF RawRoundSet, BatchSet
<1>2. CASE b.conflict # None \/ b.queue = <<>>
    BY <1>2, Zenon DEF Took, Kin, Spares
<1>3. CASE b.conflict = None /\ b.queue # <<>>
    <2>1. entry \in Item /\ Tail(b.queue) \in Seq(Item) /\ entry.key \in K
        <3>1. 1 \in DOMAIN b.queue /\ b.queue[1] = entry
            BY <1>1, <1>3
        <3> QED
            BY <1>1, <1>3, <3>1
    <2>2. [s EXCEPT !.batch.queue = Tail(@)] = rest
        BY <1>1
    <2>3. /\ b1 \in BatchSet /\ b1.target = b.target /\ b1.home = b.home
          /\ b1.shifted = b.shifted
        BY <1>1, <1>3, <2>1 DEF BatchSet
    <2>4. r = IF ~readable THEN rest
              ELSE IF at = 0 THEN Add(rest, entry, 0)
              ELSE IF b.policy = "ask"
                   THEN [rest EXCEPT !.batch.conflict = [entry |-> entry, at |-> at],
                                     !.panic = at > Len(s.tab.entries)]
              ELSE IF b.policy = "replaceAll" THEN Add(rest, entry, at)
              ELSE rest
        BY <1>3, <2>2 DEF Took
    <2> HIDE DEF b1
    <2>5. rest = [tab |-> s.tab, batch |-> b1, panic |-> s.panic]
        BY <1>1
    <2> HIDE DEF rest
    <2>6. rest \in RawRoundSet /\ Kin(s, rest) /\ Spares(s, rest, K)
        BY <1>1, <2>3, <2>5 DEF RawRoundSet, Kin, Spares
    <2>7. at \in Nat
        BY <1>1, <2>1, ItemType
    <2> HIDE DEF entry, at
    <2>8. ASSUME r = Add(rest, entry, at)
          PROVE  r \in RawRoundSet /\ Kin(s, r) /\ Spares(s, r, K)
        <3>1. r \in RawRoundSet /\ Kin(rest, r) /\ Spares(rest, r, K)
            BY <2>1, <2>6, <2>7, <2>8, AddRaw
        <3> QED
            BY <2>6, <3>1, KinTrans
    <2>9. ASSUME r = [rest EXCEPT !.batch.conflict = [entry |-> entry, at |-> at],
                                  !.panic = at > Len(s.tab.entries)]
          PROVE  r \in RawRoundSet /\ Kin(s, r) /\ Spares(s, r, K)
        <3> DEFINE q == [entry |-> entry, at |-> at]
                   b2 == [b1 EXCEPT !.conflict = q]
                   p == at > Len(s.tab.entries)
        <3>1. q \in Question /\ p \in BOOLEAN
            BY <1>1, <2>1, <2>7 DEF Question
        <3> HIDE DEF q, p
        <3>2. r = [tab |-> s.tab, batch |-> b2, panic |-> p]
            BY <2>5, <2>9 DEF q, p
        <3>3. /\ b2 \in BatchSet /\ b2.target = b.target /\ b2.home = b.home
              /\ b2.shifted = b.shifted
            BY <2>3, <3>1 DEF BatchSet
        <3> HIDE DEF b2
        <3> QED
            BY <1>1, <3>1, <3>2, <3>3 DEF RawRoundSet, Kin, Spares
    <2> QED
        BY <2>4, <2>6, <2>8, <2>9
<1> QED
    BY <1>2, <1>3

\* The end of an import, and of a frame.
LEMMA FinishedRaw ==
    ASSUME NEW t \in RawSet, NEW b \in BatchSet
    PROVE  /\ Finished(t, b) \in RawSet /\ Finished(t, b).id = t.id
           /\ Finished(t, b).file = t.file
           /\ Range(Finished(t, b).entries) = Range(t.entries)
           /\ Finished(t, b).dirty = (t.dirty \/ b.changed)
<1>1. /\ t.entries \in Seq(Entry) /\ t.dirty \in BOOLEAN
      /\ b.changes \in Seq(ChangeSet) /\ b.dirtyBefore \in BOOLEAN /\ b.changed \in BOOLEAN
    BY RawFields DEF BatchSet
<1>2. CASE ~b.changed
    BY <1>1, <1>2 DEF Finished
<1>3. CASE b.changed
    <2> DEFINE u == [[t EXCEPT !.entries = Sorted(t.entries)] EXCEPT !.dirty = TRUE]
    <2>1. Sorted(t.entries) \in Seq(Entry) /\ Range(Sorted(t.entries)) = Range(t.entries)
        BY <1>1, SortedType, SortedRange
    <2>2. /\ u \in RawSet /\ u.dirty = TRUE /\ u.entries = Sorted(t.entries) /\ u.id = t.id
          /\ u.file = t.file
        BY <2>1 DEF RawSet
    <2>3. Finished(t, b) = Recorded(u, b.changes, b.dirtyBefore)
        BY <1>3 DEF Finished
    <2> HIDE DEF u
    <2>4. /\ Finished(t, b) \in RawSet /\ Finished(t, b).id = u.id /\ Finished(t, b).file = u.file
          /\ Finished(t, b).dirty = u.dirty /\ Finished(t, b).entries = u.entries
        BY <1>1, <2>2, <2>3, RecordedRaw
    <2> QED
        BY <1>1, <1>3, <2>1, <2>2, <2>4
<1> QED
    BY <1>1, <1>2, <1>3

----------------------------------------------------------------------------
(* Windows.                                                                *)

WindowSet == [tabs : Seq(RawSet), live : RawSet, active : Nat]

\* Every tab is an archive of its own, though two may be of the same file.
Placed(all, max) ==
    /\ all \in Seq(RawSet)
    /\ \A i \in DOMAIN all : all[i].id \in 1..max
    /\ \A i, j \in DOMAIN all : all[i].id = all[j].id => i = j

\* The live copy is a copy of the active tab, however it was edited since.
Arranged(w, max) ==
    /\ w \in WindowSet /\ w.active \in 0..Len(w.tabs)
    /\ w.active = 0 <=> w.tabs = <<>>
    /\ w.active # 0 => w.live.id = w.tabs[w.active].id
    /\ Placed(Synced(w), max)

LEMMA ArrangedIs ==
    ASSUME NEW w, NEW max, Arranged(w, max)
    PROVE  /\ w.tabs \in Seq(RawSet) /\ w.live \in RawSet
           /\ Len(w.tabs) \in Nat /\ DOMAIN w.tabs = 1..Len(w.tabs) /\ w.active \in Nat
           /\ w.active # 0 <=> w.active \in DOMAIN w.tabs
           /\ Synced(w) \in Seq(RawSet) /\ DOMAIN Synced(w) = DOMAIN w.tabs
           /\ Len(Synced(w)) = Len(w.tabs)
           /\ \A i \in DOMAIN w.tabs : Synced(w)[i] = IF i = w.active THEN w.live ELSE w.tabs[i]
           /\ \A i \in DOMAIN w.tabs : Synced(w)[i].id = w.tabs[i].id
           /\ w = [tabs |-> w.tabs, live |-> w.live, active |-> w.active]
<1>1. w.tabs \in Seq(RawSet) /\ w.live \in RawSet /\ w.active \in Nat
      /\ w = [tabs |-> w.tabs, live |-> w.live, active |-> w.active]
    BY DEF Arranged, WindowSet
<1>2. Len(w.tabs) \in Nat /\ DOMAIN w.tabs = 1..Len(w.tabs)
    BY <1>1
<1>3. w.active # 0 <=> w.active \in DOMAIN w.tabs
    BY <1>2 DEF Arranged
<1>4. CASE w.active = 0
    <2>1. Synced(w) = w.tabs /\ w.tabs = <<>>
        BY <1>4 DEF Synced, Arranged
    <2>2. DOMAIN w.tabs = {}
        BY <2>1
    <2> QED
        BY <1>1, <1>2, <1>3, <2>1, <2>2
<1>5. CASE w.active # 0
    <2>1. Synced(w) = [w.tabs EXCEPT ![w.active] = w.live]
        BY <1>5 DEF Synced
    <2> DEFINE all == [w.tabs EXCEPT ![w.active] = w.live]
    <2>2. /\ all \in Seq(RawSet) /\ DOMAIN all = DOMAIN w.tabs /\ Len(all) = Len(w.tabs)
          /\ \A i \in DOMAIN w.tabs : all[i] = IF i = w.active THEN w.live ELSE w.tabs[i]
        BY <1>1, <1>3, <1>5
    <2> HIDE DEF all
    <2>3. \A i \in DOMAIN w.tabs : all[i].id = w.tabs[i].id
        BY <1>5, <2>2 DEF Arranged
    <2>4. Synced(w) = all
        BY <2>1 DEF all
    <2> QED
        BY <1>1, <1>2, <1>3, <2>2, <2>3, <2>4
<1> QED
    BY <1>4, <1>5

\* A tab that is loaded is shown, and the others are kept.
LEMMA LoadGood ==
    ASSUME NEW max, NEW all, Placed(all, max), NEW i \in DOMAIN all
    PROVE  /\ Arranged(LoadTab(all, i), max) /\ Synced(LoadTab(all, i)) = all
           /\ LoadTab(all, i).active = i /\ LoadTab(all, i).live = all[i]
           /\ LoadTab(all, i).tabs = all
<1> DEFINE w == LoadTab(all, i)
<1>1. all \in Seq(RawSet) /\ Len(all) \in Nat /\ DOMAIN all = 1..Len(all) /\ all # <<>>
    <2>1. all \in Seq(RawSet)
        BY DEF Placed
    <2> QED
        BY <2>1
<1>2. /\ w = [tabs |-> all, live |-> all[i], active |-> i]
      /\ w.tabs = all /\ w.live = all[i] /\ w.active = i
    BY DEF LoadTab
<1>3. i \in Nat \ {0} /\ i \in 0..Len(all) /\ all[i] \in RawSet
    BY <1>1
<1> HIDE DEF w
<1>4. Synced(w) = all
    <2>1. Synced(w) = [all EXCEPT ![i] = all[i]]
        BY <1>2, <1>3 DEF Synced
    <2> QED
        BY <1>1, <2>1
<1>5. w \in WindowSet
    BY <1>1, <1>2, <1>3 DEF WindowSet
<1>6. Arranged(w, max)
    BY <1>1, <1>2, <1>3, <1>4, <1>5 DEF Arranged
<1> QED
    BY <1>2, <1>4, <1>6 DEF w

\* switch_tab shows another tab and changes none.
LEMMA SwitchGood ==
    ASSUME NEW max, NEW w, Arranged(w, max), NEW i \in DOMAIN w.tabs
    PROVE  /\ Arranged(SwitchTab(w, i), max) /\ Synced(SwitchTab(w, i)) = Synced(w)
           /\ SwitchTab(w, i).active = i /\ SwitchTab(w, i).live = Synced(w)[i]
           /\ Len(SwitchTab(w, i).tabs) = Len(w.tabs)
<1>1. /\ Placed(Synced(w), max) /\ i \in DOMAIN Synced(w) /\ Len(Synced(w)) = Len(w.tabs)
      /\ (i = w.active => Synced(w)[i] = w.live)
    BY ArrangedIs DEF Arranged
<1> QED
    BY <1>1, LoadGood DEF SwitchTab

\* Fewer tabs are good tabs.
LEMMA RemoveGood ==
    ASSUME NEW max, NEW all, Placed(all, max), NEW i \in DOMAIN all
    PROVE  Placed(RemoveAt(all, i), max)
<1> DEFINE rest == RemoveAt(all, i)
<1>1. all \in Seq(RawSet) /\ Len(all) \in Nat /\ DOMAIN all = 1..Len(all)
    <2>1. all \in Seq(RawSet)
        BY DEF Placed
    <2> QED
        BY <2>1
<1>2. /\ rest \in Seq(RawSet)
      /\ \A n \in DOMAIN rest : \E m \in DOMAIN all \ {i} :
            m = (IF n < i THEN n ELSE n + 1) /\ rest[n] = all[m]
    <2>1. rest \in Seq(RawSet)
        BY <1>1, RemoveAtIs
    <2>2. \A n \in DOMAIN rest : \E m \in DOMAIN all \ {i} :
            m = (IF n < i THEN n ELSE n + 1) /\ rest[n] = all[m]
        BY ONLY <1>1, i \in DOMAIN all, RemoveAtFrom
    <2> QED
        BY <2>1, <2>2
<1> HIDE DEF rest
<1>3. \A n \in DOMAIN rest : n \in Int
    BY <1>2
<1>4. i \in Int
    BY <1>1
<1>5. ASSUME NEW m \in DOMAIN rest, NEW n \in DOMAIN rest,
             rest[m].id = rest[n].id
      PROVE  m = n
    <2>1. PICK a \in DOMAIN all \ {i} : a = (IF m < i THEN m ELSE m + 1) /\ rest[m] = all[a]
        BY <1>2
    <2>2. PICK b \in DOMAIN all \ {i} : b = (IF n < i THEN n ELSE n + 1) /\ rest[n] = all[b]
        BY <1>2
    <2>3. a = b
        BY <1>5, <2>1, <2>2 DEF Placed
    <2> QED
        BY <1>3, <1>4, <2>1, <2>2, <2>3
<1>6. \A n \in DOMAIN rest : rest[n].id \in 1..max
    BY <1>2 DEF Placed
<1> QED
    BY <1>2, <1>5, <1>6 DEF Placed, rest

\* close_tab removes one tab, and shows one of the others.
LEMMA CloseGood ==
    ASSUME NEW max, NEW w, Arranged(w, max), NEW i \in DOMAIN w.tabs
    PROVE  /\ Arranged(CloseTab(w, i), max)
           /\ Synced(CloseTab(w, i)) = RemoveAt(Synced(w), i)
<1> DEFINE all == Synced(w)
           rest == RemoveAt(all, i)
           next == IF w.active > i THEN w.active - 1
                   ELSE IF w.active = i /\ i > Len(rest) THEN Len(rest) ELSE w.active
<1>1. /\ Placed(all, max) /\ i \in DOMAIN all /\ all \in Seq(RawSet)
      /\ Len(all) \in Nat /\ Len(all) = Len(w.tabs) /\ DOMAIN all = 1..Len(all)
      /\ w.active \in Nat /\ w.live \in RawSet
      /\ w.active \in DOMAIN all
    <2>1. Arranged(w, max) /\ DOMAIN w.tabs # {}
        OBVIOUS
    <2>2. w.tabs # <<>> /\ w.active # 0
        BY <2>1 DEF Arranged
    <2> QED
        BY <2>1, <2>2, ArrangedIs DEF Arranged
<1>2. Placed(rest, max)
    BY <1>1, RemoveGood
<1>3. rest \in Seq(RawSet) /\ Len(rest) = Len(all) - 1
    BY <1>1, RemoveAtIs
<1>4. CASE rest = <<>>
    <2>1. CloseTab(w, i) = [[w EXCEPT !.tabs = rest] EXCEPT !.active = 0]
        BY <1>4 DEF CloseTab
    <2> DEFINE v == [[w EXCEPT !.tabs = rest] EXCEPT !.active = 0]
    <2>2. w \in WindowSet
        BY DEF Arranged
    <2> HIDE DEF rest
    <2>3. v \in WindowSet /\ v.tabs = rest /\ v.active = 0
        BY <1>3, <2>2 DEF WindowSet
    <2> HIDE DEF v
    <2>4. Synced(v) = rest
        BY <2>3 DEF Synced
    <2>5. 0 \in 0..Len(rest)
        BY <1>3
    <2>6. Arranged(v, max)
        BY <1>2, <1>4, <2>3, <2>4, <2>5 DEF Arranged
    <2> QED
        BY <2>1, <2>4, <2>6 DEF v, rest
<1>5. CASE rest # <<>>
    <2>1. CloseTab(w, i) = LoadTab(rest, next)
        BY <1>5 DEF CloseTab
    <2> HIDE DEF rest
    <2>2. Len(rest) \in Nat \ {0} /\ DOMAIN rest = 1..Len(rest)
        BY <1>3, <1>5
    <2>3. next \in DOMAIN rest
        <3> DEFINE a == w.active
                   l == Len(rest)
        <3>1. a \in 1..(l + 1) /\ i \in 1..(l + 1) /\ l \in Nat \ {0} /\ DOMAIN rest = 1..l
            BY <1>1, <1>3, <2>2
        <3>2. next = IF a > i THEN a - 1 ELSE IF a = i /\ i > l THEN l ELSE a
            OBVIOUS
        <3> HIDE DEF a, l, next
        <3>3. next \in 1..l
            BY <3>1, <3>2
        <3> QED
            BY <3>1, <3>3
    <2> HIDE DEF next
    <2> QED
        BY <1>2, <2>1, <2>3, LoadGood DEF rest
<1> QED
    BY <1>4, <1>5

\* A new tab.
Opened(w, t) == LoadTab(Append(Synced(w), t), Len(w.tabs) + 1)

LEMMA OpenGood ==
    ASSUME NEW w, NEW max \in Nat, Arranged(w, max), NEW t \in RawSet, t.id = max + 1
    PROVE  /\ Arranged(Opened(w, t), max + 1) /\ Synced(Opened(w, t)) = Append(Synced(w), t)
           /\ Opened(w, t).active = Len(w.tabs) + 1 /\ Opened(w, t).live = t
           /\ Opened(w, t).tabs = Append(Synced(w), t)
           /\ DOMAIN Append(Synced(w), t) = DOMAIN Synced(w) \cup {Len(w.tabs) + 1}
           /\ Len(w.tabs) + 1 \notin DOMAIN Synced(w)
           /\ Append(Synced(w), t)[Len(w.tabs) + 1] = t
           /\ \A i \in DOMAIN Synced(w) : Append(Synced(w), t)[i] = Synced(w)[i]
<1> DEFINE all == Synced(w)
           new == max + 1
           more == Append(all, t)
           next == Len(w.tabs) + 1
<1>1. all \in Seq(RawSet) /\ Placed(all, max) /\ Len(all) = Len(w.tabs)
    BY ArrangedIs DEF Arranged
<1>2. /\ more \in Seq(RawSet) /\ DOMAIN more = DOMAIN all \cup {next}
      /\ next \notin DOMAIN all
      /\ \A i \in DOMAIN all : more[i] = all[i]
      /\ more[next] = t
    BY <1>1, AppendIs
<1> HIDE DEF all, more, next
<1>3. \A i \in DOMAIN all : all[i].id \in 1..max /\ all[i].id # new /\ all[i].id \in 1..new
    BY <1>1 DEF Placed
<1>4. new \in 1..new
    OBVIOUS
<1>5. \A i \in DOMAIN more : more[i].id \in 1..new
    BY <1>2, <1>3, <1>4
<1>6. \A i, j \in DOMAIN more : more[i].id = more[j].id => i = j
    BY <1>1, <1>2, <1>3, SMTT(30) DEF Placed
<1> HIDE DEF new
<1>7. Placed(more, new) /\ next \in DOMAIN more
    BY <1>2, <1>5, <1>6 DEF Placed
<1>8. /\ Arranged(LoadTab(more, next), new) /\ Synced(LoadTab(more, next)) = more
      /\ LoadTab(more, next).active = next /\ LoadTab(more, next).live = more[next]
      /\ LoadTab(more, next).tabs = more
    BY ONLY <1>7, LoadGood
<1>9. Opened(w, t) = LoadTab(more, next)
    BY DEF Opened, more, next, all
<1> HIDE DEF Opened
<1> QED
    BY <1>2, <1>8, <1>9 DEF all, more, next, new

\* The live copy is edited.
LEMMA EditGood ==
    ASSUME NEW max, NEW w, Arranged(w, max), w.active # 0,
           NEW t \in RawSet, t.id = w.live.id,
           NEW v, v = [tabs |-> w.tabs, live |-> t, active |-> w.active]
    PROVE  /\ Arranged(v, max)
           /\ Synced(v) = [Synced(w) EXCEPT ![w.active] = t]
           /\ DOMAIN Synced(v) = DOMAIN Synced(w)
           /\ \A i \in DOMAIN Synced(w) :
                 Synced(v)[i] = IF i = w.active THEN t ELSE Synced(w)[i]
<1>1. /\ w.tabs \in Seq(RawSet) /\ w.active \in DOMAIN w.tabs /\ w.active \in Nat
      /\ Synced(w) \in Seq(RawSet) /\ DOMAIN Synced(w) = DOMAIN w.tabs
      /\ \A i \in DOMAIN w.tabs : Synced(w)[i] = IF i = w.active THEN w.live ELSE w.tabs[i]
      /\ Arranged(w, max)
    BY ArrangedIs
<1>2. v \in WindowSet /\ v.tabs = w.tabs /\ v.live = t /\ v.active = w.active
    BY <1>1 DEF WindowSet
<1> DEFINE all == [w.tabs EXCEPT ![w.active] = t]
<1>3. Synced(v) = all
    BY <1>2 DEF Synced
<1>4. /\ all \in Seq(RawSet) /\ DOMAIN all = DOMAIN w.tabs
      /\ \A i \in DOMAIN all : all[i] = IF i = w.active THEN t ELSE w.tabs[i]
    BY <1>1
<1>5. all = [Synced(w) EXCEPT ![w.active] = t]
    <2> DEFINE b == [Synced(w) EXCEPT ![w.active] = t]
    <2>1. /\ b \in Seq(RawSet) /\ DOMAIN b = DOMAIN w.tabs
          /\ \A i \in DOMAIN b : b[i] = IF i = w.active THEN t ELSE w.tabs[i]
        BY <1>1
    <2>2. /\ all = [i \in DOMAIN w.tabs |-> all[i]]
          /\ b = [i \in DOMAIN w.tabs |-> b[i]]
        BY <1>1, <1>4, <2>1
    <2> HIDE DEF all, b
    <2>3. \A i \in DOMAIN w.tabs : all[i] = b[i]
        BY <1>4, <2>1
    <2>4. all = b
        BY <2>2, <2>3
    <2> QED
        BY <2>4 DEF b
<1> HIDE DEF all
<1>6. \A i \in DOMAIN all : all[i].id = Synced(w)[i].id
    BY <1>1, <1>4
<1>7. Placed(all, max)
    BY <1>1, <1>4, <1>6, SMTT(30) DEF Arranged, Placed
<1>8. Arranged(v, max)
    BY <1>1, <1>2, <1>3, <1>7 DEF Arranged
<1> QED
    BY <1>1, <1>3, <1>4, <1>5, <1>8

\* The active tab is saved: what the window becomes.
SavedIn(w, s) == [tabs |-> [w.tabs EXCEPT ![w.active] = s], live |-> s, active |-> w.active]

LEMMA SavedShown ==
    ASSUME NEW w, NEW max, Arranged(w, max), w.active # 0, NEW s \in RawSet, s.id = w.live.id
    PROVE  /\ Arranged(SavedIn(w, s), max)
           /\ Synced(SavedIn(w, s)) = [Synced(w) EXCEPT ![w.active] = s]
           /\ DOMAIN Synced(SavedIn(w, s)) = DOMAIN Synced(w)
           /\ \A i \in DOMAIN Synced(w) :
                 Synced(SavedIn(w, s))[i] = IF i = w.active THEN s ELSE Synced(w)[i]
           /\ Len(SavedIn(w, s).tabs) = Len(w.tabs) /\ DOMAIN SavedIn(w, s).tabs = DOMAIN w.tabs
<1> DEFINE a == w.active
           v == SavedIn(w, s)
           b == [w.tabs EXCEPT ![a] = s]
           x == [tabs |-> w.tabs, live |-> s, active |-> w.active]
<1>1. /\ w.tabs \in Seq(RawSet) /\ a \in DOMAIN w.tabs /\ a \in Nat /\ Len(w.tabs) \in Nat
      /\ DOMAIN w.tabs = 1..Len(w.tabs)
    BY ArrangedIs
<1>2. /\ Arranged(x, max) /\ Synced(x) = [Synced(w) EXCEPT ![a] = s]
      /\ DOMAIN Synced(x) = DOMAIN Synced(w)
      /\ \A i \in DOMAIN Synced(w) : Synced(x)[i] = IF i = a THEN s ELSE Synced(w)[i]
    BY EditGood
<1>3. Synced(x) = b
    BY DEF Synced
<1>4. v.tabs = b /\ v.live = s /\ v.active = a
    BY DEF SavedIn
<1>5. /\ b \in Seq(RawSet) /\ DOMAIN b = DOMAIN w.tabs /\ Len(b) = Len(w.tabs) /\ b[a] = s
    BY <1>1
<1>6. Placed(b, max)
    BY <1>2, <1>3 DEF Arranged
<1>7. v = LoadTab(b, a)
    BY <1>5 DEF LoadTab, SavedIn
<1> HIDE DEF v, b, x
<1>8. Arranged(v, max) /\ Synced(v) = b
    BY <1>1, <1>5, <1>6, <1>7, LoadGood
<1> QED
    BY <1>2, <1>3, <1>4, <1>5, <1>8 DEF v

----------------------------------------------------------------------------
(* Archive files: what they hold is in order, though not each key once.    *)

DiskOK(d) ==
    /\ d \in [Files -> Seq(Entry)]
    /\ \A f \in Files : Ordered(d[f])

LEMMA NotDoubled ==
    ASSUME NEW es \in Seq(Entry), ~Doubled(es)
    PROVE  Uniq(es) /\ es \in Archives
BY DEF Doubled, Uniq, Archives

\* An archive opened from a file that holds each resource once.
LEMMA OpenedSound ==
    ASSUME NEW d, DiskOK(d), NEW f \in Files, NEW id \in Nat
    PROVE  /\ Tab(id, f, d[f], FALSE) \in RawSet /\ Tab(id, f, d[f], FALSE).id = id
           /\ ~Doubled(d[f]) => SoundTab(d, Tab(id, f, d[f], FALSE))
<1>1. d[f] \in Seq(Entry)
    BY DEF DiskOK
<1>2. f \in Files \cup {NoFile} /\ FALSE \in BOOLEAN
    OBVIOUS
<1>3. Tab(id, f, d[f], FALSE) \in RawSet /\ Tab(id, f, d[f], FALSE).id = id
    BY <1>1, <1>2, NewTabRaw
<1>4. ASSUME ~Doubled(d[f]) PROVE SoundTab(d, Tab(id, f, d[f], FALSE))
    <2> DEFINE es == d[f]
    <2>1. es \in Archives /\ Doc(es) \in OnDisk(d, f)
        BY <1>1, <1>4, NotDoubled DEF OnDisk
    <2> HIDE DEF es
    <2>2. SoundTab(d, Tab(id, f, es, FALSE))
        BY <1>2, <2>1, NewTabSound
    <2> QED
        BY <2>2 DEF es
<1> QED
    BY <1>3, <1>4

\* The files after a tab was saved to one.
Written(d, t, f) == [d EXCEPT ![f] = Sorted(t.entries)]

\* Saving stores the document of the tab.
LEMMA SavedSound ==
    ASSUME NEW d, DiskOK(d), NEW t \in RawSet, NEW f \in Files
    PROVE  /\ DiskOK(Written(d, t, f)) /\ Written(d, t, f)[f] = Sorted(t.entries)
           /\ Saved(t, f) \in RawSet /\ Saved(t, f).id = t.id /\ Saved(t, f).file = f
           /\ Saved(t, f).dirty = FALSE
           /\ Range(Saved(t, f).entries) = Range(t.entries)
           /\ ~Doubled(t.entries) => SoundTab(Written(d, t, f), Saved(t, f))
<1> DEFINE es == Sorted(t.entries)
           e == Written(d, t, f)
<1>0. e = [d EXCEPT ![f] = es]
    BY DEF Written
<1> HIDE DEF e
<1>1. /\ t.id \in Nat /\ t.entries \in Seq(Entry) /\ es \in Seq(Entry)
      /\ Range(es) = Range(t.entries) /\ Ordered(es)
    BY RawFields, SortedType, SortedRange, SortedOrdered
<1>2. /\ Tab(t.id, f, es, FALSE) \in RawSet /\ Tab(t.id, f, es, FALSE).id = t.id
      /\ Tab(t.id, f, es, FALSE).file = f /\ Tab(t.id, f, es, FALSE).entries = es
      /\ Tab(t.id, f, es, FALSE).dirty = FALSE
    <2> DEFINE id == t.id
               no == FALSE
    <2>1. id \in Nat /\ f \in Files \cup {NoFile} /\ es \in Seq(Entry) /\ no \in BOOLEAN
        BY <1>1
    <2> HIDE DEF es, id, no
    <2>2. /\ Tab(id, f, es, no) \in RawSet /\ Tab(id, f, es, no).id = id
          /\ Tab(id, f, es, no).file = f /\ Tab(id, f, es, no).entries = es
          /\ Tab(id, f, es, no).dirty = no
        BY <2>1, NewTabRaw
    <2> QED
        BY <2>2 DEF id, no
<1>3. Saved(t, f) = Tab(t.id, f, es, FALSE)
    BY DEF Saved
<1>4. DiskOK(e) /\ e[f] = es
    BY <1>0, <1>1 DEF DiskOK
<1>5. ASSUME ~Doubled(t.entries) PROVE SoundTab(e, Saved(t, f))
    <2>1. Uniq(t.entries)
        BY <1>1, <1>5, NotDoubled
    <2>2. es \in Archives
        BY <1>1, <2>1, SortedDoc DEF Archives
    <2>3. Doc(es) \in OnDisk(e, f)
        BY <1>4, <2>2 DEF OnDisk
    <2> HIDE DEF es
    <2>4. SoundTab(e, Tab(t.id, f, es, FALSE))
        BY <1>1, <2>2, <2>3, NewTabSound
    <2> QED
        BY <1>3, <2>4
<1> QED
    BY <1>1, <1>2, <1>3, <1>4, <1>5 DEF e

\* A tab without the dirty mark holds what its file holds.
LEMMA CleanTab ==
    ASSUME NEW d, DiskOK(d), NEW t \in TabSet, Doc(t.entries) \in OnDisk(d, t.file)
    PROVE  t.file \in Files /\ d[t.file] = Sorted(t.entries)
<1>1. t.file \in Files /\ d[t.file] \in Archives /\ Doc(t.entries) = Doc(d[t.file])
    BY DEF OnDisk
<1>2. t.entries \in Seq(Entry) /\ Uniq(t.entries)
    BY TabFields, ArchiveDoc
<1>3. /\ Sorted(t.entries) \in Seq(Entry) /\ Increasing(Sorted(t.entries))
      /\ Doc(Sorted(t.entries)) = Doc(t.entries)
    BY <1>2, SortedType, SortedDoc
<1>4. d[t.file] \in Seq(Entry) /\ Increasing(d[t.file])
    BY <1>1, OrderedIncreases DEF DiskOK, Archives
<1> QED
    BY <1>1, <1>3, <1>4, SameDoc

\* Nor does one where an import has changed nothing so far.
LEMMA CleanImport ==
    ASSUME NEW d, NEW t, NEW b, Midway(d, t, b), b.changed => t.dirty, ~t.dirty
    PROVE  t \in TabSet /\ Doc(t.entries) \in OnDisk(d, t.file)
<1>1. t \in TabSet /\ ~b.changed /\ b.changes = <<>> /\ ~b.dirtyBefore
    BY DEF Midway
<1>2. PICK B \in Docs : Begun(d, t, b, B)
    BY DEF Midway
<1>3. \A k \in Keys : Doc(t.entries)[k] = B[k]
    BY <1>1, <1>2 DEF Begun, Leads, Turned
<1>4. Doc(t.entries) \in Docs
    BY <1>1, TabFields
<1>5. Doc(t.entries) = B
    BY <1>3, <1>4 DEF Docs
<1> QED
    BY <1>1, <1>2, <1>5 DEF Begun

----------------------------------------------------------------------------
(* What holds of a tab that is not in doubt: it is sound, or on its way    *)
(* through the import that it is the home of.                              *)

TabOK(d, q, b, t) ==
    \/ t.id \in q
    \/ IF b # NoImport /\ b.home = t.id
       THEN Midway(d, t, b) /\ (b.changed => t.dirty)
       ELSE SoundTab(d, t)

AllOK(d, q, b, all) == \A i \in DOMAIN all : TabOK(d, q, b, all[i])

LEMMA BatchPends == \A b \in BatchSet : b # NoImport
<1> SUFFICES ASSUME NEW b \in BatchSet, b = NoImport PROVE FALSE
    OBVIOUS
<1>1. b.target # 0
    BY DEF BatchSet
<1>2. b.target = 0
    BY DEF NoImport
<1> QED
    BY <1>1, <1>2

\* A clean mark that is not in doubt is true.
LEMMA CleanOK ==
    ASSUME NEW d, DiskOK(d), NEW q, NEW b, NEW t, TabOK(d, q, b, t), ~t.dirty, t.id \notin q
    PROVE  t.file \in Files /\ d[t.file] = Sorted(t.entries)
<1>1. t \in TabSet /\ Doc(t.entries) \in OnDisk(d, t.file)
    BY CleanImport DEF TabOK, SoundTab
<1> QED
    BY <1>1, CleanTab

\* The import's queue and the tabs around it change, and nothing else of it.
Goes(b, c) ==
    /\ c \in BatchSet
    /\ c.home = b.home /\ c.lookup = b.lookup /\ c.changes = b.changes
    /\ c.changed = b.changed /\ c.dirtyBefore = b.dirtyBefore /\ c.conflict = b.conflict

LEMMA OKGoes ==
    ASSUME NEW d, NEW q, NEW p, NEW b \in BatchSet, NEW c, Goes(b, c), NEW t,
           TabOK(d, q, b, t), t.id \in q => t.id \in p
    PROVE  TabOK(d, p, c, t)
<1>1. b # NoImport /\ c # NoImport /\ c.home = b.home /\ c.changed = b.changed
    BY BatchPends DEF Goes
<1>2. ASSUME Midway(d, t, b) PROVE Midway(d, t, c)
    <2>1. c.conflict # None =>
             c.conflict.at # 0 /\ c.conflict.at = c.lookup[c.conflict.entry.key]
        BY <1>2 DEF Midway, Goes
    <2>2. /\ c \in BatchSet /\ c.lookup = b.lookup /\ c.changes = b.changes
          /\ c.changed = b.changed /\ c.dirtyBefore = b.dirtyBefore
        BY DEF Goes
    <2> QED
        BY <1>2, <2>1, <2>2, MidwayLike
<1> QED
    BY <1>1, <1>2 DEF TabOK

\* More archives are in doubt.
LEMMA OKDoubts ==
    ASSUME NEW d, NEW q, NEW p, NEW b, NEW t, TabOK(d, q, b, t), t.id \in q => t.id \in p
    PROVE  TabOK(d, p, b, t)
BY DEF TabOK

\* The import is over; if it changed anything here, it was not dropped.
LEMMA OKEnds ==
    ASSUME NEW d, NEW q, NEW p, NEW b \in BatchSet, NEW t, TabOK(d, q, b, t),
           t.id \in q => t.id \in p, b.changed /\ b.home = t.id => t.id \in p
    PROVE  TabOK(d, p, NoImport, t)
<1>1. CASE t.id \in p
    BY <1>1 DEF TabOK
<1>2. CASE t.id \notin p /\ b.home # t.id
    BY <1>2, BatchPends DEF TabOK
<1>3. CASE t.id \notin p /\ b.home = t.id
    <2>1. Midway(d, t, b) /\ ~b.changed
        BY <1>3, BatchPends DEF TabOK
    <2>2. Finished(t, b) = t
        BY <2>1 DEF Finished
    <2>3. SoundTab(d, t)
        BY <2>1, <2>2, FinishedSound
    <2> QED
        BY <2>3 DEF TabOK
<1> QED
    BY <1>1, <1>2, <1>3

\* An import starts.
LEMMA OKStarts ==
    ASSUME NEW d, NEW q, NEW t \in RawSet, TabOK(d, q, NoImport, t),
           NEW live0 \in RawSet, live0.id = t.id => live0 = t,
           NEW target \in Nat \ {0}, NEW queue \in Seq(Item), NEW b,
           b = [target |-> target, home |-> live0.id, shifted |-> FALSE, queue |-> queue,
                conflict |-> None, policy |-> "ask", changed |-> FALSE,
                lookup |-> Lookup(live0.entries), changes |-> <<>>, dirtyBefore |-> live0.dirty]
    PROVE  TabOK(d, q, b, t)
<1>1. b.home = live0.id /\ b.changed = FALSE
    OBVIOUS
<1>2. CASE t.id \in q \/ b.home # t.id
    BY <1>2 DEF TabOK
<1>3. CASE t.id \notin q /\ b.home = t.id
    <2>1. live0 = t /\ SoundTab(d, t)
        BY <1>1, <1>3 DEF TabOK
    <2>2. Midway(d, t, b)
        BY <2>1, StartSound
    <2> QED
        BY <1>1, <2>2 DEF TabOK
<1> QED
    BY <1>2, <1>3

\* Another file is written.
LEMMA OKWritten ==
    ASSUME NEW d, DiskOK(d), NEW f \in Files, NEW es, NEW e, e = [d EXCEPT ![f] = es],
           NEW q, NEW p, NEW b, NEW t, TabOK(d, q, b, t), t.file # f, t.id \in q => t.id \in p
    PROVE  TabOK(e, p, b, t)
<1>1. OnDisk(e, t.file) = OnDisk(d, t.file)
    BY DEF OnDisk, DiskOK
<1>2. SoundTab(d, t) => SoundTab(e, t)
    BY <1>1 DEF SoundTab
<1>3. Midway(d, t, b) => Midway(e, t, b)
    BY <1>1 DEF Midway, Begun
<1> QED
    BY <1>2, <1>3 DEF TabOK

\* The raw lookup is one of indices.
LEMMA LookupRaw ==
    ASSUME NEW es \in Seq(Entry)
    PROVE  Lookup(es) \in [Keys -> Nat]
<1>1. ASSUME NEW k \in Keys, At(es, k) # {}
      PROVE  (CHOOSE i \in At(es, k) : \A j \in At(es, k) : j <= i) \in Nat
    <2> DEFINE S == At(es, k)
    <2>1. S \subseteq DOMAIN es /\ DOMAIN es = 1..Len(es) /\ Len(es) \in Nat
        BY KeyType DEF At
    <2> DEFINE R == {m \in Nat : \E i \in S : m = Len(es) - i}
    <2>2. R # {} /\ R \subseteq Nat
        BY <1>1, <2>1
    <2>3. PICK m \in R : \A n \in R : <<n, m>> \notin Less
        BY <2>2, LessIsWellFounded, WFMin
    <2>4. PICK i \in S : m = Len(es) - i
        BY <2>3
    <2>5. ASSUME NEW j \in S PROVE j <= i
        <3> DEFINE n == Len(es) - j
        <3>1. n \in R /\ n \in Nat /\ m \in Nat /\ i \in Nat /\ j \in Nat
            BY <2>1, <2>4
        <3>2. <<n, m>> \in Nat \X Nat /\ <<n, m>>[1] = n /\ <<n, m>>[2] = m
            BY <3>1
        <3>3. ~(n < m)
            BY <2>3, <3>1, <3>2 DEF Less
        <3> QED
            BY <2>1, <2>4, <3>1, <3>3
    <2>6. (CHOOSE i0 \in S : \A j \in S : j <= i0) \in S
        BY <2>5
    <2>7. \A x \in S : x \in Nat
        BY <2>1
    <2> QED
        BY <2>6, <2>7
<1> QED
    BY <1>1 DEF Lookup

----------------------------------------------------------------------------
(* The inductive invariant.                                                *)

\* An import that no tab was closed under is at home where it thinks it is.
ImportOK(b, max, all) ==
    \/ b = NoImport
    \/ /\ b \in BatchSet /\ b.home \in 1..max
       /\ ~b.shifted => b.target \in DOMAIN all /\ all[b.target].id = b.home

EditorInv ==
    /\ DiskOK(disk)
    /\ opened \in 0..MaxIds
    /\ dropped \in Seq(Item)
    /\ Arranged(Window, opened)
    /\ ImportOK(import, opened, Shown)
    /\ AllOK(disk, doubt, import, Shown)
    /\ confirm \in 0..Len(tabs)
    /\ quitting \in BOOLEAN
    /\ quitting => confirm # 0 /\ ~Pending

\* What a step does to the tabs as the user sees them: nothing, ...
Rearranged == Shown' = Shown /\ (active = 0 <=> active' = 0)
\* ... something to the active one, ...
Edited ==
    /\ active # 0 /\ active' = active
    /\ \E t \in RawSet : t.id = live.id /\ Shown' = [Shown EXCEPT ![active] = t]
\* ... a save of one, ...
Kept(i) ==
    /\ i \in DOMAIN tabs /\ active' # 0
    /\ \E t \in RawSet : /\ t.id = Shown[i].id /\ Range(t.entries) = Range(Shown[i].entries)
                         /\ ~t.dirty /\ Shown' = [Shown EXCEPT ![i] = t]
\* ... one more, ...
Added ==
    /\ opened' = opened + 1 /\ active' = Len(tabs) + 1
    /\ \E t \in RawSet : t.id = opened' /\ Shown' = Append(Shown, t)
\* ... or one less.
Without(a, b, i) ==
    /\ \A n \in DOMAIN b : \E m \in DOMAIN a \ {i} : b[n] = a[m]
    /\ \A m \in DOMAIN a \ {i} : \E n \in DOMAIN b : b[n] = a[m]
Removed(i) == i \in DOMAIN tabs /\ Without(Shown, Shown', i)

LEMMA WindowIs == /\ Window.tabs = tabs /\ Window.live = live /\ Window.active = active
                  /\ Window'.tabs = tabs' /\ Window'.live = live' /\ Window'.active = active'
BY DEF Window

\* The window as it is.
LEMMA AsIs ==
    ASSUME NEW max, Arranged(Window, max)
    PROVE  /\ Placed(Shown, max)
           /\ tabs \in Seq(RawSet) /\ live \in RawSet /\ active \in Nat
           /\ Len(tabs) \in Nat /\ DOMAIN tabs = 1..Len(tabs)
           /\ active # 0 <=> active \in DOMAIN tabs
           /\ DOMAIN Shown = DOMAIN tabs /\ Len(Shown) = Len(tabs)
           /\ \A i \in DOMAIN tabs : Shown[i] = IF i = active THEN live ELSE tabs[i]
           /\ Shown \in Seq(RawSet)
           /\ \A i \in DOMAIN tabs : i # 0 /\ active # 0 /\ Shown[i] \in RawSet
           /\ active # 0 => Shown[active] = live
<1>1. Placed(Shown, max)
    BY DEF Arranged, Shown
<1> DEFINE w == Window
<1>2. /\ w.tabs \in Seq(RawSet) /\ w.live \in RawSet
      /\ Len(w.tabs) \in Nat /\ DOMAIN w.tabs = 1..Len(w.tabs) /\ w.active \in Nat
      /\ w.active # 0 <=> w.active \in DOMAIN w.tabs
      /\ Synced(w) \in Seq(RawSet) /\ DOMAIN Synced(w) = DOMAIN w.tabs
      /\ Len(Synced(w)) = Len(w.tabs)
      /\ \A i \in DOMAIN w.tabs : Synced(w)[i] = IF i = w.active THEN w.live ELSE w.tabs[i]
    BY ArrangedIs
<1> HIDE DEF w
<1>3. w.tabs = tabs /\ w.live = live /\ w.active = active /\ Synced(w) = Shown
    BY WindowIs DEF w, Shown
<1>4. active = 0 <=> tabs = <<>>
    BY WindowIs DEF Arranged
<1>5. \A i \in DOMAIN tabs : i # 0 /\ active # 0
    BY <1>2, <1>3, <1>4
<1>6. \A i \in DOMAIN tabs : Shown[i] \in RawSet
    BY <1>2, <1>3
<1> QED
    BY <1>1, <1>2, <1>3, <1>5, <1>6

LEMMA Now ==
    ASSUME EditorInv
    PROVE  /\ Arranged(Window, opened) /\ Placed(Shown, opened)
           /\ tabs \in Seq(RawSet) /\ live \in RawSet /\ active \in Nat
           /\ Len(tabs) \in Nat /\ DOMAIN tabs = 1..Len(tabs)
           /\ active # 0 <=> active \in DOMAIN tabs
           /\ DOMAIN Shown = DOMAIN tabs /\ Len(Shown) = Len(tabs)
           /\ \A i \in DOMAIN tabs : Shown[i] = IF i = active THEN live ELSE tabs[i]
           /\ Shown \in Seq(RawSet)
           /\ \A i \in DOMAIN tabs : i # 0 /\ active # 0 /\ Shown[i] \in RawSet
           /\ active # 0 => Shown[active] = live
           /\ opened \in Nat /\ \A i \in DOMAIN Shown : Shown[i].id \in 1..opened
           /\ \A i, j \in DOMAIN Shown : Shown[i].id = Shown[j].id => i = j
           /\ IF Pending THEN import \in BatchSet ELSE import = NoImport
<1>1. Arranged(Window, opened) /\ opened \in Nat
    BY EditorAssumption DEF EditorInv
<1>2. Placed(Shown, opened)
    BY <1>1, AsIs
<1>3. /\ \A i \in DOMAIN Shown : Shown[i].id \in 1..opened
      /\ \A i, j \in DOMAIN Shown : Shown[i].id = Shown[j].id => i = j
    BY <1>2 DEF Placed
<1>4. IF Pending THEN import \in BatchSet ELSE import = NoImport
    BY DEF EditorInv, ImportOK, Pending
<1> QED
    BY <1>1, <1>2, <1>3, <1>4, AsIs

----------------------------------------------------------------------------
(* Opening and showing tabs.                                               *)

\* A window that is arranged is what the tabs become.
LEMMA BecomesGood ==
    ASSUME NEW w, NEW max, Arranged(w, max), Becomes(w)
    PROVE  /\ Window' = w /\ Shown' = Synced(w)
           /\ tabs' = w.tabs /\ live' = w.live /\ active' = w.active
<1>1. w = [tabs |-> w.tabs, live |-> w.live, active |-> w.active]
    BY ArrangedIs
<1>2. Window' = w
    BY <1>1 DEF Becomes, Window
<1> QED
    BY <1>2 DEF Shown, Becomes

\* Another tab is only shown.
LEMMA ShowStep ==
    ASSUME EditorInv, NEW i \in DOMAIN tabs, Becomes(SwitchTab(Window, i)),
           dropped' \in Seq(Item),
           UNCHANGED <<import, confirm, quitting, disk, opened, doubt>>
    PROVE  EditorInv' /\ Rearranged
<1> DEFINE v == SwitchTab(Window, i)
<1>1. Arranged(Window, opened) /\ i \in DOMAIN Window.tabs /\ Len(Window.tabs) = Len(tabs)
    BY Now, WindowIs
<1>2. /\ Arranged(v, opened) /\ Synced(v) = Shown /\ v.active = i /\ Len(v.tabs) = Len(tabs)
    BY <1>1, SwitchGood DEF Shown
<1> HIDE DEF v
<1>3. Window' = v /\ Shown' = Shown /\ tabs' = v.tabs /\ active' = i
    BY <1>2, BecomesGood DEF v
<1>4. Arranged(Window', opened')
    BY <1>2, <1>3
<1>5. active # 0 /\ i # 0
    BY Now
<1>6. EditorInv'
    BY <1>2, <1>3, <1>4 DEF EditorInv, Pending
<1> QED
    BY <1>3, <1>5, <1>6 DEF Rearranged

\* A tab of another archive, at the end.
LEMMA AddStep ==
    ASSUME EditorInv, opened < MaxIds, opened' = opened + 1,
           NEW t \in RawSet, t.id = opened + 1, SoundTab(disk, t) \/ t.id \in doubt',
           doubt \subseteq doubt',
           Becomes(LoadTab(Append(Synced(Window), t), Len(tabs) + 1)),
           UNCHANGED <<import, dropped, confirm, quitting, disk>>
    PROVE  EditorInv' /\ Added
<1> DEFINE w == Window
           max == opened
           v == Opened(w, t)
           more == Append(Shown, t)
           next == Len(tabs) + 1
<1>1. opened \in Nat /\ opened' \in 0..MaxIds
    BY EditorAssumption DEF EditorInv
<1>2. /\ w.tabs = tabs /\ Arranged(w, max) /\ Synced(w) = Shown /\ max \in Nat /\ t.id = max + 1
    BY <1>1, Now, WindowIs DEF Shown
<1> HIDE DEF w, max
<1>3. /\ Arranged(v, max + 1) /\ Synced(v) = Append(Synced(w), t)
      /\ v.active = Len(w.tabs) + 1 /\ v.tabs = Append(Synced(w), t)
      /\ DOMAIN Append(Synced(w), t) = DOMAIN Synced(w) \cup {Len(w.tabs) + 1}
      /\ Len(w.tabs) + 1 \notin DOMAIN Synced(w)
      /\ Append(Synced(w), t)[Len(w.tabs) + 1] = t
      /\ \A i \in DOMAIN Synced(w) : Append(Synced(w), t)[i] = Synced(w)[i]
    BY <1>2, OpenGood
<1>4. Becomes(v)
    BY <1>2 DEF Opened, w
<1> HIDE DEF v
<1>5. /\ Window' = v /\ Shown' = more /\ active' = next /\ tabs' = more
    BY <1>2, <1>3, <1>4, BecomesGood
<1> HIDE DEF more, next
<1>6. /\ DOMAIN more = DOMAIN Shown \cup {next} /\ next \notin DOMAIN Shown /\ more[next] = t
      /\ \A i \in DOMAIN Shown : more[i] = Shown[i]
    BY <1>2, <1>3 DEF more, next
<1>7. AllOK(disk, doubt', import, Shown')
    <2> SUFFICES ASSUME NEW i \in DOMAIN more PROVE TabOK(disk, doubt', import, more[i])
        BY <1>5 DEF AllOK
    <2>1. CASE i = next
        <3>1. SoundTab(disk, t) => TabOK(disk, doubt', import, t)
            <4>1. import # NoImport => import.home # t.id
                <5>1. import # NoImport => import.home \in 1..opened
                    BY DEF EditorInv, ImportOK
                <5> QED
                    BY <1>1, <5>1
            <4> QED
                BY <4>1 DEF TabOK
        <3> QED
            BY <1>6, <2>1, <3>1 DEF TabOK
    <2>2. CASE i # next
        <3> DEFINE u == Shown[i]
        <3>1. i \in DOMAIN Shown /\ more[i] = u
            BY <1>6, <2>2
        <3>2. TabOK(disk, doubt, import, u)
            BY <3>1 DEF EditorInv, AllOK
        <3> HIDE DEF u
        <3> QED
            BY <3>1, <3>2, OKDoubts
    <2> QED
        BY <2>1, <2>2
<1>8. ImportOK(import, opened', Shown')
    <2>1. \A h \in 1..opened : h \in 1..(opened + 1)
        BY <1>1
    <2> QED
        BY <1>5, <1>6, <2>1 DEF EditorInv, ImportOK
<1>9. confirm \in 0..Len(tabs')
    <2>1. Len(more) = Len(tabs) + 1 /\ Len(tabs) \in Nat
        BY AppendIs, Now DEF more
    <2>2. confirm \in 0..Len(tabs)
        BY DEF EditorInv
    <2> QED
        BY <1>5, <2>1, <2>2
<1>10. Arranged(Window', opened')
    BY <1>3, <1>5 DEF max
<1>11. EditorInv'
    BY <1>1, <1>7, <1>8, <1>9, <1>10 DEF EditorInv, Pending
<1> QED
    BY <1>5, <1>11 DEF Added, more, next

LEMMA OpenPathStep ==
    ASSUME EditorInv, NEW f \in Files, OpenPath(f)
    PROVE  EditorInv' /\ (Rearranged \/ Added) /\ ended' = ended
<1>1. UNCHANGED <<import, dropped, confirm, quitting, ended, disk>>
    BY DEF OpenPath
<1> DEFINE has == {i \in DOMAIN tabs : tabs[i].file = f}
<1>2. CASE has # {}
    <2> DEFINE i == CHOOSE i \in has : \A j \in has : i <= j
    <2>1. UNCHANGED <<opened, doubt>> /\ Becomes(SwitchTab(Window, i))
        BY <1>2 DEF OpenPath
    <2>2. i \in DOMAIN tabs
        <3>1. has \in SUBSET Nat
            BY Now
        <3> QED
            BY <1>2, <3>1, LeastIs
    <2>3. dropped' \in Seq(Item)
        BY <1>1 DEF EditorInv
    <2> HIDE DEF i
    <2> QED
        BY <1>1, <2>1, <2>2, <2>3, ShowStep
<1>3. CASE has = {}
    <2> DEFINE t == Tab(opened + 1, f, disk[f], FALSE)
    <2>1. /\ opened < MaxIds /\ opened' = opened + 1
          /\ doubt' = IF Doubled(disk[f]) THEN doubt \cup {opened + 1} ELSE doubt
          /\ Becomes(LoadTab(Append(Synced(Window), t), Len(tabs) + 1))
        BY <1>3 DEF OpenPath
    <2>2. t \in RawSet /\ t.id = opened + 1 /\ (~Doubled(disk[f]) => SoundTab(disk, t))
        <3>1. DiskOK(disk) /\ opened + 1 \in Nat
            BY Now DEF EditorInv
        <3> QED
            BY <3>1, OpenedSound
    <2>3. SoundTab(disk, t) \/ t.id \in doubt'
        BY <2>1, <2>2
    <2>4. doubt \subseteq doubt'
        BY <2>1
    <2> HIDE DEF t
    <2> QED
        BY <1>1, <2>1, <2>2, <2>3, <2>4, AddStep
<1> QED
    BY <1>2, <1>3

LEMMA NewArchiveStep ==
    ASSUME EditorInv, NewArchive
    PROVE  EditorInv' /\ Added /\ ended' = ended
<1>1. /\ opened < MaxIds /\ opened' = opened + 1 /\ doubt \subseteq doubt'
      /\ UNCHANGED <<import, dropped, confirm, quitting, ended, disk>>
    BY DEF NewArchive
<1> DEFINE t == Tab(opened + 1, NoFile, <<>>, TRUE)
<1>2. Becomes(LoadTab(Append(Synced(Window), t), Len(tabs) + 1))
    BY DEF NewArchive
<1>3. SoundTab(disk, t)
    <2>1. opened + 1 \in Nat /\ NoFile \in Files \cup {NoFile} /\ <<>> \in Archives
        BY Now DEF Archives, Uniq
    <2> QED
        BY <2>1, NewTabSound
<1>4. t.id = opened + 1 /\ t \in RawSet
    BY <1>3, TabIsRaw DEF Tab, SoundTab
<1> HIDE DEF t
<1> QED
    BY <1>1, <1>2, <1>3, <1>4, AddStep

LEMMA ClickTabStep ==
    ASSUME EditorInv, NEW i \in DOMAIN tabs, ClickTab(i)
    PROVE  EditorInv' /\ Rearranged /\ ended' = ended
<1>1. /\ Becomes(SwitchTab(Window, i))
      /\ UNCHANGED <<import, dropped, confirm, quitting, ended, disk, opened, doubt>>
    BY DEF ClickTab
<1>2. dropped' \in Seq(Item)
    BY <1>1 DEF EditorInv
<1> QED
    BY <1>1, <1>2, ShowStep

LEMMA DropStep ==
    ASSUME EditorInv, NEW i \in DOMAIN tabs, NEW e \in Item, Drop(i, e)
    PROVE  EditorInv' /\ Rearranged /\ ended' = ended
<1>1. /\ Becomes(SwitchTab(Window, i))
      /\ UNCHANGED <<import, confirm, quitting, ended, disk, opened, doubt>>
      /\ dropped' = Append(dropped, e)
    BY DEF Drop
<1>2. dropped' \in Seq(Item)
    BY <1>1 DEF EditorInv
<1> QED
    BY <1>1, <1>2, ShowStep

----------------------------------------------------------------------------
(* Edits, Undo, Redo and the turns of an import change the live copy only. *)

\* What an import that a step leaves behind must know.
HomeOK(c) ==
    \/ c = NoImport
    \/ /\ c \in BatchSet /\ c.home \in 1..opened
       /\ ~c.shifted => c.target \in DOMAIN tabs /\ Shown[c.target].id = c.home

LEMMA LiveStep ==
    ASSUME EditorInv, active # 0, live' \in RawSet, live'.id = live.id,
           UNCHANGED <<tabs, active, confirm, quitting, disk, opened>>,
           dropped' \in Seq(Item), HomeOK(import'), quitting => import' = NoImport,
           TabOK(disk, doubt', import', live'),
           \A i \in DOMAIN tabs : i # active => TabOK(disk, doubt', import', Shown[i])
    PROVE  EditorInv' /\ Edited
<1> DEFINE w == Window
           max == opened
           t == live'
           v == Window'
<1>1. /\ Arranged(w, max) /\ w.active # 0 /\ t \in RawSet /\ t.id = w.live.id
      /\ v = [tabs |-> w.tabs, live |-> t, active |-> w.active]
    BY Now DEF Window
<1>2. w.active = active /\ v.active = active /\ Synced(w) = Shown
    BY DEF Window, Shown
<1> HIDE DEF w, max, t, v
<1>3. /\ Arranged(v, max) /\ Synced(v) = [Synced(w) EXCEPT ![w.active] = t]
      /\ DOMAIN Synced(v) = DOMAIN Synced(w)
      /\ \A i \in DOMAIN Synced(w) :
            Synced(v)[i] = IF i = w.active THEN t ELSE Synced(w)[i]
    BY ONLY <1>1, EditGood
<1>4. /\ Shown' = [Shown EXCEPT ![active] = live'] /\ DOMAIN Shown' = DOMAIN Shown
      /\ \A i \in DOMAIN Shown : Shown'[i] = IF i = active THEN live' ELSE Shown[i]
    BY <1>2, <1>3 DEF Shown, v, w, t
<1>5. Edited
    BY <1>4 DEF Edited
<1>6. AllOK(disk, doubt', import', Shown')
    BY <1>4, Now DEF AllOK
<1>7. ImportOK(import', opened, Shown')
    <2>1. ASSUME NEW i \in DOMAIN tabs PROVE i \in DOMAIN Shown' /\ Shown'[i].id = Shown[i].id
        BY <1>4, Now
    <2> QED
        BY <2>1 DEF HomeOK, ImportOK
<1>8. Arranged(Window', opened)
    BY <1>3 DEF v, max
<1>9. EditorInv'
    BY <1>6, <1>7, <1>8 DEF EditorInv, Pending
<1> QED
    BY <1>5, <1>9

\* The import that is pending is at home where it thinks, unless a tab was closed.
LEMMA HomeIs ==
    ASSUME EditorInv
    PROVE  /\ HomeOK(import)
           /\ Pending => /\ import \in BatchSet /\ ~quitting
                         /\ ~import.shifted /\ active = import.target => live.id = import.home
<1>1. HomeOK(import)
    BY Now DEF EditorInv, ImportOK, HomeOK
<1>2. ASSUME Pending, ~import.shifted, active = import.target PROVE live.id = import.home
    BY <1>1, <1>2, Now DEF HomeOK, Pending
<1> QED
    BY <1>1, <1>2, Now DEF EditorInv

LEMMA EditStep ==
    ASSUME EditorInv, active # 0, live' \in RawSet, live'.id = live.id,
           SoundTab(disk, live) => SoundTab(disk, live'), Disturbs,
           UNCHANGED <<tabs, active, import, dropped, confirm, quitting, ended, disk, opened>>
    PROVE  EditorInv' /\ Edited
<1>1. HomeOK(import') /\ dropped' \in Seq(Item) /\ (quitting => import' = NoImport)
    BY HomeIs DEF EditorInv, Pending
<1>2. doubt \subseteq doubt'
    BY DEF Disturbs
<1>3. \A i \in DOMAIN tabs : TabOK(disk, doubt, import, Shown[i])
    BY Now DEF EditorInv, AllOK
<1>4. ASSUME NEW i \in DOMAIN tabs PROVE TabOK(disk, doubt', import', Shown[i])
    <2>1. TabOK(disk, doubt, import, Shown[i])
        BY <1>3
    <2> QED
        BY <1>2, <2>1, OKDoubts
<1>5. TabOK(disk, doubt', import', live')
    <2>1. TabOK(disk, doubt, import, live)
        BY <1>3, Now
    <2>2. Pending /\ live.id = import.home => live.id \in doubt'
        BY DEF Disturbs
    <2> QED
        BY <1>2, <2>1, <2>2 DEF TabOK, Pending
<1> QED
    BY <1>1, <1>4, <1>5, LiveStep

LEMMA DeleteStep ==
    ASSUME EditorInv, NEW selected \in SUBSET DOMAIN live.entries, Delete(selected)
    PROVE  EditorInv' /\ Edited /\ ended' = ended
<1>1. /\ active # 0 /\ Disturbs
      /\ UNCHANGED <<tabs, active, import, dropped, confirm, quitting, ended, disk, opened>>
    BY DEF Delete, Edits, Frame
<1> DEFINE d == disk
           t == live
           u == live'
<1>2. LET gone == InOrder(selected)
          kept == InOrder(DOMAIN t.entries \ selected)
          change(i) == [key |-> t.entries[i].key,
                        before |-> t.entries[i], after |-> None]
      IN  u = Recorded([t EXCEPT !.entries = [n \in DOMAIN kept |-> @[kept[n]]],
                                 !.dirty = TRUE],
                       [n \in DOMAIN gone |-> change(gone[n])], t.dirty)
    BY DEF Delete
<1>3. t \in RawSet /\ selected \in SUBSET DOMAIN t.entries
    BY Now
<1> HIDE DEF d, t, u
<1>4. u \in RawSet
    BY ONLY <1>2, <1>3, DeleteRaw, ZenonT(60)
<1>5. u.id = t.id
    BY ONLY <1>2, <1>3, DeleteRaw, ZenonT(60)
<1>6. ASSUME SoundTab(d, t) PROVE SoundTab(d, u)
    BY ONLY <1>2, <1>3, <1>6, DeleteSound, ZenonT(60)
<1> QED
    BY <1>1, <1>4, <1>5, <1>6, EditStep DEF d, t, u

LEMMA UndoStep ==
    ASSUME EditorInv, Undo
    PROVE  EditorInv' /\ Edited /\ ended' = ended
<1>1. /\ active # 0 /\ Disturbs
      /\ UNCHANGED <<tabs, active, import, dropped, confirm, quitting, ended, disk, opened>>
    BY DEF Undo, Revises, Frame
<1> DEFINE d == disk
           t == live
           u == live'
<1>2. /\ t \in RawSet /\ t.undo # <<>>
      /\ u = [t EXCEPT !.entries = Undone(@, Last(t.undo).changes),
                       !.dirty = Last(t.undo).dirtyBefore,
                       !.undo = Front(@), !.redo = Append(@, Last(t.undo))]
    BY Now DEF Undo
<1> HIDE DEF d, t, u
<1>3. u \in RawSet /\ u.id = t.id
    BY ONLY <1>2, UndoRaw, Zenon
<1>4. ASSUME SoundTab(d, t) PROVE SoundTab(d, u)
    BY ONLY <1>2, <1>4, UndoSound, Zenon
<1> QED
    BY <1>1, <1>3, <1>4, EditStep DEF d, t, u

LEMMA RedoStep ==
    ASSUME EditorInv, Redo
    PROVE  EditorInv' /\ Edited /\ ended' = ended
<1>1. /\ active # 0 /\ Disturbs
      /\ UNCHANGED <<tabs, active, import, dropped, confirm, quitting, ended, disk, opened>>
    BY DEF Redo, Revises, Frame
<1> DEFINE d == disk
           t == live
           u == live'
<1>2. /\ t \in RawSet /\ t.redo # <<>>
      /\ u = [t EXCEPT !.entries = Redone(@, Last(t.redo).changes),
                       !.dirty = TRUE,
                       !.redo = Front(@), !.undo = Append(@, Last(t.redo))]
    BY Now DEF Redo
<1> HIDE DEF d, t, u
<1>3. u \in RawSet /\ u.id = t.id
    BY ONLY <1>2, RedoRaw, Zenon
<1>4. ASSUME SoundTab(d, t) PROVE SoundTab(d, u)
    BY ONLY <1>2, <1>4, RedoSound, Zenon
<1> QED
    BY <1>1, <1>3, <1>4, EditStep DEF d, t, u

----------------------------------------------------------------------------
(* The turns of an import.                                                 *)

\* A turn in the archive shown: whatever that is, it stays itself and keeps
\* what the import does not bring.
LEMMA CarryRaw ==
    ASSUME live \in RawSet, NEW batch \in BatchSet, NEW answer \in Answers \cup {"continue"},
           answer # "continue" => batch.conflict # None,
           NEW readable \in BOOLEAN, Carry(batch, answer, readable), NEW K,
           \A n \in DOMAIN batch.queue : batch.queue[n].key \in K,
           batch.conflict # None => batch.conflict.entry.key \in K
    PROVE  /\ live' \in RawSet /\ live'.id = live.id
           /\ Untouched(live'.entries, K) = Untouched(live.entries, K)
           /\ doubt' = IF live.id = batch.home THEN doubt ELSE doubt \cup {live.id, batch.home}
           /\ \/ import' = NoImport
              \/ /\ import' \in BatchSet /\ import'.target = batch.target
                 /\ import'.home = batch.home /\ import'.shifted = batch.shifted
<1> DEFINE start == [tab |-> live, batch |-> batch, panic |-> FALSE]
           answered == Answered(start, answer)
           state == IF answer = "cancel" THEN answered ELSE Took(answered, readable)
           b == state.batch
           done == Done(b, answer)
           s == state.tab
<1>1. /\ live' = IF done THEN Finished(s, b) ELSE [s EXCEPT !.dirty = @ \/ b.changed]
      /\ import' = IF done THEN NoImport ELSE b
      /\ doubt' = IF live.id = b.home THEN doubt ELSE doubt \cup {live.id, b.home}
    BY DEF Carry
<1>2. start \in RawRoundSet /\ start.tab = live /\ start.batch = batch
    BY DEF RawRoundSet
<1> HIDE DEF start
<1>3. answered \in RawRoundSet /\ Kin(start, answered) /\ Spares(start, answered, K)
      /\ answered.batch.queue = batch.queue
    <2>1. /\ start \in RawRoundSet /\ answer \in Answers \cup {"continue"}
          /\ answer # "continue" => start.batch.conflict # None
          /\ start.batch.conflict # None => start.batch.conflict.entry.key \in K
          /\ answered = Answered(start, answer)
        BY <1>2
    <2> HIDE DEF answered
    <2>2. answered.batch.queue = start.batch.queue
        BY ONLY <2>1, AnsweredRaw
    <2>3. answered \in RawRoundSet /\ Kin(start, answered) /\ Spares(start, answered, K)
        BY ONLY <2>1, AnsweredRaw
    <2> QED
        BY <1>2, <2>2, <2>3
<1> HIDE DEF answered
<1>4. state \in RawRoundSet /\ Kin(start, state) /\ Spares(start, state, K)
    <2>1. CASE answer = "cancel"
        BY <1>3, <2>1
    <2>2. CASE answer # "cancel"
        <3> DEFINE r == Took(answered, readable)
        <3>1. /\ answered \in RawRoundSet /\ readable \in BOOLEAN /\ r = Took(answered, readable)
              /\ \A n \in DOMAIN answered.batch.queue : answered.batch.queue[n].key \in K
            BY <1>3
        <3> HIDE DEF r
        <3>2. r \in RawRoundSet /\ Kin(answered, r) /\ Spares(answered, r, K)
            BY ONLY <3>1, TookRaw
        <3>3. Kin(start, r) /\ Spares(start, r, K)
            BY <1>3, <3>2, KinTrans
        <3> QED
            BY <2>2, <3>2, <3>3 DEF r
    <2> QED
        BY <2>1, <2>2
<1> HIDE DEF state
<1>5. /\ s \in RawSet /\ s.id = live.id /\ b \in BatchSet
      /\ b.target = batch.target /\ b.home = batch.home /\ b.shifted = batch.shifted
      /\ Untouched(s.entries, K) = Untouched(live.entries, K)
    BY <1>2, <1>4 DEF Kin, Spares, RawRoundSet
<1> HIDE DEF s, b, done
<1>6. CASE done
    <2>1. /\ Finished(s, b) \in RawSet /\ Finished(s, b).id = s.id
          /\ Range(Finished(s, b).entries) = Range(s.entries)
        BY <1>5, FinishedRaw
    <2>2. Untouched(Finished(s, b).entries, K) = Untouched(s.entries, K)
        BY <2>1 DEF Untouched
    <2> QED
        BY <1>1, <1>5, <1>6, <2>1, <2>2
<1>7. CASE ~done
    <2> DEFINE u == [s EXCEPT !.dirty = @ \/ b.changed]
    <2>1. s \in RawSet /\ b \in BatchSet /\ u = [s EXCEPT !.dirty = @ \/ b.changed]
        BY <1>5
    <2>2. live' = u /\ import' = b
        BY <1>1, <1>7
    <2> HIDE DEF u
    <2>3. u \in RawSet /\ u.id = s.id /\ u.entries = s.entries
        <3>1. s.dirty \in BOOLEAN /\ b.changed \in BOOLEAN
            BY <2>1, RawFields DEF BatchSet
        <3>2. (s.dirty \/ b.changed) \in BOOLEAN
            BY <3>1
        <3> QED
            BY <2>1, <3>2 DEF RawSet
    <2> QED
        BY <1>1, <1>5, <2>2, <2>3
<1> QED
    BY <1>6, <1>7

\* At home, an import goes on as it began.
LEMMA CarrySound ==
    ASSUME NEW batch, Midway(disk, live, batch),
           NEW answer \in Answers \cup {"continue"},
           answer # "continue" => batch.conflict # None,
           NEW readable \in BOOLEAN, Carry(batch, answer, readable)
    PROVE  \/ import' = NoImport /\ SoundTab(disk, live')
           \/ Midway(disk, live', import') /\ (import'.changed => live'.dirty)
<1> DEFINE start == [tab |-> live, batch |-> batch, panic |-> FALSE]
           answered == Answered(start, answer)
           state == IF answer = "cancel" THEN answered ELSE Took(answered, readable)
           b == state.batch
           done == Done(b, answer)
           s == state.tab
           d == disk
<1>1. /\ live' = IF done THEN Finished(s, b) ELSE [s EXCEPT !.dirty = @ \/ b.changed]
      /\ import' = IF done THEN NoImport ELSE b
    BY DEF Carry
<1>2. live \in TabSet /\ batch \in BatchSet /\ Midway(d, live, batch)
    BY DEF Midway
<1>3. /\ start \in RoundSet /\ start.tab = live /\ start.batch = batch /\ start.panic = FALSE
    BY <1>2 DEF RoundSet
<1> HIDE DEF start, d
<1>4. answered \in RoundSet /\ Midway(d, answered.tab, answered.batch) /\ Same(start, answered)
    <2>1. /\ start \in RoundSet /\ Midway(d, start.tab, start.batch)
          /\ answer \in Answers \cup {"continue"}
          /\ answer # "continue" => start.batch.conflict # None
          /\ answered = Answered(start, answer)
        BY <1>2, <1>3
    <2> HIDE DEF answered
    <2> QED
        BY ONLY <2>1, AnsweredSound
<1> HIDE DEF answered
<1>5. Midway(d, s, b)
    <2>1. CASE answer = "cancel"
        BY <1>4, <2>1
    <2>2. CASE answer # "cancel"
        <3> DEFINE r == Took(answered, readable)
        <3>1. /\ answered \in RoundSet /\ Midway(d, answered.tab, answered.batch)
              /\ ~answered.panic /\ readable \in BOOLEAN /\ r = Took(answered, readable)
            BY <1>3, <1>4 DEF Same
        <3> HIDE DEF r
        <3>2. Midway(d, r.tab, r.batch)
            BY ONLY <3>1, TookSound
        <3> QED
            BY <2>2, <3>2 DEF r
    <2> QED
        BY <2>1, <2>2
<1> HIDE DEF state, b, s, done
<1>6. CASE done
    <2>1. SoundTab(d, Finished(s, b))
        BY <1>5, FinishedSound
    <2> QED
        BY <1>1, <1>6, <2>1 DEF d
<1>7. CASE ~done
    <2> DEFINE u == [s EXCEPT !.dirty = @ \/ b.changed]
    <2>1. Midway(d, s, b) /\ u = [s EXCEPT !.dirty = @ \/ b.changed]
        BY <1>5
    <2>2. live' = u /\ import' = b
        BY <1>1, <1>7
    <2> HIDE DEF u
    <2>3. Midway(d, u, b) /\ (b.changed => u.dirty)
        BY ONLY <2>1, MarkedSound, Zenon
    <2> QED
        BY <2>2, <2>3 DEF d
<1> QED
    BY <1>6, <1>7

\* A turn: in the archive it began in, in one that took its tab's place, or,
\* dropped, in none.
LEMMA ProcessStep ==
    ASSUME EditorInv, NEW batch \in BatchSet, HomeOK(batch),
           \A i \in DOMAIN tabs : TabOK(disk, doubt, batch, Shown[i]),
           NEW answer \in Answers \cup {"continue"},
           answer # "continue" => batch.conflict # None,
           NEW readable \in BOOLEAN, ProcessBatch(batch, answer, readable),
           UNCHANGED <<tabs, active, disk, opened, confirm, quitting>>,
           ~quitting, dropped' \in Seq(Item), ended = "no"
    PROVE  EditorInv' /\ (Edited \/ Rearranged) /\ ended' # "quit"
<1>1. batch.target # 0
    BY DEF BatchSet
<1>2. CASE active = batch.target
    <2>1. /\ Carry(batch, answer, readable) /\ active # 0 /\ active \in DOMAIN tabs
          /\ live \in RawSet /\ Shown[active] = live
        BY <1>1, <1>2, Now DEF ProcessBatch
    <2> DEFINE K == Keys
    <2>2. /\ \A n \in DOMAIN batch.queue : batch.queue[n].key \in K
          /\ batch.conflict # None => batch.conflict.entry.key \in K
        <3>1. batch.queue \in Seq(Item) /\ batch.conflict \in Question \cup {None}
            BY DEF BatchSet
        <3>2. \A n \in DOMAIN batch.queue : batch.queue[n] \in Item
            BY <3>1
        <3> QED
            BY <3>1, <3>2 DEF Item, Question
    <2> HIDE DEF K
    <2>3. /\ live' \in RawSet /\ live'.id = live.id
          /\ doubt' = IF live.id = batch.home THEN doubt ELSE doubt \cup {live.id, batch.home}
          /\ \/ import' = NoImport
             \/ /\ import' \in BatchSet /\ import'.target = batch.target
                /\ import'.home = batch.home /\ import'.shifted = batch.shifted
        BY <2>1, <2>2, CarryRaw
    <2>4. HomeOK(import')
        BY <2>3, BatchPends DEF HomeOK
    <2>5. doubt' = IF live.id = batch.home THEN doubt ELSE doubt \cup {live.id, batch.home}
        BY <2>3
    <2>6. ASSUME NEW i \in DOMAIN tabs, i # active PROVE TabOK(disk, doubt', import', Shown[i])
        <3> DEFINE t == Shown[i]
        <3>1. TabOK(disk, doubt, batch, t) /\ t.id # live.id
            BY <2>1, <2>6, Now
        <3>2. doubt \subseteq doubt' /\ (batch.home = t.id => t.id \in doubt')
            BY <2>5, <3>1
        <3> HIDE DEF t
        <3>3. TabOK(disk, doubt', import', t)
            BY <2>3, <3>1, <3>2, BatchPends DEF TabOK
        <3> QED
            BY <3>3 DEF t
    <2>7. TabOK(disk, doubt', import', live')
        <3>1. TabOK(disk, doubt, batch, live)
            BY <2>1
        <3>2. CASE live.id # batch.home
            BY <2>3, <2>5, <3>2 DEF TabOK
        <3>3. CASE live.id = batch.home /\ live.id \in doubt
            BY <2>3, <2>5, <3>3 DEF TabOK
        <3>4. CASE live.id = batch.home /\ live.id \notin doubt
            <4>1. Midway(disk, live, batch)
                BY <3>1, <3>4, BatchPends DEF TabOK
            <4>2. \/ import' = NoImport /\ SoundTab(disk, live')
                  \/ Midway(disk, live', import') /\ (import'.changed => live'.dirty)
                BY <2>1, <4>1, CarrySound
            <4>3. Midway(disk, live', import') => import' \in BatchSet
                BY DEF Midway
            <4> QED
                BY <2>3, <3>4, <4>2, <4>3, BatchPends DEF TabOK
        <3> QED
            BY <3>2, <3>3, <3>4
    <2>8. EditorInv' /\ Edited
        BY <2>1, <2>3, <2>4, <2>6, <2>7, LiveStep
    <2>9. ended' # "quit"
        BY <2>1 DEF Carry
    <2> QED
        BY <2>8, <2>9
<1>3. CASE active # batch.target
    <2>1. /\ import' = NoImport /\ UNCHANGED <<live, ended>>
          /\ doubt' = IF batch.changed THEN doubt \cup {batch.home} ELSE doubt
        BY <1>3 DEF ProcessBatch
    <2>2. Window' = Window /\ Shown' = Shown
        BY <2>1 DEF Window, Shown
    <2>3. ASSUME NEW i \in DOMAIN tabs PROVE TabOK(disk, doubt', NoImport, Shown[i])
        <3> DEFINE t == Shown[i]
        <3>1. TabOK(disk, doubt, batch, t)
            OBVIOUS
        <3>2. doubt \subseteq doubt' /\ (batch.changed /\ batch.home = t.id => t.id \in doubt')
            BY <2>1
        <3> HIDE DEF t
        <3>3. TabOK(disk, doubt', NoImport, t)
            BY <3>1, <3>2, OKEnds
        <3> QED
            BY <3>3 DEF t
    <2>4. AllOK(disk, doubt', import', Shown')
        BY <2>1, <2>2, <2>3, Now DEF AllOK
    <2>5. EditorInv'
        BY <2>1, <2>2, <2>4 DEF EditorInv, ImportOK, Pending
    <2> QED
        BY <2>1, <2>2, <2>5 DEF Rearranged
<1> QED
    BY <1>2, <1>3

\* A new import is at home where it is.
LEMMA NewImportOK ==
    ASSUME EditorInv, ~Pending, active # 0, NEW queue \in Seq(Item)
    PROVE  /\ NewImport(queue) \in BatchSet /\ HomeOK(NewImport(queue))
           /\ \A i \in DOMAIN tabs : TabOK(disk, doubt, NewImport(queue), Shown[i])
<1> DEFINE b == NewImport(queue)
           live0 == live
           target == active
           d == disk
           q == doubt
<1>1. b = [target |-> target, home |-> live0.id, shifted |-> FALSE, queue |-> queue,
           conflict |-> None, policy |-> "ask", changed |-> FALSE,
           lookup |-> Lookup(live0.entries), changes |-> <<>>, dirtyBefore |-> live0.dirty]
    BY DEF NewImport
<1>2. /\ live0 \in RawSet /\ target \in Nat \ {0} /\ target \in DOMAIN tabs
      /\ Shown[target] = live0 /\ Shown[target].id = live0.id
      /\ live0.id \in 1..opened /\ live0.id \in Nat
    BY Now
<1>3. ASSUME NEW i \in DOMAIN tabs PROVE TabOK(d, q, b, Shown[i])
    <2> DEFINE t == Shown[i]
    <2>1. /\ t \in RawSet /\ TabOK(d, q, NoImport, t) /\ (live0.id = t.id => live0 = t)
          /\ queue \in Seq(Item)
        BY <1>2, Now DEF EditorInv, AllOK
    <2> HIDE DEF b, t, live0, target, d, q
    <2>2. TabOK(d, q, b, t)
        BY ONLY <1>1, <1>2, <2>1, OKStarts, ZenonT(60)
    <2> QED
        BY <2>2 DEF t
<1>4. b \in BatchSet
    <2>1. live0.entries \in Seq(Entry) /\ live0.dirty \in BOOLEAN
        BY <1>2, RawFields
    <2>2. Lookup(live0.entries) \in [Keys -> Nat]
        BY <2>1, LookupRaw
    <2> HIDE DEF b, live0, target
    <2>3. queue \in Seq(Item) /\ <<>> \in Seq(ChangeSet) /\ FALSE \in BOOLEAN
        OBVIOUS
    <2> QED
        BY <1>1, <1>2, <2>1, <2>2, <2>3 DEF BatchSet
<1>5. HomeOK(b)
    <2>1. b.home = live0.id /\ b.target = target
        BY <1>1
    <2> QED
        BY <1>2, <1>4, <2>1 DEF HomeOK
<1> QED
    BY <1>3, <1>4, <1>5 DEF d, q

LEMMA TakeDroppedStep ==
    ASSUME EditorInv, NEW readable \in BOOLEAN, TakeDropped(readable)
    PROVE  EditorInv' /\ (Edited \/ Rearranged) /\ ended' # "quit"
<1>1. /\ ended = "no" /\ confirm = 0 /\ ~Pending /\ dropped' = <<>>
      /\ UNCHANGED <<tabs, active, confirm, quitting, disk, opened>>
    BY DEF TakeDropped, Quiet
<1>2. ~quitting /\ dropped \in Seq(Item) /\ dropped' \in Seq(Item)
    BY <1>1 DEF EditorInv
<1>3. CASE active = 0
    <2>1. UNCHANGED <<live, import, ended, doubt>>
        BY <1>3 DEF TakeDropped
    <2>2. Window' = Window
        BY <1>1, <2>1 DEF Window
    <2>3. Shown' = Shown
        BY <2>2 DEF Shown
    <2>4. EditorInv'
        BY <1>1, <1>2, <2>1, <2>2, <2>3 DEF EditorInv, Pending
    <2> QED
        BY <1>1, <2>1, <2>3, <2>4 DEF Rearranged
<1>4. CASE active # 0
    <2>1. ProcessBatch(NewImport(dropped), "continue", readable)
        BY <1>4 DEF TakeDropped
    <2>2. /\ NewImport(dropped) \in BatchSet /\ HomeOK(NewImport(dropped))
          /\ \A i \in DOMAIN tabs : TabOK(disk, doubt, NewImport(dropped), Shown[i])
        BY <1>1, <1>2, <1>4, NewImportOK
    <2> QED
        BY <1>1, <1>2, <2>1, <2>2, ProcessStep
<1> QED
    BY <1>3, <1>4

LEMMA TurnStep ==
    ASSUME EditorInv, Pending, ended = "no", NEW answer \in Answers \cup {"continue"},
           answer # "continue" => import.conflict # None,
           NEW readable \in BOOLEAN, ProcessBatch(import, answer, readable),
           UNCHANGED <<tabs, active, dropped, confirm, quitting, disk, opened>>
    PROVE  EditorInv' /\ (Edited \/ Rearranged) /\ ended' # "quit"
<1>1. import \in BatchSet /\ HomeOK(import) /\ ~quitting
    BY HomeIs
<1>2. \A i \in DOMAIN tabs : TabOK(disk, doubt, import, Shown[i])
    BY Now DEF EditorInv, AllOK
<1>3. dropped' \in Seq(Item)
    BY DEF EditorInv
<1> QED
    BY <1>1, <1>2, <1>3, ProcessStep

LEMMA ContinueImportStep ==
    ASSUME EditorInv, NEW readable \in BOOLEAN, ContinueImport(readable)
    PROVE  EditorInv' /\ (Edited \/ Rearranged) /\ ended' # "quit"
BY TurnStep DEF ContinueImport

LEMMA AnswerConflictStep ==
    ASSUME EditorInv, NEW readable \in BOOLEAN, NEW answer \in Answers,
           AnswerConflict(answer, readable)
    PROVE  EditorInv' /\ (Edited \/ Rearranged) /\ ended' # "quit"
BY TurnStep DEF AnswerConflict, Asking

\* Files that are added start an import, join it, or wait for its end.
LEMMA AddPathsStep ==
    ASSUME EditorInv, NEW queue \in Seq(Item), NEW readable \in BOOLEAN,
           AddPaths(queue, readable)
    PROVE  EditorInv' /\ (Edited \/ Rearranged) /\ ended' # "quit"
<1>1. /\ ended = "no" /\ confirm = 0 /\ active # 0
      /\ UNCHANGED <<tabs, active, confirm, quitting, disk, opened>>
    BY DEF AddPaths, Edits, Reachable
<1>2. ~quitting /\ dropped \in Seq(Item)
    BY <1>1 DEF EditorInv
<1>3. CASE ~Pending
    <2>1. ProcessBatch(NewImport(queue), "continue", readable) /\ dropped' \in Seq(Item)
        BY <1>2, <1>3 DEF AddPaths
    <2>2. /\ NewImport(queue) \in BatchSet /\ HomeOK(NewImport(queue))
          /\ \A i \in DOMAIN tabs : TabOK(disk, doubt, NewImport(queue), Shown[i])
        BY <1>1, <1>3, NewImportOK
    <2> QED
        BY <1>1, <1>2, <2>1, <2>2, ProcessStep
<1>4. CASE Pending
    <2>1. UNCHANGED <<live, ended, doubt>> /\ dropped' \in Seq(Item)
        <3>1. dropped \o queue \in Seq(Item)
            BY <1>2
        <3>2. dropped' = dropped \/ dropped' = dropped \o queue
            BY <1>4 DEF AddPaths
        <3>3. UNCHANGED <<live, ended, doubt>>
            BY <1>4 DEF AddPaths
        <3> QED
            BY <1>2, <3>1, <3>2, <3>3
    <2>2. Window' = Window /\ Shown' = Shown
        BY <1>1, <2>1 DEF Window, Shown
    <2>3. HomeOK(import) /\ import \in BatchSet
        BY <1>4, HomeIs
    <2>4. import' = import \/ Goes(import, import')
        <3>1. CASE active # import.target
            BY <1>4, <3>1 DEF AddPaths
        <3>2. CASE active = import.target
            <4> DEFINE more == import.queue \o queue
            <4>1. import' = [import EXCEPT !.queue = more]
                BY <1>4, <3>2 DEF AddPaths
            <4>2. more \in Seq(Item)
                <5>1. import.queue \in Seq(Item)
                    BY <2>3 DEF BatchSet
                <5> QED
                    BY <5>1
            <4> HIDE DEF more
            <4> QED
                BY <2>3, <4>1, <4>2 DEF Goes, BatchSet
        <3> QED
            BY <3>1, <3>2
    <2>5. /\ import' \in BatchSet /\ import'.home = import.home
          /\ import'.target = import.target /\ import'.shifted = import.shifted
        <3>1. CASE active # import.target
            BY <1>4, <2>3, <3>1 DEF AddPaths
        <3>2. CASE active = import.target
            <4>1. \E more : import' = [import EXCEPT !.queue = more]
                BY <1>4, <3>2 DEF AddPaths
            <4> QED
                BY <2>3, <2>4, <4>1 DEF BatchSet, Goes
        <3> QED
            BY <3>1, <3>2
    <2>6. ImportOK(import', opened, Shown)
        BY <2>3, <2>5, Now, BatchPends DEF ImportOK, HomeOK
    <2>7. AllOK(disk, doubt, import', Shown)
        <3> SUFFICES ASSUME NEW i \in DOMAIN tabs PROVE TabOK(disk, doubt, import', Shown[i])
            BY Now DEF AllOK
        <3>1. TabOK(disk, doubt, import, Shown[i])
            BY Now DEF EditorInv, AllOK
        <3> QED
            BY <2>3, <2>4, <3>1, OKGoes
    <2>8. EditorInv'
        BY <1>1, <1>2, <2>1, <2>2, <2>6, <2>7 DEF EditorInv
    <2> QED
        BY <1>1, <2>1, <2>2, <2>8 DEF Rearranged
<1> QED
    BY <1>3, <1>4
----------------------------------------------------------------------------
(* Saving.                                                                 *)

\* A file that is written settles the doubt about the tab that is saved, and
\* casts one on every other tab of the same file.
LEMMA OverwriteOK ==
    ASSUME EditorInv, NEW i \in DOMAIN tabs, NEW f \in Files, Overwrites(Shown[i], f)
    PROVE  /\ DiskOK(disk') /\ disk'[f] = Sorted(Shown[i].entries)
           /\ Saved(Shown[i], f) \in RawSet /\ Saved(Shown[i], f).id = Shown[i].id
           /\ ~Saved(Shown[i], f).dirty
           /\ Range(Saved(Shown[i], f).entries) = Range(Shown[i].entries)
           /\ TabOK(disk', doubt', import, Saved(Shown[i], f))
           /\ \A j \in DOMAIN tabs \ {i} : TabOK(disk', doubt', import, Shown[j])
<1> DEFINE t == Shown[i]
           d == disk
           e == disk'
           s == Saved(t, f)
           same == {j \in DOMAIN Shown : Shown[j].file = f /\ Shown[j].id # t.id}
           kept == Doubled(t.entries) \/ (Pending /\ t.id = import.home)
<1>1. /\ e = [d EXCEPT ![f] = Sorted(t.entries)]
      /\ doubt' = (doubt \ {t.id}) \cup {Shown[j].id : j \in same}
                  \cup (IF kept THEN {t.id} ELSE {})
    BY DEF Overwrites
<1>2. DiskOK(d) /\ t \in RawSet
    BY Now DEF EditorInv
<1> HIDE DEF t, d, e, s
<1>3. /\ DiskOK(e) /\ e[f] = Sorted(t.entries)
      /\ s \in RawSet /\ s.id = t.id /\ s.dirty = FALSE
      /\ Range(s.entries) = Range(t.entries)
      /\ ~Doubled(t.entries) => SoundTab(e, s)
    <2>1. DiskOK(d) /\ t \in RawSet /\ f \in Files /\ e = Written(d, t, f)
        BY <1>1, <1>2 DEF Written
    <2>2. /\ DiskOK(Written(d, t, f)) /\ Written(d, t, f)[f] = Sorted(t.entries)
          /\ Saved(t, f) \in RawSet /\ Saved(t, f).id = t.id /\ Saved(t, f).file = f
          /\ Saved(t, f).dirty = FALSE
          /\ Range(Saved(t, f).entries) = Range(t.entries)
          /\ ~Doubled(t.entries) => SoundTab(Written(d, t, f), Saved(t, f))
        <3>1. DiskOK(d) /\ t \in RawSet /\ f \in Files
            BY <2>1
        <3> QED
            BY ONLY <3>1, SavedSound, ZenonT(60)
    <2> QED
        BY <2>1, <2>2 DEF s
<1>4. TabOK(e, doubt', import, s)
    <2>1. CASE kept
        <3>1. t.id \in doubt'
            BY <1>1, <2>1
        <3> QED
            BY <1>3, <3>1 DEF TabOK
    <2>2. CASE ~kept
        <3>1. SoundTab(e, s) /\ ~(import # NoImport /\ import.home = s.id)
            BY <1>3, <2>2 DEF Pending
        <3> QED
            BY <3>1 DEF TabOK
    <2> QED
        BY <2>1, <2>2
<1>5. ASSUME NEW j \in DOMAIN tabs \ {i} PROVE TabOK(e, doubt', import, Shown[j])
    <2> DEFINE u == Shown[j]
               q == doubt
               p == doubt'
               es == Sorted(t.entries)
    <2>1. u.id # t.id /\ TabOK(d, q, import, u) /\ j \in DOMAIN Shown
        BY Now DEF EditorInv, AllOK, t, d
    <2>2. CASE u.file = f
        <3>1. u.id \in doubt'
            BY <1>1, <2>1, <2>2
        <3> QED
            BY <3>1 DEF TabOK
    <2>3. CASE u.file # f
        <3>1. u.id \in q => u.id \in p
            BY <1>1, <2>1
        <3>2. DiskOK(d) /\ f \in Files /\ e = [d EXCEPT ![f] = es] /\ TabOK(d, q, import, u)
            BY <1>1, <1>2, <2>1
        <3> HIDE DEF u, q, p, es
        <3>3. TabOK(e, p, import, u)
            BY ONLY <2>3, <3>1, <3>2, OKWritten, ZenonT(60)
        <3> QED
            BY <3>3 DEF u, p
    <2> QED
        BY <2>2, <2>3
<1> QED
    BY <1>3, <1>4, <1>5 DEF t, e, s

LEMMA SaveStep ==
    ASSUME EditorInv, NEW f \in Files, Save(f)
    PROVE  EditorInv' /\ Edited /\ ended' = ended
<1>1. /\ confirm = 0 /\ active # 0 /\ Overwrites(live, f)
      /\ live' = Saved(live, f) /\ tabs' = [tabs EXCEPT ![active] = live']
      /\ UNCHANGED <<active, import, dropped, confirm, quitting, ended, opened>>
    BY DEF Save, Edits, Reachable
<1>2. active \in DOMAIN tabs /\ Shown[active] = live
    BY <1>1, Now
<1>3. /\ DiskOK(disk') /\ live' \in RawSet /\ live'.id = live.id
      /\ TabOK(disk', doubt', import, live')
      /\ \A j \in DOMAIN tabs \ {active} : TabOK(disk', doubt', import, Shown[j])
    <2> DEFINE i == active
    <2>1. Overwrites(Shown[i], f) /\ i \in DOMAIN tabs /\ live' = Saved(Shown[i], f)
        BY <1>1, <1>2
    <2> HIDE DEF i
    <2>2. /\ DiskOK(disk')
          /\ Saved(Shown[i], f) \in RawSet /\ Saved(Shown[i], f).id = Shown[i].id
          /\ TabOK(disk', doubt', import, Saved(Shown[i], f))
          /\ \A j \in DOMAIN tabs \ {i} : TabOK(disk', doubt', import, Shown[j])
        BY <2>1, OverwriteOK
    <2> QED
        BY <1>2, <2>1, <2>2 DEF i
<1> DEFINE w == Window
           max == opened
           s == live'
           v == SavedIn(w, s)
<1>4. /\ Arranged(w, max) /\ w.active # 0 /\ s \in RawSet /\ s.id = w.live.id
      /\ w.active = active /\ Synced(w) = Shown /\ w.tabs = tabs
    BY <1>1, <1>3, Now DEF Window, Shown
<1>5. Window' = v
    BY <1>1 DEF Window, SavedIn
<1> HIDE DEF w, s, max
<1>6. /\ Arranged(v, max) /\ Synced(v) = [Synced(w) EXCEPT ![w.active] = s]
      /\ DOMAIN Synced(v) = DOMAIN Synced(w)
      /\ \A i \in DOMAIN Synced(w) :
            Synced(v)[i] = IF i = w.active THEN s ELSE Synced(w)[i]
      /\ Len(v.tabs) = Len(w.tabs)
    BY <1>4, SavedShown
<1> HIDE DEF v
<1>7. /\ Shown' = [Shown EXCEPT ![active] = live'] /\ DOMAIN Shown' = DOMAIN tabs
      /\ \A i \in DOMAIN tabs : Shown'[i] = IF i = active THEN live' ELSE Shown[i]
      /\ Len(tabs') = Len(tabs)
    <2>1. Shown' = Synced(v) /\ tabs' = v.tabs
        BY <1>5, WindowIs DEF Shown
    <2> QED
        BY <1>4, <1>6, <2>1, Now DEF s
<1>8. AllOK(disk', doubt', import', Shown')
    BY <1>1, <1>3, <1>7 DEF AllOK
<1>9. ImportOK(import', opened', Shown')
    <2>1. \A i \in DOMAIN tabs : i \in DOMAIN Shown' /\ Shown'[i].id = Shown[i].id
        BY <1>2, <1>3, <1>7
    <2> QED
        BY <1>1, <2>1, HomeIs DEF HomeOK, ImportOK
<1>10. Arranged(Window', opened')
    BY <1>1, <1>5, <1>6 DEF max
<1>11. EditorInv'
    BY <1>1, <1>3, <1>7, <1>8, <1>9, <1>10 DEF EditorInv, Pending
<1>12. Edited
    BY <1>1, <1>3, <1>7 DEF Edited
<1> QED
    BY <1>1, <1>11, <1>12

----------------------------------------------------------------------------
(* Closing.                                                                *)

\* An import under which a tab is closed may no longer find its home.
LEMMA ShiftsOK ==
    ASSUME EditorInv, Shifts
    PROVE  /\ \A max, all : opened <= max => ImportOK(import', opened, all)
           /\ Pending' <=> Pending
           /\ \A d, q, t : TabOK(d, q, import, t) => TabOK(d, q, import', t)
<1>1. CASE ~Pending
    <2>1. import' = NoImport /\ import = NoImport
        BY <1>1 DEF Shifts, Pending
    <2> QED
        BY <2>1 DEF ImportOK, Pending
<1>2. CASE Pending
    <2>1. import' = [import EXCEPT !.shifted = TRUE] /\ import \in BatchSet /\ HomeOK(import)
        BY <1>2, HomeIs DEF Shifts
    <2>2. import' \in BatchSet /\ import'.shifted /\ import'.home = import.home
        BY <2>1 DEF BatchSet
    <2>3. Goes(import, import')
        BY <2>1, <2>2 DEF Goes, BatchSet
    <2>4. import # NoImport /\ import' # NoImport /\ import.home \in 1..opened
        BY <2>1, <2>2, BatchPends DEF HomeOK
    <2>5. \A all : ImportOK(import', opened, all)
        BY <2>2, <2>4 DEF ImportOK
    <2>6. ASSUME NEW d, NEW q, NEW t, TabOK(d, q, import, t) PROVE TabOK(d, q, import', t)
        BY <2>1, <2>3, <2>6, OKGoes
    <2> QED
        BY <2>4, <2>5, <2>6 DEF Pending
<1> QED
    BY <1>1, <1>2

\* A tab is no longer shown.
LEMMA CloseStep ==
    ASSUME EditorInv, NEW i \in DOMAIN tabs, NEW all, Placed(all, opened),
           DOMAIN all = DOMAIN tabs,
           \A j \in DOMAIN tabs \ {i} :
              all[j] = Shown[j] /\ TabOK(disk', doubt', import, Shown[j]),
           Arranged(Window', opened), Shown' = RemoveAt(all, i), Shifts,
           dropped' \in Seq(Item), opened' = opened, DiskOK(disk'),
           confirm' \in 0..Len(tabs'), quitting' \in BOOLEAN,
           quitting' => confirm' # 0 /\ ~Pending
    PROVE  EditorInv' /\ Removed(i)
<1> DEFINE rest == RemoveAt(all, i)
<1>1. all \in Seq(RawSet) /\ i \in DOMAIN all
    BY DEF Placed
<1>2. \A n \in DOMAIN rest : \E m \in DOMAIN all \ {i} : rest[n] = all[m]
    <2>1. \A n \in DOMAIN rest : \E m \in DOMAIN all \ {i} :
             m = (IF n < i THEN n ELSE n + 1) /\ rest[n] = all[m]
        BY ONLY <1>1, RemoveAtFrom
    <2> QED
        BY <2>1
<1>3. \A m \in DOMAIN all \ {i} : \E n \in DOMAIN rest : rest[n] = all[m]
    BY ONLY <1>1, RemoveAtTo
<1> HIDE DEF rest
<1>4. \A n \in DOMAIN rest : \E m \in DOMAIN tabs \ {i} : rest[n] = Shown[m]
    <2> TAKE n \in DOMAIN rest
    <2>1. PICK m \in DOMAIN all \ {i} : rest[n] = all[m]
        BY <1>2
    <2> QED
        BY <2>1
<1>5. Removed(i)
    <2>1. DOMAIN Shown = DOMAIN tabs
        BY Now
    <2>2. \A m \in DOMAIN Shown \ {i} : \E n \in DOMAIN rest : rest[n] = Shown[m]
        BY <1>3, <2>1
    <2>3. Without(Shown, rest, i)
        BY <1>4, <2>1, <2>2 DEF Without
    <2> QED
        BY <2>3 DEF Removed, rest
<1>6. AllOK(disk', doubt', import', Shown')
    <2> SUFFICES ASSUME NEW n \in DOMAIN rest PROVE TabOK(disk', doubt', import', rest[n])
        BY DEF AllOK, rest
    <2>1. PICK m \in DOMAIN tabs \ {i} : rest[n] = Shown[m]
        BY <1>4
    <2>2. TabOK(disk', doubt', import, Shown[m])
        BY <2>1
    <2>3. TabOK(disk', doubt', import', Shown[m])
        BY <2>2, ShiftsOK
    <2> QED
        BY <2>1, <2>3
<1>7. ImportOK(import', opened', Shown') /\ (Pending' <=> Pending)
    <2>1. opened \in Nat /\ opened <= opened
        BY Now
    <2> QED
        BY <2>1, ShiftsOK
<1>8. EditorInv'
    BY <1>6, <1>7 DEF EditorInv
<1> QED
    BY <1>5, <1>8

\* The tab whose mark is clean and not in doubt is stored.
LEMMA CleanStored ==
    ASSUME EditorInv, UNCHANGED disk, NEW i \in DOMAIN tabs, ~Shown[i].dirty,
           Shown[i].id \notin doubt
    PROVE  Stored(Shown[i])
<1> DEFINE t == Shown[i]
           d == disk
           q == doubt
           b == import
<1>1. TabOK(d, q, b, t) /\ DiskOK(d) /\ ~t.dirty /\ t.id \notin q
    BY Now DEF EditorInv, AllOK
<1> HIDE DEF t, d, q, b
<1>2. t.file \in Files /\ d[t.file] = Sorted(t.entries)
    BY <1>1, CleanOK
<1>3. t.file # NoFile
    BY <1>2, EditorAssumption
<1>4. Stored(t)
    BY <1>2, <1>3 DEF Stored, d
<1> QED
    BY <1>4 DEF t

\* What the invariant says of a step that leaves every tab as it is.
LEMMA RequestCloseStep ==
    ASSUME EditorInv, NEW i \in DOMAIN tabs, RequestClose(i)
    PROVE  /\ EditorInv' /\ ended' = ended
           /\ Rearranged \/ (Removed(i) /\ (Stored(Shown[i]) \/ (~Shown[i].dirty /\ Shown[i].id \in doubt)))
<1>1. /\ ended = "no" /\ confirm = 0
      /\ UNCHANGED <<dropped, quitting, ended, disk, opened, doubt>>
    BY DEF RequestClose, Reachable
<1>2. ~quitting /\ quitting \in BOOLEAN /\ dropped' \in Seq(Item) /\ DiskOK(disk)
    BY <1>1 DEF EditorInv
<1>3. CASE Shown[i].dirty
    <2>1. confirm' = i /\ UNCHANGED <<tabs, live, active, import>>
        BY <1>3 DEF RequestClose
    <2>2. Window' = Window
        BY <2>1 DEF Window
    <2>3. i \in 0..Len(tabs)
        BY Now
    <2>4. Shown' = Shown
        BY <2>2 DEF Shown
    <2>5. EditorInv'
        BY <1>1, <1>2, <2>1, <2>2, <2>3, <2>4 DEF EditorInv, Pending
    <2> QED
        BY <1>1, <2>1, <2>4, <2>5 DEF Rearranged
<1>4. CASE ~Shown[i].dirty
    <2> DEFINE v == CloseTab(Window, i)
    <2>1. Becomes(v) /\ Shifts /\ UNCHANGED confirm
        BY <1>4 DEF RequestClose
    <2>2. Arranged(v, opened) /\ Synced(v) = RemoveAt(Shown, i)
        <3>1. Arranged(Window, opened) /\ i \in DOMAIN Window.tabs
            BY Now, WindowIs
        <3> QED
            BY <3>1, CloseGood DEF Shown
    <2> HIDE DEF v
    <2>3. Window' = v /\ Shown' = RemoveAt(Shown, i) /\ tabs' = v.tabs
        BY <2>1, <2>2, BecomesGood
    <2>4. confirm' \in 0..Len(tabs')
        <3>1. Len(v.tabs) \in Nat
            BY <2>2, ArrangedIs
        <3> QED
            BY <1>1, <2>1, <2>3, <3>1
    <2>5. \A j \in DOMAIN tabs \ {i} : TabOK(disk', doubt', import, Shown[j])
        BY <1>1, Now DEF EditorInv, AllOK
    <2>6. EditorInv' /\ Removed(i)
        BY <1>1, <1>2, <2>1, <2>2, <2>3, <2>4, <2>5, Now, CloseStep
    <2>7. Stored(Shown[i]) \/ Shown[i].id \in doubt
        BY <1>1, <1>4, CleanStored
    <2> QED
        BY <1>1, <1>4, <2>6, <2>7
<1> QED
    BY <1>3, <1>4
----------------------------------------------------------------------------
(* Quitting, and the dialog about unsaved changes.                         *)

\* The program ends when no tab has the dirty mark, and otherwise shows one
\* that has, the one that is shown if it has, and asks about it.
QuitKnows ==
    /\ confirm' \in 0..Len(tabs') /\ quitting' \in BOOLEAN
    /\ quitting' => confirm' # 0
    /\ ended' \in {"no", "quit"}
    /\ ended' = "quit" => \A i \in DOMAIN Shown' : ~Shown'[i].dirty

LEMMA QuitGood ==
    ASSUME NEW max, NEW w, Arranged(w, max), ContinueQuit(w), ended = "no"
    PROVE  /\ Arranged(Window', max) /\ Shown' = Synced(w)
           /\ (w.active = 0 <=> active' = 0) /\ QuitKnows
           /\ w.active # 0 /\ w.live.dirty => active' = w.active
<1> DEFINE all == Synced(w)
           dirty == {i \in DOMAIN all : all[i].dirty}
           least == CHOOSE i \in dirty : \A j \in dirty : i <= j
           ask == IF w.active \in dirty THEN w.active ELSE least
           v == [w EXCEPT !.tabs = all]
<1>1. /\ all \in Seq(RawSet) /\ DOMAIN all = 1..Len(all) /\ Len(all) \in Nat
      /\ w.active \in Nat /\ Len(all) = Len(w.tabs) /\ DOMAIN all = DOMAIN w.tabs
      /\ w.active # 0 <=> w.active \in DOMAIN all
      /\ w.active # 0 => all[w.active] = w.live
      /\ w.live \in RawSet /\ w = [tabs |-> w.tabs, live |-> w.live, active |-> w.active]
      /\ w.active = 0 => all = w.tabs
    BY ArrangedIs DEF Synced
<1>2. Placed(all, max)
    BY DEF Arranged
<1>3. v = [tabs |-> all, live |-> w.live, active |-> w.active]
    BY <1>1
<1> HIDE DEF all, v
<1>4. /\ Arranged(v, max) /\ Synced(v) = all /\ v.tabs = all /\ v.active = w.active
    <2>1. CASE w.active = 0
        <3>1. v = w
            BY <1>1, <1>3, <2>1
        <3> QED
            BY <1>1, <2>1, <3>1 DEF all
    <2>2. CASE w.active # 0
        <3>1. v = LoadTab(all, w.active)
            BY <1>1, <1>3, <2>2 DEF LoadTab
        <3> QED
            BY <1>1, <1>2, <1>3, <2>2, <3>1, LoadGood
    <2> QED
        BY <2>1, <2>2
<1>5. CASE dirty # {}
    <2>1. quitting' = TRUE /\ confirm' = ask /\ Becomes(SwitchTab(v, ask)) /\ UNCHANGED ended
        BY <1>5 DEF ContinueQuit, all, v
    <2>2. ask \in DOMAIN all /\ (w.active # 0 /\ w.live.dirty => ask = w.active)
        <3>1. dirty \in SUBSET Nat
            BY <1>1
        <3>2. w.active # 0 /\ w.live.dirty => w.active \in dirty
            BY <1>1
        <3>3. \A i \in dirty : i \in DOMAIN all
            OBVIOUS
        <3> HIDE DEF dirty
        <3>4. least \in dirty
            BY <1>5, <3>1, LeastIs
        <3> HIDE DEF least
        <3> QED
            BY <3>2, <3>3, <3>4
    <2> HIDE DEF ask
    <2> DEFINE x == SwitchTab(v, ask)
    <2>3. Arranged(x, max) /\ Synced(x) = all /\ x.active = ask /\ Len(x.tabs) = Len(all)
        BY <1>4, <2>2, SwitchGood
    <2> HIDE DEF x
    <2>4. Window' = x /\ Shown' = all /\ active' = ask /\ tabs' = x.tabs
        BY <2>1, <2>3, BecomesGood DEF x
    <2>5. ask # 0 /\ ask \in 0..Len(tabs')
        BY <1>1, <2>2, <2>3, <2>4
    <2>6. w.active # 0
        <3>1. w.tabs # <<>>
            BY <1>1, <2>2
        <3> QED
            BY <3>1 DEF Arranged
    <2> QED
        BY <2>1, <2>2, <2>3, <2>4, <2>5, <2>6 DEF QuitKnows, all
<1>6. CASE dirty = {}
    <2>1. quitting' = FALSE /\ confirm' = 0 /\ ended' = "quit" /\ Becomes(v)
        BY <1>6 DEF ContinueQuit, all, v
    <2>2. Window' = v /\ Shown' = all /\ active' = w.active /\ tabs' = all
        BY <1>4, <2>1, BecomesGood
    <2>3. \A i \in DOMAIN Shown' : ~Shown'[i].dirty
        BY <1>6, <2>2
    <2>4. 0 \in 0..Len(tabs')
        BY <1>1, <2>2
    <2> QED
        BY <1>4, <2>1, <2>2, <2>3, <2>4 DEF QuitKnows, all
<1> QED
    BY <1>5, <1>6

\* What follows a closed or saved tab.
LEMMA ClosesGood ==
    ASSUME NEW max, NEW w, Arranged(w, max), Closes(w), ended = "no", quitting \in BOOLEAN
    PROVE  /\ Arranged(Window', max) /\ Shown' = Synced(w)
           /\ (w.active = 0 <=> active' = 0) /\ QuitKnows
<1>1. CASE quitting
    <2>1. ContinueQuit(w)
        BY <1>1 DEF Closes
    <2> QED
        BY <2>1, QuitGood
<1>2. CASE ~quitting
    <2>1. Becomes(w) /\ confirm' = 0 /\ UNCHANGED <<quitting, ended>>
        BY <1>2 DEF Closes
    <2>2. Window' = w /\ Shown' = Synced(w) /\ active' = w.active /\ tabs' = w.tabs
        BY <2>1, BecomesGood
    <2>3. Len(w.tabs) \in Nat
        BY ArrangedIs
    <2>4. 0 \in 0..Len(tabs')
        BY <2>2, <2>3
    <2> QED
        BY <1>2, <2>1, <2>2, <2>4 DEF QuitKnows
<1> QED
    BY <1>1, <1>2

\* request_quit: an import is ended in the tab shown, whichever it is.
LEMMA RequestQuitStep ==
    ASSUME EditorInv, RequestQuit
    PROVE  EditorInv' /\ QuitKnows /\ (Rearranged \/ Edited)
<1> DEFINE u == IF Pending THEN Finished(live, import) ELSE live
           w == [Window EXCEPT !.live = u]
           x == Window
           touched == Pending /\ import.changed
<1>1. /\ ended = "no" /\ import' = NoImport /\ UNCHANGED <<dropped, disk, opened>>
      /\ DiskOK(disk) /\ ~quitting
      /\ doubt' = IF touched /\ live.id # import.home
                  THEN doubt \cup {live.id, import.home} ELSE doubt
    BY DEF RequestQuit, EditorInv
<1>2. ContinueQuit(w)
    BY <1>1 DEF RequestQuit
<1>3. live \in RawSet /\ live.dirty \in BOOLEAN
    BY Now, RawFields
<1>4. /\ u \in RawSet /\ u.id = live.id
      /\ touched => u.dirty
      /\ ~touched => u = live
    <2>1. CASE ~Pending
        BY <1>3, <2>1
    <2>2. CASE Pending
        <3> DEFINE b == import
                   t == live
        <3>1. t \in RawSet /\ b \in BatchSet
            BY <1>3, <2>2, HomeIs
        <3> HIDE DEF b, t
        <3>2. /\ Finished(t, b) \in RawSet /\ Finished(t, b).id = t.id
              /\ Finished(t, b).file = t.file
              /\ Range(Finished(t, b).entries) = Range(t.entries)
              /\ Finished(t, b).dirty = (t.dirty \/ b.changed)
            BY ONLY <3>1, FinishedRaw
        <3>3. ~b.changed => Finished(t, b) = t
            BY DEF Finished
        <3>4. u = Finished(t, b)
            BY <2>2 DEF t, b
        <3> QED
            BY <2>2, <3>2, <3>3, <3>4 DEF t, b
    <2> QED
        BY <2>1, <2>2
<1> HIDE DEF u
<1>5. /\ Arranged(x, opened) /\ Synced(x) = Shown /\ x.active = active /\ x.live = live
      /\ x.tabs = tabs /\ w = [tabs |-> x.tabs, live |-> u, active |-> x.active]
      /\ w.active = active /\ w.live = u
    BY Now DEF Window, Shown
<1> HIDE DEF w, x
<1>6. /\ Arranged(w, opened)
      /\ active # 0 => /\ Synced(w) = [Shown EXCEPT ![active] = u]
                       /\ DOMAIN Synced(w) = DOMAIN Shown
                       /\ \A i \in DOMAIN Shown : Synced(w)[i] = IF i = active THEN u ELSE Shown[i]
      /\ active = 0 => Synced(w) = Shown
    <2>1. CASE active # 0
        <3> DEFINE max == opened
        <3>1. /\ Arranged(x, max) /\ x.active # 0 /\ u \in RawSet /\ u.id = x.live.id
              /\ w = [tabs |-> x.tabs, live |-> u, active |-> x.active]
            BY <1>4, <1>5, <2>1
        <3> HIDE DEF max
        <3>2. /\ Arranged(w, max) /\ Synced(w) = [Synced(x) EXCEPT ![x.active] = u]
              /\ DOMAIN Synced(w) = DOMAIN Synced(x)
              /\ \A i \in DOMAIN Synced(x) :
                    Synced(w)[i] = IF i = x.active THEN u ELSE Synced(x)[i]
            BY ONLY <3>1, EditGood
        <3> QED
            BY <1>5, <2>1, <3>2 DEF max
    <2>2. CASE active = 0
        <3>1. w.tabs = x.tabs /\ Synced(w) = w.tabs /\ Synced(x) = x.tabs
            BY <1>5, <2>2 DEF Synced
        <3>2. x.tabs \in Seq(RawSet)
            BY <1>5, Now
        <3>3. w \in WindowSet
            BY <1>4, <1>5, <3>2 DEF WindowSet, Arranged
        <3>4. Arranged(w, opened)
            BY <1>5, <2>2, <3>1, <3>3 DEF Arranged
        <3> QED
            BY <1>5, <2>2, <3>1, <3>4
    <2> QED
        BY <2>1, <2>2
<1>7. /\ Arranged(Window', opened) /\ Shown' = Synced(w)
      /\ (active = 0 <=> active' = 0) /\ QuitKnows
      /\ active # 0 /\ u.dirty => active' = active
    BY <1>1, <1>2, <1>5, <1>6, QuitGood
<1> HIDE DEF touched
<1>8. AllOK(disk, doubt', NoImport, Shown')
    <2>1. ASSUME NEW i \in DOMAIN tabs PROVE TabOK(disk, doubt', NoImport, Shown'[i])
        <3>1. TabOK(disk, doubt, import, Shown[i]) /\ i \in DOMAIN Shown /\ active # 0
              /\ (i = active => Shown[i] = live)
            BY Now DEF EditorInv, AllOK
        <3>2. doubt \subseteq doubt'
            BY <1>1
        <3>3. CASE ~Pending
            <4>1. import = NoImport /\ u = live /\ Shown'[i] = Shown[i]
                BY <1>4, <1>6, <1>7, <3>1, <3>3 DEF Pending, touched
            <4> QED
                BY <3>1, <3>2, <4>1, OKDoubts
        <3>4. CASE Pending /\ i # active
            <4> DEFINE t == Shown[i]
                       p == doubt'
                       b == import
            <4>1. Shown'[i] = t /\ t.id # live.id
                BY <1>6, <1>7, <3>1, <3>4, Now
            <4>2. import.changed /\ import.home = t.id => t.id \in p
                BY <1>1, <3>4, <4>1 DEF touched
            <4>3. b \in BatchSet /\ TabOK(disk, doubt, b, t) /\ (t.id \in doubt => t.id \in p)
                BY <3>1, <3>2, <3>4, HomeIs
            <4>4. b.changed /\ b.home = t.id => t.id \in p
                BY <4>2
            <4> HIDE DEF t, p, b
            <4>5. TabOK(disk, p, NoImport, t)
                BY <4>3, <4>4, OKEnds
            <4> QED
                BY <4>1, <4>5 DEF p
        <3>5. CASE Pending /\ i = active
            <4>1. Shown'[i] = u /\ import \in BatchSet /\ TabOK(disk, doubt, import, live)
                BY <1>6, <1>7, <3>1, <3>5, HomeIs
            <4>2. CASE live.id \in doubt
                BY <1>4, <3>2, <4>1, <4>2 DEF TabOK
            <4>3. CASE live.id \notin doubt /\ live.id = import.home
                <5>1. Midway(disk, live, import)
                    BY <4>1, <4>3, BatchPends DEF TabOK
                <5>2. SoundTab(disk, Finished(live, import))
                    BY <5>1, FinishedSound
                <5>3. u = Finished(live, import)
                    BY <3>5 DEF u
                <5> QED
                    BY <4>1, <5>2, <5>3 DEF TabOK
            <4>4. CASE live.id \notin doubt /\ live.id # import.home
                <5>1. CASE touched
                    BY <1>1, <1>4, <4>1, <4>4, <5>1 DEF TabOK
                <5>2. CASE ~touched
                    <6>1. u = live /\ SoundTab(disk, live)
                        BY <1>4, <4>1, <4>4, <5>2, BatchPends DEF TabOK
                    <6> QED
                        BY <4>1, <6>1 DEF TabOK
                <5> QED
                    BY <5>1, <5>2
            <4> QED
                BY <4>2, <4>3, <4>4
        <3> QED
            BY <3>3, <3>4, <3>5
    <2>2. DOMAIN Shown' = DOMAIN tabs
        BY <1>6, <1>7, Now
    <2> QED
        BY <2>1, <2>2 DEF AllOK
<1>9. EditorInv'
    BY <1>1, <1>7, <1>8 DEF EditorInv, ImportOK, Pending, QuitKnows
<1>10. Rearranged \/ Edited
    <2>1. CASE active = 0
        BY <1>6, <1>7, <2>1 DEF Rearranged
    <2>2. CASE active # 0 /\ touched
        BY <1>4, <1>6, <1>7, <2>2 DEF Edited
    <2>3. CASE active # 0 /\ ~touched
        <3>1. u = live
            BY <1>4, <2>3
        <3>2. [Shown EXCEPT ![active] = live] = Shown
            <4>1. Shown[active] = live /\ Shown \in Seq(RawSet)
                BY <2>3, Now
            <4> QED
                BY <4>1
        <3> QED
            BY <1>6, <1>7, <2>3, <3>1, <3>2 DEF Rearranged
    <2> QED
        BY <2>1, <2>2, <2>3
<1> QED
    BY <1>7, <1>9, <1>10

\* The tab a question is about.
LEMMA Questioned ==
    ASSUME EditorInv, confirm # 0
    PROVE  confirm \in DOMAIN tabs
<1>1. confirm \in 0..Len(tabs) /\ DOMAIN tabs = 1..Len(tabs) /\ Len(tabs) \in Nat
    BY Now DEF EditorInv
<1> QED
    BY <1>1

LEMMA AnswerDiscardStep ==
    ASSUME EditorInv, AnswerDiscard
    PROVE  EditorInv' /\ QuitKnows /\ Removed(confirm)
<1> DEFINE v == CloseTab(Window, confirm)
           i == confirm
<1>1. /\ ended = "no" /\ i # 0 /\ Closes(v) /\ Shifts
      /\ UNCHANGED <<dropped, disk, opened, doubt>>
    BY DEF AnswerDiscard
<1>2. /\ i \in DOMAIN tabs /\ DiskOK(disk) /\ quitting \in BOOLEAN
      /\ dropped' \in Seq(Item) /\ (quitting => ~Pending)
    BY <1>1, Questioned DEF EditorInv
<1>3. Arranged(v, opened) /\ Synced(v) = RemoveAt(Shown, i)
    <2>1. Arranged(Window, opened) /\ i \in DOMAIN Window.tabs
        BY <1>2, Now, WindowIs
    <2> QED
        BY <2>1, CloseGood DEF Shown
<1> HIDE DEF v
<1>4. /\ Arranged(Window', opened) /\ Shown' = RemoveAt(Shown, i) /\ QuitKnows
    BY <1>1, <1>2, <1>3, ClosesGood
<1>5. \A j \in DOMAIN tabs \ {i} : TabOK(disk', doubt', import, Shown[j])
    BY <1>1, Now DEF EditorInv, AllOK
<1>6. quitting' => ~Pending
    BY <1>1, <1>2 DEF Closes, ContinueQuit
<1> HIDE DEF i
<1>7. EditorInv' /\ Removed(i)
    BY <1>1, <1>2, <1>4, <1>5, <1>6, Now, CloseStep DEF QuitKnows
<1> QED
    BY <1>4, <1>7 DEF i

LEMMA AnswerCancelStep ==
    ASSUME EditorInv, AnswerCancel
    PROVE  EditorInv' /\ Rearranged /\ ended' = ended
<1>1. /\ confirm # 0 /\ confirm' = 0 /\ quitting' = FALSE
      /\ UNCHANGED <<tabs, live, active, import, dropped, ended, disk, opened, doubt>>
    BY DEF AnswerCancel
<1>2. Window' = Window
    BY <1>1 DEF Window
<1>3. Shown' = Shown
    BY <1>2 DEF Shown
<1>4. confirm' \in 0..Len(tabs')
    BY <1>1, Now
<1>5. EditorInv'
    BY <1>1, <1>2, <1>3, <1>4 DEF EditorInv, Pending
<1> QED
    BY <1>1, <1>3, <1>5 DEF Rearranged

LEMMA AnswerSaveStep ==
    ASSUME EditorInv, NEW f \in Files, AnswerSave(f)
    PROVE  /\ EditorInv' /\ QuitKnows
           /\ \/ Removed(confirm) /\ Stored(Shown[confirm])
              \/ Kept(confirm)
<1> DEFINE max == opened
           i == confirm
           w == SwitchTab(Window, i)
           s == Saved(w.live, f)
           v == SavedIn(w, s)
           u == [w EXCEPT !.live = s, !.tabs[i] = s]
<1>1. /\ ended = "no" /\ i # 0 /\ f \in Targets(w.live) /\ Overwrites(w.live, f)
      /\ Closes(IF quitting THEN u ELSE CloseTab(u, i))
      /\ IF quitting THEN UNCHANGED import ELSE Shifts
      /\ UNCHANGED <<dropped, opened>>
    BY DEF AnswerSave
<1>2. /\ i \in DOMAIN tabs /\ quitting \in BOOLEAN /\ dropped' \in Seq(Item)
      /\ (quitting => ~Pending)
    BY <1>1, Questioned DEF EditorInv
<1>3. /\ Arranged(w, max) /\ Synced(w) = Shown /\ w.active = i /\ w.live = Shown[i]
    <2>1. Arranged(Window, max) /\ i \in DOMAIN Window.tabs
        BY <1>2, Now, WindowIs
    <2> QED
        BY <2>1, SwitchGood DEF Shown
<1> HIDE DEF w, max, i
<1>4. /\ DiskOK(disk') /\ disk'[f] = Sorted(Shown[i].entries)
      /\ s \in RawSet /\ s.id = Shown[i].id /\ ~s.dirty
      /\ Range(s.entries) = Range(Shown[i].entries)
      /\ TabOK(disk', doubt', import, s)
      /\ \A j \in DOMAIN tabs \ {i} : TabOK(disk', doubt', import, Shown[j])
    BY <1>1, <1>2, <1>3, OverwriteOK
<1>5. /\ w.tabs \in Seq(RawSet) /\ w.live \in RawSet /\ DOMAIN w.tabs = DOMAIN tabs
      /\ w = [tabs |-> w.tabs, live |-> w.live, active |-> w.active]
      /\ DOMAIN Shown = DOMAIN tabs
    <2>1. /\ w.tabs \in Seq(RawSet) /\ w.live \in RawSet /\ DOMAIN Synced(w) = DOMAIN w.tabs
          /\ w = [tabs |-> w.tabs, live |-> w.live, active |-> w.active]
        BY <1>3, ArrangedIs
    <2> QED
        BY <1>3, <2>1, Now
<1> HIDE DEF s
<1>6. u = v
    <2> DEFINE x == [w EXCEPT !.live = s]
    <2>1. x = [tabs |-> w.tabs, live |-> s, active |-> w.active]
        BY <1>5
    <2>2. u = [x EXCEPT !.tabs[i] = s]
        BY DEF i
    <2> HIDE DEF x, u
    <2> DEFINE y == [w.tabs EXCEPT ![i] = s]
    <2>3. u = [x EXCEPT !.tabs = y]
        BY <2>1, <2>2
    <2> HIDE DEF y
    <2>4. u = [tabs |-> y, live |-> s, active |-> w.active]
        BY <2>1, <2>3
    <2> QED
        BY <1>3, <2>4 DEF SavedIn, y
<1>7. /\ Arranged(v, max) /\ Synced(v) = [Shown EXCEPT ![i] = s]
      /\ DOMAIN Synced(v) = DOMAIN tabs /\ DOMAIN v.tabs = DOMAIN tabs /\ v.active = i
      /\ \A j \in DOMAIN tabs : Synced(v)[j] = IF j = i THEN s ELSE Shown[j]
    <2>1. Arranged(w, max) /\ w.active # 0 /\ s \in RawSet /\ s.id = w.live.id
        BY <1>1, <1>3, <1>4
    <2>2. v.active = w.active
        BY DEF SavedIn
    <2> HIDE DEF v
    <2>3. /\ Arranged(SavedIn(w, s), max)
          /\ Synced(SavedIn(w, s)) = [Synced(w) EXCEPT ![w.active] = s]
          /\ DOMAIN Synced(SavedIn(w, s)) = DOMAIN Synced(w)
          /\ \A j \in DOMAIN Synced(w) :
                Synced(SavedIn(w, s))[j] = IF j = w.active THEN s ELSE Synced(w)[j]
          /\ DOMAIN SavedIn(w, s).tabs = DOMAIN w.tabs
        BY ONLY <2>1, SavedShown
    <2> QED
        BY <1>3, <1>5, <2>2, <2>3 DEF v
<1> HIDE DEF u, v
<1>8. CASE quitting
    <2>1. Closes(v)
        BY <1>1, <1>6, <1>8
    <2>2. /\ Arranged(Window', max) /\ Shown' = Synced(v) /\ active' # 0 /\ QuitKnows
        BY <1>1, <1>2, <1>7, <2>1, ClosesGood
    <2>3. import' = NoImport /\ import = NoImport
        BY <1>1, <1>2, <1>8 DEF Pending
    <2>4. AllOK(disk', doubt', NoImport, Shown')
        BY <1>4, <1>7, <2>2, <2>3 DEF AllOK
    <2>5. EditorInv'
        <3>1. opened' = opened /\ opened \in 0..MaxIds
            BY <1>1 DEF EditorInv
        <3> QED
            BY <1>2, <1>4, <2>2, <2>3, <2>4, <3>1
               DEF EditorInv, ImportOK, Pending, QuitKnows, max
    <2>6. Kept(i)
        BY <1>2, <1>4, <1>7, <2>2 DEF Kept
    <2> QED
        BY <2>2, <2>5, <2>6 DEF i
<1>9. CASE ~quitting
    <2> DEFINE x == CloseTab(v, i)
               all == Synced(v)
    <2>1. Closes(x) /\ Shifts
        BY <1>1, <1>6, <1>9
    <2>2. Arranged(x, max) /\ Synced(x) = RemoveAt(all, i)
        BY <1>2, <1>7, CloseGood
    <2>3. Placed(all, max)
        BY <1>7 DEF Arranged
    <2> HIDE DEF x, all
    <2>4. /\ Arranged(Window', max) /\ Shown' = RemoveAt(all, i) /\ QuitKnows
        BY <1>1, <1>2, <2>1, <2>2, ClosesGood
    <2>5. ~quitting'
        BY <1>9, <2>1 DEF Closes
    <2>6. EditorInv' /\ Removed(i)
        <3>1. /\ Placed(all, opened) /\ Arranged(Window', opened) /\ opened' = opened
              /\ DOMAIN all = DOMAIN tabs
              /\ \A j \in DOMAIN tabs \ {i} :
                    all[j] = Shown[j] /\ TabOK(disk', doubt', import, Shown[j])
            BY <1>1, <1>4, <1>7, <2>3, <2>4 DEF max, all
        <3> QED
            BY <1>2, <1>4, <2>1, <2>4, <2>5, <3>1, CloseStep DEF QuitKnows
    <2>7. Stored(Shown[i])
        <3>1. f \in IF Shown[i].file = NoFile THEN Files ELSE {Shown[i].file}
            BY <1>1, <1>3 DEF Targets
        <3> QED
            BY <1>4, <3>1 DEF Stored
    <2> QED
        BY <2>4, <2>6, <2>7 DEF i
<1> QED
    BY <1>2, <1>8, <1>9

----------------------------------------------------------------------------
(* All steps.                                                              *)

\* A tab may go if it is saved, was discarded, or has a clean mark in doubt.
MayGo(i) ==
    \/ Stored(Shown[i])
    \/ AnswerDiscard /\ i = confirm
    \/ ~Shown[i].dirty /\ Shown[i].id \in doubt

Effect ==
    \/ Rearranged \/ Edited \/ Added
    \/ \E i \in DOMAIN tabs : Kept(i) \/ (Removed(i) /\ MayGo(i))

Ends == ended = "no" /\ ended' = "quit" => \A i \in DOMAIN Shown' : ~Shown'[i].dirty

LEMMA InvInit == Init => EditorInv
<1> SUFFICES ASSUME Init PROVE EditorInv
    OBVIOUS
<1>1. /\ tabs = <<>> /\ active = 0 /\ live = Tab(0, NoFile, <<>>, FALSE) /\ import = NoImport
      /\ dropped = <<>> /\ confirm = 0 /\ quitting = FALSE
      /\ disk \in [Files -> Contents] /\ opened = 0
    BY DEF Init
<1>2. live \in RawSet
    BY <1>1 DEF Tab, RawSet
<1>3. Window \in WindowSet /\ Window.tabs = <<>> /\ Window.active = 0
    <2>1. <<>> \in Seq(RawSet) /\ 0 \in Nat
        OBVIOUS
    <2>2. Window = [tabs |-> <<>>, live |-> live, active |-> 0]
        BY <1>1 DEF Window
    <2> QED
        BY <1>2, <2>1, <2>2 DEF WindowSet
<1>4. Synced(Window) = <<>> /\ Shown = <<>>
    BY <1>3 DEF Synced, Shown
<1>5. Arranged(Window, opened)
    BY <1>3, <1>4 DEF Arranged, Placed
<1>6. DiskOK(disk)
    BY <1>1, ContentsAssumption DEF DiskOK, Ordered
<1>7. 0 \in 0..MaxIds
    BY EditorAssumption
<1>8. 0 \in 0..Len(tabs) /\ <<>> \in Seq(Item)
    BY <1>1
<1>9. AllOK(disk, doubt, import, Shown)
    BY <1>4 DEF AllOK
<1> QED
    BY <1>1, <1>5, <1>6, <1>7, <1>8, <1>9 DEF EditorInv, ImportOK, Pending

LEMMA QueueType ==
    ASSUME NEW queue \in Queues
    PROVE  queue \in Seq(Item)
<1>1. PICK n \in 1..MaxQueue : queue \in [1..n -> [key : Keys, data : Incoming]]
    BY DEF Queues
<1>2. n \in Nat
    BY <1>1, EditorAssumption
<1> QED
    <2>1. queue \in [1..n -> Item]
        BY <1>1 DEF Item
    <2>2. queue = [m \in 1..n |-> queue[m]] /\ \A m \in 1..n : queue[m] \in Item
        BY <2>1
    <2> QED
        BY <1>2, <2>2

LEMMA NextStep ==
    ASSUME EditorInv, [Next]_vars
    PROVE  EditorInv' /\ Effect /\ Ends
<1>1. ASSUME NEW f \in Files, OpenPath(f) \/ Save(f) \/ AnswerSave(f)
      PROVE  EditorInv' /\ Effect /\ Ends
    <2>1. CASE OpenPath(f)
        BY <2>1, OpenPathStep DEF Effect, Ends
    <2>2. CASE Save(f)
        BY <2>2, SaveStep DEF Effect, Ends
    <2>3. CASE AnswerSave(f)
        <3>1. /\ EditorInv' /\ QuitKnows
              /\ \/ Removed(confirm) /\ Stored(Shown[confirm])
                 \/ Kept(confirm)
            BY <2>3, AnswerSaveStep
        <3>2. confirm \in DOMAIN tabs
            BY <2>3, Questioned DEF AnswerSave
        <3> QED
            BY <3>1, <3>2 DEF Effect, Ends, QuitKnows, MayGo
    <2> QED
        BY <1>1, <2>1, <2>2, <2>3
<1>2. CASE NewArchive
    BY <1>2, NewArchiveStep DEF Effect, Ends
<1>3. ASSUME NEW i \in DOMAIN tabs, NEW e \in [key : Keys, data : Incoming], Drop(i, e)
      PROVE  EditorInv' /\ Effect /\ Ends
    BY <1>3, DropStep DEF Effect, Ends, Item
<1>4. ASSUME NEW i \in DOMAIN tabs, ClickTab(i) \/ RequestClose(i)
      PROVE  EditorInv' /\ Effect /\ Ends
    <2>1. CASE ClickTab(i)
        BY <2>1, ClickTabStep DEF Effect, Ends
    <2>2. CASE RequestClose(i)
        BY <2>2, RequestCloseStep DEF Effect, Ends, MayGo
    <2> QED
        BY <1>4, <2>1, <2>2
<1>5. ASSUME NEW ok \in BOOLEAN, TakeDropped(ok) \/ ContinueImport(ok)
      PROVE  EditorInv' /\ Effect /\ Ends
    BY <1>5, TakeDroppedStep, ContinueImportStep DEF Effect, Ends
<1>6. ASSUME NEW ok \in BOOLEAN, NEW queue \in Queues, AddPaths(queue, ok)
      PROVE  EditorInv' /\ Effect /\ Ends
    BY <1>6, QueueType, AddPathsStep DEF Effect, Ends
<1>7. ASSUME NEW ok \in BOOLEAN, NEW answer \in Answers, AnswerConflict(answer, ok)
      PROVE  EditorInv' /\ Effect /\ Ends
    BY <1>7, AnswerConflictStep DEF Effect, Ends
<1>8. ASSUME NEW selected \in SUBSET DOMAIN live.entries, Delete(selected)
      PROVE  EditorInv' /\ Effect /\ Ends
    BY <1>8, DeleteStep DEF Effect, Ends
<1>9. CASE Undo \/ Redo
    BY <1>9, UndoStep, RedoStep DEF Effect, Ends
<1>10. CASE RequestQuit
    BY <1>10, RequestQuitStep DEF Effect, Ends, QuitKnows
<1>11. CASE AnswerDiscard
    <2>1. confirm \in DOMAIN tabs
        BY <1>11, Questioned DEF AnswerDiscard
    <2> QED
        BY <1>11, <2>1, AnswerDiscardStep DEF Effect, Ends, QuitKnows, MayGo
<1>12. CASE AnswerCancel
    BY <1>12, AnswerCancelStep DEF Effect, Ends
<1>13. CASE UNCHANGED vars
    <2>1. UNCHANGED <<tabs, live, active, import, dropped, confirm, quitting, ended, disk,
                      opened, doubt>>
        BY <1>13 DEF vars
    <2>2. Window' = Window
        BY <2>1 DEF Window
    <2>3. Shown' = Shown
        BY <2>2 DEF Shown
    <2>4. EditorInv'
        BY <2>1, <2>2, <2>3 DEF EditorInv, Pending
    <2> QED
        BY <2>1, <2>3, <2>4 DEF Effect, Ends, Rearranged
<1>14. CASE \E i \in DOMAIN tabs :
               \/ ClickTab(i) \/ RequestClose(i)
               \/ \E e \in [key : Keys, data : Incoming] : Drop(i, e)
    BY <1>3, <1>4, <1>14
<1>15. CASE \E ok \in BOOLEAN :
               \/ TakeDropped(ok) \/ ContinueImport(ok)
               \/ \E queue \in Queues : AddPaths(queue, ok)
               \/ \E answer \in Answers : AnswerConflict(answer, ok)
    BY <1>5, <1>6, <1>7, <1>15
<1>16. CASE \E f \in Files : OpenPath(f) \/ Save(f) \/ AnswerSave(f)
    BY <1>1, <1>16
<1>17. CASE \E selected \in SUBSET DOMAIN live.entries : Delete(selected)
    BY <1>8, <1>17
<1> QED
    BY <1>2, <1>9, <1>10, <1>11, <1>12, <1>13, <1>14, <1>15, <1>16, <1>17 DEF Next

THEOREM EditorInvariant == Spec => []EditorInv
<1>1. Init => EditorInv
    BY InvInit
<1>2. EditorInv /\ [Next]_vars => EditorInv'
    BY NextStep
<1> QED
    BY <1>1, <1>2, PTL DEF Spec

----------------------------------------------------------------------------
(* What the invariant says.                                                *)

LEMMA InvClean == EditorInv => CleanIsSaved
<1> SUFFICES ASSUME EditorInv, NEW i \in DOMAIN tabs, ~Shown[i].dirty,
                    Shown[i].id \notin doubt
             PROVE  ~Unsaved(Shown[i])
    BY DEF CleanIsSaved
<1> DEFINE t == Shown[i]
           d == disk
           q == doubt
           b == import
<1>1. DiskOK(d) /\ TabOK(d, q, b, t) /\ ~t.dirty /\ t.id \notin q
    BY Now DEF EditorInv, AllOK
<1> HIDE DEF t, d, q, b
<1>2. t.file \in Files /\ d[t.file] = Sorted(t.entries)
    BY ONLY <1>1, CleanOK
<1>3. t.file # NoFile
    BY <1>2, EditorAssumption
<1> QED
    BY <1>2, <1>3 DEF Unsaved, t, d

LEMMA InvCleanNext == EditorInv' => CleanIsSaved'
BY InvClean, PTL

\* The tabs as the user sees them.
ShownOK ==
    /\ Placed(Shown, opened) /\ opened \in 0..MaxIds /\ active \in Nat
    /\ DOMAIN Shown = DOMAIN tabs /\ Len(Shown) = Len(tabs)
    /\ (active # 0 <=> active \in DOMAIN tabs) /\ (active = 0 <=> tabs = <<>>)
    /\ active # 0 => Shown[active] = live
    /\ \A i \in DOMAIN tabs : Shown[i] = IF i = active THEN live ELSE tabs[i]

LEMMA InvShown == EditorInv => ShownOK
<1> SUFFICES ASSUME EditorInv PROVE ShownOK
    OBVIOUS
<1>1. active = 0 <=> tabs = <<>>
    BY WindowIs DEF EditorInv, Arranged
<1> QED
    BY <1>1, Now DEF EditorInv, ShownOK

LEMMA InvShownNext == EditorInv' => ShownOK'
BY InvShown, PTL

\* record_edit, undo_edit, redo_edit, save, load_tab and process_add_batch: a
\* tab without the dirty mark holds what its file holds, unless its archive is
\* in doubt.
THEOREM CleanSaved == Spec => []CleanIsSaved
<1>1. EditorInv => CleanIsSaved
    BY InvClean
<1> QED
    BY <1>1, EditorInvariant, PTL

----------------------------------------------------------------------------
(* What an import may change.                                              *)

\* A turn of an import, whoever takes it.
LEMMA TurnIs ==
    ASSUME Turn
    PROVE  \E answer \in Answers \cup {"continue"}, ok \in BOOLEAN :
              /\ Pending /\ ProcessBatch(import, answer, ok) /\ UNCHANGED <<tabs, active>>
              /\ answer # "continue" => import.conflict # None
<1>1. ASSUME NEW ok \in BOOLEAN, ContinueImport(ok)
      PROVE  Pending /\ ProcessBatch(import, "continue", ok) /\ UNCHANGED <<tabs, active>>
    BY <1>1 DEF ContinueImport
<1>2. ASSUME NEW ok \in BOOLEAN, NEW answer \in Answers, AnswerConflict(answer, ok)
      PROVE  /\ Pending /\ ProcessBatch(import, answer, ok) /\ UNCHANGED <<tabs, active>>
             /\ import.conflict # None
    BY <1>2 DEF AnswerConflict, Asking
<1> QED
    BY <1>1, <1>2 DEF Turn

\* It touches the live copy only, there the names it brings only, and none when
\* another tab is shown than its own.
LEMMA TurnTouches ==
    ASSUME EditorInv, Turn
    PROVE  /\ Pending /\ UNCHANGED <<tabs, active>> /\ live'.id = live.id
           /\ Untouched(live'.entries, Brought) = Untouched(live.entries, Brought)
           /\ active # import.target => live' = live
<1>1. PICK answer \in Answers \cup {"continue"}, ok \in BOOLEAN :
              /\ Pending /\ ProcessBatch(import, answer, ok) /\ UNCHANGED <<tabs, active>>
              /\ answer # "continue" => import.conflict # None
    BY TurnIs
<1>2. CASE active = import.target
    <2> DEFINE K == Brought
               b == import
    <2>1. /\ live \in RawSet /\ b \in BatchSet /\ Carry(b, answer, ok)
          /\ answer # "continue" => b.conflict # None
        BY <1>1, <1>2, Now, HomeIs DEF ProcessBatch
    <2>2. /\ \A n \in DOMAIN b.queue : b.queue[n].key \in K
          /\ b.conflict # None => b.conflict.entry.key \in K
        BY <1>1 DEF Brought, Asking
    <2> HIDE DEF K, b
    <2>3. /\ live' \in RawSet /\ live'.id = live.id
          /\ Untouched(live'.entries, K) = Untouched(live.entries, K)
        BY <2>1, <2>2, CarryRaw
    <2> QED
        BY <1>1, <1>2, <2>3 DEF K
<1>3. CASE active # import.target
    BY <1>1, <1>3 DEF ProcessBatch
<1> QED
    BY <1>2, <1>3

LEMMA StepStaysHome ==
    ASSUME EditorInv, [Next]_vars, Pending /\ ~import.shifted
    PROVE  StaysHome
<1> SUFFICES ASSUME Turn, NEW i \in DOMAIN tabs, Shown[i].id # import.home
             PROVE  \E j \in DOMAIN tabs' : /\ Shown'[j].id = Shown[i].id
                                            /\ Shown'[j].entries = Shown[i].entries
    BY DEF StaysHome
<1>1. /\ UNCHANGED <<tabs, active>> /\ live'.id = live.id
      /\ active # import.target => live' = live
    BY TurnTouches
<1>2. EditorInv'
    BY NextStep
<1>3. /\ DOMAIN Shown = DOMAIN tabs
      /\ Shown[i] = IF i = active THEN live ELSE tabs[i]
    BY Now
<1>4. \A n \in DOMAIN tabs' : Shown'[n] = IF n = active' THEN live' ELSE tabs'[n]
    BY <1>2, InvShownNext DEF ShownOK
<1>5. CASE i # active \/ active # import.target
    <2>1. Shown'[i] = Shown[i]
        BY <1>1, <1>3, <1>4, <1>5
    <2> QED
        BY <1>1, <2>1
<1>6. CASE i = active /\ active = import.target
    BY <1>3, <1>6, HomeIs
<1> QED
    BY <1>5, <1>6

\* process_add_batch: an import goes on in its own archive, although it only
\* remembers the index of a tab, unless a tab was closed meanwhile.
THEOREM KeepsHome == Spec => ImportStaysHome
<1>1. EditorInv /\ [Next]_vars => [Pending /\ ~import.shifted => StaysHome]_vars
    BY StepStaysHome
<1> QED
    BY <1>1, EditorInvariant, PTL DEF Spec, ImportStaysHome

\* add_prepared_entry_unsorted: however the entries are moved, removed or
\* restored between two turns of an import, it touches none but those of the
\* names of its files.
THEOREM SparesOthers == Spec => ImportSparesOthers
<1>1. EditorInv /\ [Next]_vars =>
         [Turn => Untouched(live'.entries, Brought) = Untouched(live.entries, Brought)]_vars
    BY TurnTouches
<1> QED
    BY <1>1, EditorInvariant, PTL DEF Spec, ImportSparesOthers

----------------------------------------------------------------------------
(* What is no longer open is stored, or was discarded.                     *)

LEMMA StepKeeps ==
    ASSUME EditorInv, [Next]_vars
    PROVE  LosesNothing
<1>1. EditorInv' /\ Effect /\ Ends
    BY NextStep
<1>2. /\ DOMAIN Shown = DOMAIN tabs /\ Shown \in Seq(RawSet)
      /\ (active # 0 => Shown[active] = live) /\ (active # 0 <=> active \in DOMAIN tabs)
    BY Now
<1>3. DOMAIN Shown' = DOMAIN tabs'
    BY <1>1, InvShownNext DEF ShownOK
<1> DEFINE Fine(i) ==
              \/ \E j \in DOMAIN tabs' : Shown'[j].id = Shown[i].id
              \/ Stored(Shown[i])
              \/ AnswerDiscard /\ i = confirm
              \/ ~Shown[i].dirty /\ Shown[i].id \in doubt
<1>4. ASSUME NEW i \in DOMAIN tabs PROVE Fine(i)
    <2>1. CASE Rearranged
        BY <1>2, <1>3, <2>1 DEF Rearranged
    <2>2. ASSUME NEW a \in DOMAIN tabs, NEW t \in RawSet, t.id = Shown[a].id,
                 Shown' = [Shown EXCEPT ![a] = t]
          PROVE  Fine(i)
        <3>1. i \in DOMAIN tabs' /\ Shown'[i].id = Shown[i].id
            BY <1>2, <1>3, <2>2
        <3> QED
            BY <3>1
    <2>3. CASE Edited
        <3>1. active \in DOMAIN tabs /\ \E t \in RawSet :
                 t.id = Shown[active].id /\ Shown' = [Shown EXCEPT ![active] = t]
            BY <1>2, <2>3 DEF Edited
        <3> HIDE DEF Fine
        <3> QED
            BY <2>2, <3>1
    <2>4. ASSUME NEW a \in DOMAIN tabs, Kept(a) PROVE Fine(i)
        <3>1. \E t \in RawSet : t.id = Shown[a].id /\ Shown' = [Shown EXCEPT ![a] = t]
            BY <2>4 DEF Kept
        <3> HIDE DEF Fine
        <3> QED
            BY <2>2, <3>1
    <2>5. CASE Added
        <3>1. PICK t \in RawSet : Shown' = Append(Shown, t)
            BY <2>5 DEF Added
        <3>2. i \in DOMAIN Shown' /\ Shown'[i] = Shown[i]
            BY <1>2, <3>1, AppendIs
        <3> QED
            BY <1>3, <3>2
    <2>6. ASSUME NEW r \in DOMAIN tabs, Removed(r), MayGo(r) PROVE Fine(i)
        <3>1. CASE i = r
            BY <2>6, <3>1 DEF MayGo
        <3>2. CASE i # r
            <4>1. \E j \in DOMAIN Shown' : Shown'[j] = Shown[i]
                BY <1>2, <2>6, <3>2 DEF Removed, Without
            <4> QED
                BY <1>3, <4>1
        <3> QED
            BY <3>1, <3>2
    <2> HIDE DEF Fine
    <2> QED
        BY <1>1, <2>1, <2>3, <2>4, <2>5, <2>6 DEF Effect
<1>5. ended = "no" /\ ended' = "quit" => AllSaved'
    <2> SUFFICES ASSUME ended = "no", ended' = "quit" PROVE AllSaved'
        OBVIOUS
    <2>1. \A i \in DOMAIN Shown' : ~Shown'[i].dirty
        BY <1>1 DEF Ends
    <2>2. CleanIsSaved'
        BY <1>1, InvCleanNext
    <2> QED
        BY <1>3, <2>1, <2>2 DEF CleanIsSaved, AllSaved
<1> QED
    BY <1>4, <1>5 DEF LosesNothing

\* close_tab, continue_quit and the dialogs: every tab that disappears is saved,
\* was discarded in the dialog about it, or had a clean mark in doubt; the
\* program ends with all the others saved.
THEOREM KeepsEverything == Spec => NothingLost
<1>1. EditorInv /\ [Next]_vars => LosesNothing
    BY StepKeeps
<1> QED
    BY <1>1, EditorInvariant, PTL DEF Spec, NothingLost

----------------------------------------------------------------------------
(* The tabs are a workspace.                                               *)

DocOf(t) == [text |-> Range(t.entries), dirty |-> t.dirty]

Idents(all) == {all[i].id : i \in DOMAIN all}

DocsOf(all) ==
    [id \in {all[i].id : i \in DOMAIN all} |->
        DocOf(all[CHOOSE i \in DOMAIN all : all[i].id = id])]

LEMMA DocumentsAre == Documents = DocsOf(Shown) /\ Documents' = DocsOf(Shown')
BY DEF Documents, DocsOf, DocOf

\* Each tab's document, under its identity.
LEMMA DocsAre ==
    ASSUME NEW max, NEW all, Placed(all, max)
    PROVE  /\ DOMAIN DocsOf(all) = Idents(all)
           /\ \A i \in DOMAIN all : DocsOf(all)[all[i].id] = DocOf(all[i])
           /\ DocsOf(all) = [id \in DOMAIN DocsOf(all) |-> DocsOf(all)[id]]
<1> DEFINE at(id) == CHOOSE i \in DOMAIN all : all[i].id = id
           D == DocsOf(all)
<1>1. D = [id \in {all[i].id : i \in DOMAIN all} |-> DocOf(all[at(id)])]
    BY DEF DocsOf
<1>2. ASSUME NEW i \in DOMAIN all PROVE at(all[i].id) = i
    BY DEF Placed
<1> HIDE DEF at
<1>3. DOMAIN D = {all[i].id : i \in DOMAIN all}
    BY <1>1
<1>4. ASSUME NEW i \in DOMAIN all PROVE D[all[i].id] = DocOf(all[i])
    <2>1. all[i].id \in {all[j].id : j \in DOMAIN all}
        OBVIOUS
    <2> QED
        BY <1>1, <1>2, <2>1
<1>5. D = [id \in DOMAIN D |-> D[id]]
    BY <1>1
<1> QED
    BY <1>3, <1>4, <1>5 DEF Idents

\* Two sets of tabs that differ in one document at most.
Alike(D, E, id) == \A j \in (DOMAIN D \cup DOMAIN E) \ {id} : j \in DOMAIN D /\ j \in DOMAIN E /\ E[j] = D[j]

LEMMA DocsEdited ==
    ASSUME NEW max, NEW all, Placed(all, max), NEW a \in DOMAIN all,
           NEW t \in RawSet, t.id = all[a].id, NEW top, NEW new, Placed(new, top),
           DOMAIN new = DOMAIN all, \A i \in DOMAIN all : new[i] = IF i = a THEN t ELSE all[i]
    PROVE  /\ DOMAIN DocsOf(new) = DOMAIN DocsOf(all) /\ t.id \in DOMAIN DocsOf(all)
           /\ DocsOf(new)[t.id] = DocOf(t) /\ DocsOf(all)[t.id] = DocOf(all[a])
           /\ Alike(DocsOf(all), DocsOf(new), t.id)
<1> DEFINE D == DocsOf(all)
           E == DocsOf(new)
<1>1. /\ DOMAIN D = Idents(all)
      /\ \A i \in DOMAIN all : D[all[i].id] = DocOf(all[i])
      /\ DOMAIN E = Idents(new)
      /\ \A i \in DOMAIN new : E[new[i].id] = DocOf(new[i])
    BY ONLY Placed(all, max), Placed(new, top), DocsAre
<1>2. /\ DOMAIN new = DOMAIN all
      /\ \A i \in DOMAIN all : new[i] = IF i = a THEN t ELSE all[i]
    OBVIOUS
<1> HIDE DEF D, E
<1>3. \A i \in DOMAIN all : new[i].id = all[i].id
    BY <1>2
<1>4. DOMAIN E = DOMAIN D
    BY <1>1, <1>2, <1>3 DEF Idents
<1>5. t.id \in DOMAIN D /\ D[t.id] = DocOf(all[a]) /\ E[t.id] = DocOf(t)
    BY <1>1, <1>2 DEF Idents
<1>6. ASSUME NEW j \in DOMAIN D, j # t.id PROVE E[j] = D[j]
    <2>1. PICK i \in DOMAIN all : all[i].id = j
        BY <1>1 DEF Idents
    <2>2. i # a /\ new[i] = all[i]
        BY <1>2, <1>6, <2>1
    <2> QED
        BY <1>1, <1>2, <2>1, <2>2
<1> QED
    BY <1>4, <1>5, <1>6 DEF Alike, D, E

LEMMA DocsAdded ==
    ASSUME NEW max, NEW all, Placed(all, max), NEW t \in RawSet, NEW more, Placed(more, max + 1),
           t.id = max + 1, max \in Nat, more = Append(all, t)
    PROVE  /\ t.id \notin DOMAIN DocsOf(all) /\ t.id \in DOMAIN DocsOf(more)
           /\ Alike(DocsOf(all), DocsOf(more), t.id)
<1> DEFINE D == DocsOf(all)
           E == DocsOf(more)
           l == Len(all)
<1>1. /\ DOMAIN D = Idents(all)
      /\ \A i \in DOMAIN all : D[all[i].id] = DocOf(all[i])
      /\ DOMAIN E = Idents(more)
      /\ \A i \in DOMAIN more : E[more[i].id] = DocOf(more[i])
    BY DocsAre
<1>2. /\ DOMAIN more = DOMAIN all \cup {l + 1}
      /\ \A i \in DOMAIN all : more[i] = all[i]
      /\ more[l + 1] = t
    BY AppendIs DEF Placed
<1>3. \A i \in DOMAIN all : all[i].id # t.id
    BY DEF Placed
<1> HIDE DEF D, E, l
<1>4. t.id \notin DOMAIN D
    BY <1>1, <1>3 DEF Idents
<1>5. t.id \in DOMAIN E
    BY <1>1, <1>2 DEF Idents
<1>6. ASSUME NEW j \in DOMAIN D PROVE j \in DOMAIN E /\ E[j] = D[j]
    <2>1. PICK i \in DOMAIN all : all[i].id = j
        BY <1>1 DEF Idents
    <2> QED
        BY <1>1, <1>2, <2>1 DEF Idents
<1>7. ASSUME NEW j \in DOMAIN E, j # t.id PROVE j \in DOMAIN D
    <2>1. PICK i \in DOMAIN more : more[i].id = j
        BY <1>1 DEF Idents
    <2> QED
        BY <1>1, <1>2, <1>7, <2>1 DEF Idents
<1> QED
    BY <1>4, <1>5, <1>6, <1>7 DEF Alike, D, E

LEMMA DocsRemoved ==
    ASSUME NEW max, NEW all, Placed(all, max), NEW r \in DOMAIN all,
           NEW top, NEW rest, Placed(rest, top),
           Without(all, rest, r)
    PROVE  /\ all[r].id \in DOMAIN DocsOf(all) /\ all[r].id \notin DOMAIN DocsOf(rest)
           /\ Alike(DocsOf(all), DocsOf(rest), all[r].id)
<1> DEFINE D == DocsOf(all)
           E == DocsOf(rest)
<1>1. /\ DOMAIN D = Idents(all)
      /\ \A i \in DOMAIN all : D[all[i].id] = DocOf(all[i])
      /\ DOMAIN E = Idents(rest)
      /\ \A i \in DOMAIN rest : E[rest[i].id] = DocOf(rest[i])
    BY DocsAre
<1>2. \A i \in DOMAIN all \ {r} : all[i].id # all[r].id
    BY DEF Placed
<1> HIDE DEF D, E
<1>3. all[r].id \in DOMAIN D
    BY <1>1 DEF Idents
<1>4. ASSUME NEW j \in DOMAIN E PROVE j \in DOMAIN D /\ j # all[r].id /\ E[j] = D[j]
    <2>1. PICK n \in DOMAIN rest : rest[n].id = j
        BY <1>1 DEF Idents
    <2>2. PICK m \in DOMAIN all \ {r} : rest[n] = all[m]
        BY <2>1 DEF Without
    <2> QED
        BY <1>1, <1>2, <2>1, <2>2 DEF Idents
<1>5. ASSUME NEW j \in DOMAIN D, j # all[r].id PROVE j \in DOMAIN E
    <2>1. PICK m \in DOMAIN all \ {r} : all[m].id = j
        BY <1>1, <1>5 DEF Idents
    <2>2. PICK n \in DOMAIN rest : rest[n] = all[m]
        BY <2>1 DEF Without
    <2> QED
        BY <1>1, <2>1, <2>2 DEF Idents
<1> QED
    BY <1>3, <1>4, <1>5 DEF Alike, D, E

LEMMA PromiseInit == Init => Promise!Init
<1> SUFFICES ASSUME Init PROVE Promise!Init
    OBVIOUS
<1>1. tabs = <<>> /\ active = 0
    BY DEF Init
<1>2. Shown = <<>>
    BY <1>1 DEF Shown, Synced, Window
<1>3. {Shown[i].id : i \in DOMAIN Shown} = {}
    BY <1>2
<1>4. Documents = [i \in {} |-> i]
    BY <1>3, DocumentsAre DEF DocsOf
<1> QED
    BY <1>1, <1>4 DEF Promise!Init

\* The documents of the other archives are the same.
LEMMA OthersAlike ==
    ASSUME NEW id, Documents = [j \in DOMAIN Documents |-> Documents[j]],
           Documents' = [j \in DOMAIN Documents' |-> Documents'[j]],
           Alike(Documents, Documents', id)
    PROVE  Promise!Others(id)' = Promise!Others(id)
<1> DEFINE D == Documents
           E == Documents'
<1>1. Promise!Others(id) = [j \in DOMAIN D \ {id} |-> D[j]]
    BY DEF Promise!Others
<1>2. Promise!Others(id)' = [j \in DOMAIN E \ {id} |-> E[j]]
    BY DEF Promise!Others
<1> HIDE DEF D, E
<1>3. DOMAIN D \ {id} = DOMAIN E \ {id}
    BY DEF Alike, D, E
<1>4. \A j \in DOMAIN D \ {id} : E[j] = D[j]
    BY DEF Alike, D, E
<1> QED
    BY <1>1, <1>2, <1>3, <1>4

LEMMA PromiseStep ==
    ASSUME EditorInv, [Next]_vars
    PROVE  [Promise!Next]_(Promise!vars)
<1> SUFFICES Promise!Next \/ UNCHANGED Promise!vars
    OBVIOUS
<1> DEFINE D == Documents
           E == Documents'
           S == IF active = 0 THEN 0 ELSE live.id
           T == IF active' = 0 THEN 0 ELSE live'.id
           a == Shown
           b == Shown'
<1>1. EditorInv' /\ Effect
    BY NextStep
<1>2. ShownOK /\ ShownOK'
    BY <1>1, InvShown, InvShownNext
<1>3. /\ Placed(a, opened) /\ DOMAIN a = DOMAIN tabs /\ active \in Nat
      /\ (active # 0 <=> active \in DOMAIN tabs) /\ Len(a) = Len(tabs)
      /\ (active # 0 => a[active] = live) /\ opened \in 0..MaxIds
      /\ Placed(b, opened') /\ DOMAIN b = DOMAIN tabs' /\ active' \in Nat
      /\ (active' # 0 <=> active' \in DOMAIN tabs') /\ (active' = 0 <=> tabs' = <<>>)
      /\ (active' # 0 => b[active'] = live') /\ opened' \in 0..MaxIds
    BY <1>2 DEF ShownOK
<1>4. /\ D = DocsOf(a) /\ E = DocsOf(b)
      /\ DOMAIN D = Idents(a) /\ DOMAIN E = Idents(b)
      /\ D = [id \in DOMAIN D |-> D[id]] /\ E = [id \in DOMAIN E |-> E[id]]
    <2>1. D = DocsOf(a) /\ E = DocsOf(b)
        BY DocumentsAre
    <2> HIDE DEF D, E
    <2>2. DOMAIN D = Idents(a) /\ D = [id \in DOMAIN D |-> D[id]]
        BY <1>3, <2>1, DocsAre
    <2>3. DOMAIN E = Idents(b) /\ E = [id \in DOMAIN E |-> E[id]]
        BY <1>3, <2>1, DocsAre
    <2> QED
        BY <2>1, <2>2, <2>3
<1>5. MaxIds \in Nat
    BY EditorAssumption
<1>6. ASSUME NEW i \in DOMAIN a PROVE a[i].id \in 1..MaxIds /\ a[i].id \in DOMAIN D
    <2>1. a[i].id \in 1..opened
        BY <1>3 DEF Placed
    <2> QED
        BY <1>3, <1>4, <1>5, <2>1 DEF Idents
<1>7. active' # 0 => live'.id \in DOMAIN E
    BY <1>3, <1>4 DEF Idents
<1>8. active' = 0 => DOMAIN E = {}
    <2> SUFFICES ASSUME active' = 0 PROVE DOMAIN E = {}
        OBVIOUS
    <2>1. DOMAIN b = {}
        BY <1>3
    <2> QED
        BY <1>4, <2>1 DEF Idents
<1>9. ASSUME NEW k, Alike(D, E, k) PROVE Promise!Others(k)' = Promise!Others(k)
    BY <1>4, <1>9, OthersAlike
<1> DEFINE Stays == E = D /\ (active = 0 <=> active' = 0)
<1>10. CASE Stays
    <2>1. CASE active = 0
        BY <1>10, <2>1 DEF Promise!vars
    <2>2. CASE active # 0
        <3>1. T \in DOMAIN D
            BY <1>7, <1>10, <2>2
        <3>2. Promise!Show
            BY <1>10, <3>1 DEF Promise!Show
        <3> QED
            BY <3>2 DEF Promise!Next
    <2> QED
        BY <2>1, <2>2
<1>11. CASE Rearranged
    <2>1. b = a /\ (active = 0 <=> active' = 0)
        BY <1>11 DEF Rearranged
    <2>2. E = D
        BY ONLY <1>4, <2>1
    <2> QED
        BY <1>10, <2>1, <2>2
<1>12. CASE Edited
    <2>1. active # 0 /\ active' = active
        BY <1>12 DEF Edited
    <2>2. PICK t \in RawSet : t.id = live.id /\ b = [a EXCEPT ![active] = t]
        BY <1>12 DEF Edited
    <2>3. PICK k \in 1..MaxIds : k = live.id
        BY <1>3, <1>6, <2>1
    <2>4. active \in DOMAIN a /\ t.id = a[active].id /\ k = t.id
        BY <1>3, <2>1, <2>2, <2>3
    <2>5. /\ DOMAIN DocsOf(b) = DOMAIN DocsOf(a) /\ t.id \in DOMAIN DocsOf(a)
          /\ Alike(DocsOf(a), DocsOf(b), t.id)
        <3> DEFINE x == active
                   max == opened
                   top == opened'
        <3>1. /\ Placed(a, max) /\ Placed(b, top) /\ x \in DOMAIN a /\ t \in RawSet
              /\ t.id = a[x].id /\ DOMAIN b = DOMAIN a
              /\ \A i \in DOMAIN a : b[i] = IF i = x THEN t ELSE a[i]
            BY <1>3, <2>2, <2>4 DEF Placed
        <3> HIDE DEF a, b, x, max, top
        <3>2. /\ DOMAIN DocsOf(b) = DOMAIN DocsOf(a) /\ t.id \in DOMAIN DocsOf(a)
              /\ DocsOf(b)[t.id] = DocOf(t) /\ DocsOf(a)[t.id] = DocOf(a[x])
              /\ Alike(DocsOf(a), DocsOf(b), t.id)
            BY ONLY <3>1, DocsEdited
        <3> QED
            BY <3>2 DEF x
    <2>6. k \in DOMAIN E /\ Alike(D, E, k)
        BY <1>4, <2>4, <2>5
    <2>7. b[active] = t
        BY <1>3, <2>2, <2>4 DEF Placed
    <2>8. S = k /\ T = k
        BY <1>3, <2>1, <2>3, <2>4, <2>7
    <2>9. Promise!Edit(k)
        BY <2>6, <2>8 DEF Promise!Edit
    <2> QED
        BY <1>9, <2>3, <2>6, <2>9 DEF Promise!Next
<1>13. CASE Added
    <2>1. opened' = opened + 1 /\ active' = Len(tabs) + 1
        BY <1>13 DEF Added
    <2>2. PICK t \in RawSet : t.id = opened + 1 /\ b = Append(a, t)
        BY <1>13, <2>1 DEF Added
    <2>3. PICK k \in 1..MaxIds : k = opened + 1
        BY <1>3, <1>5, <2>1
    <2>4. /\ t.id \notin DOMAIN DocsOf(a) /\ t.id \in DOMAIN DocsOf(b)
          /\ Alike(DocsOf(a), DocsOf(b), t.id)
        <3>1. Placed(b, opened + 1) /\ opened \in Nat
            BY <1>3, <2>1
        <3> QED
            BY <1>3, <2>2, <3>1, DocsAdded
    <2>5. b[active'] = t /\ active' # 0
        <3>1. a \in Seq(RawSet)
            BY <1>3 DEF Placed
        <3> QED
            BY <1>3, <2>1, <2>2, <3>1, AppendIs
    <2>6. T = k
        BY <1>3, <2>2, <2>3, <2>5
    <2>7. k \notin DOMAIN D /\ k \in DOMAIN E /\ Alike(D, E, k)
        BY <1>4, <2>2, <2>3, <2>4
    <2>8. Promise!Open(k)
        BY <2>6, <2>7 DEF Promise!Open
    <2> QED
        BY <1>9, <2>3, <2>7, <2>8 DEF Promise!Next
<1>14. ASSUME NEW c \in DOMAIN tabs, Kept(c)
       PROVE  Promise!Next
    <2>1. active' # 0
        BY <1>14 DEF Kept
    <2>2. PICK t \in RawSet : /\ t.id = a[c].id /\ Range(t.entries) = Range(a[c].entries)
                              /\ ~t.dirty /\ b = [a EXCEPT ![c] = t]
        BY <1>14 DEF Kept
    <2>3. c \in DOMAIN a
        BY <1>3
    <2>4. PICK k \in 1..MaxIds : k = a[c].id
        BY <1>6, <2>3
    <2>5. /\ DOMAIN DocsOf(b) = DOMAIN DocsOf(a) /\ t.id \in DOMAIN DocsOf(a)
          /\ DocsOf(b)[t.id] = DocOf(t) /\ DocsOf(a)[t.id] = DocOf(a[c])
          /\ Alike(DocsOf(a), DocsOf(b), t.id)
        <3> DEFINE max == opened
                   top == opened'
        <3>1. /\ Placed(a, max) /\ Placed(b, top) /\ c \in DOMAIN a /\ t \in RawSet
              /\ t.id = a[c].id /\ DOMAIN b = DOMAIN a
              /\ \A i \in DOMAIN a : b[i] = IF i = c THEN t ELSE a[i]
            BY <1>3, <2>2, <2>3 DEF Placed
        <3> HIDE DEF a, b, max, top
        <3>2. /\ DOMAIN DocsOf(b) = DOMAIN DocsOf(a) /\ t.id \in DOMAIN DocsOf(a)
              /\ DocsOf(b)[t.id] = DocOf(t) /\ DocsOf(a)[t.id] = DocOf(a[c])
              /\ Alike(DocsOf(a), DocsOf(b), t.id)
            BY ONLY <3>1, DocsEdited
        <3> QED
            BY <3>2
    <2>6. /\ DOMAIN E = DOMAIN D /\ k \in DOMAIN D /\ Alike(D, E, k)
          /\ E[k] = DocOf(t) /\ D[k] = DocOf(a[c])
        BY <1>4, <2>2, <2>4, <2>5
    <2>7. E[k].text = D[k].text /\ ~E[k].dirty
        BY <2>2, <2>6 DEF DocOf
    <2>8. T \in DOMAIN D
        BY <1>7, <2>1, <2>6
    <2>9. Promise!Save(k)
        BY <2>6, <2>7, <2>8 DEF Promise!Save
    <2> QED
        BY <1>9, <2>4, <2>6, <2>9 DEF Promise!Next
<1>15. ASSUME NEW r \in DOMAIN tabs, Removed(r)
       PROVE  Promise!Next
    <2>1. r \in DOMAIN a /\ Without(a, b, r)
        BY <1>3, <1>15 DEF Removed
    <2>2. PICK k \in 1..MaxIds : k = a[r].id
        BY <1>6, <2>1
    <2>3. /\ a[r].id \in DOMAIN DocsOf(a) /\ a[r].id \notin DOMAIN DocsOf(b)
          /\ Alike(DocsOf(a), DocsOf(b), a[r].id)
        BY <1>3, <2>1, DocsRemoved
    <2>4. k \in DOMAIN D /\ k \notin DOMAIN E /\ Alike(D, E, k)
        BY <1>4, <2>2, <2>3
    <2>5. T \in DOMAIN E \/ DOMAIN E = {}
        BY <1>7, <1>8
    <2>6. Promise!Close(k)
        BY <2>4, <2>5 DEF Promise!Close
    <2> QED
        BY <1>9, <2>2, <2>4, <2>6 DEF Promise!Next
<1> QED
    BY <1>1, <1>11, <1>12, <1>13, <1>14, <1>15 DEF Effect

\* sync_current_tab, load_tab, switch_tab, close_tab: the tabs keep the promise
\* of a workspace; showing, opening and closing never changes a document,
\* however its copies travel.
THEOREM PromiseKept == Spec => KeepsPromise
<1>1. Init => Promise!Init
    BY PromiseInit
<1>2. EditorInv /\ [Next]_vars => [Promise!Next]_(Promise!vars)
    BY PromiseStep
<1> QED
    BY <1>1, <1>2, EditorInvariant, PTL DEF Spec, KeepsPromise, Promise!Spec
=============================================================================
