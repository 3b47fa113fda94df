---------------------------- MODULE HashTable_proofs ----------------------------
(***************************************************************************)
(* The functions of hash_table.c for every set of ids, size of the table   *)
(* and hash: a sound table stays sound, and each function does to the      *)
(* content of the table what it does to a map.                             *)
(***************************************************************************)
EXTENDS HashTable, FiniteSetTheorems, FunctionTheorems, TLAPS

-----------------------------------------------------------------------------
(* The smallest element of a set of indices.                               *)

LEMMA FiniteCells ==
  ASSUME NEW n \in Nat
  PROVE  IsFiniteSet(0..n)
BY FS_Interval

\* A set of numbers within a bound has a smallest element: no strictly smaller
\* initial segment of it is left.
LEMMA SmallestExists ==
  ASSUME NEW n \in Nat, NEW S \in SUBSET (0..n), S # {}
  PROVE  \E i \in S : \A j \in S : i <= j
<1> DEFINE Upto(x) == {y \in S : y <= x}
           Segments == {Upto(x) : x \in S}
<1>1. IsFiniteSet(S)
  BY FiniteCells, FS_Subset
<1>2. Segments \subseteq FiniteSubsetsOf(S)
  <2>1. FiniteSubsetsOf(S) = SUBSET S
    BY <1>1, FS_FiniteSubsetsOfFinite
  <2> QED
    BY <2>1
<1>3. Segments # {}
  OBVIOUS
<1>4. IsWellFoundedOn(StrictSubsetOrdering(S), FiniteSubsetsOf(S))
  BY FS_StrictSubsetOrderingWellFounded
<1> HIDE DEF Segments
<1>5. PICK T \in Segments : \A U \in Segments : <<U, T>> \notin StrictSubsetOrdering(S)
  BY <1>2, <1>3, <1>4, WFMin
<1> USE DEF Segments
<1>6. PICK x \in S : T = Upto(x)
  OBVIOUS
<1>7. ASSUME NEW y \in S, y < x PROVE FALSE
  <2> S \subseteq Int
    OBVIOUS
  <2>1. Upto(y) \subseteq T /\ x \in T /\ x \notin Upto(y)
    <3>1. \A z \in S : z <= y => z <= x
      BY <1>7
    <3>2. x <= x /\ ~(x <= y)
      BY <1>7
    <3>3. T = Upto(x) /\ x \in S /\ y \in S
      BY <1>6
    <3>4. Upto(y) \subseteq T
      BY <3>1, <3>3
    <3>5. x \in T
      BY <3>2, <3>3
    <3>6. x \notin Upto(y)
      BY <3>2
    <3> QED
      BY <3>4, <3>5, <3>6
  <2>2. <<Upto(y), T>> \in StrictSubsetOrdering(S)
    BY <2>1, <1>6 DEF StrictSubsetOrdering
  <2> QED
    BY <2>2, <1>5
<1> QED
  BY <1>7

LEMMA FirstIs ==
  ASSUME NEW S \in SUBSET Cells, S # {}
  PROVE  First(S) \in S /\ \A j \in S : First(S) <= j
<1>1. Size - 1 \in Nat
  BY HashAssumption
<1>2. \E i \in S : \A j \in S : i <= j
  BY <1>1, SmallestExists DEF Cells
<1> QED
  BY <1>2 DEF First

-----------------------------------------------------------------------------
(* Entries and the probe sequence.                                         *)

EntryType == {Empty, Deleted} \cup {Occupied(id, n) : id \in Ids, n \in 0..MaxStock}

TableType(t) == t \in [entries : [Cells -> EntryType], count : Nat]

LEMMA EntryIs ==
  ASSUME NEW e \in EntryType
  PROVE  /\ e.status = "occupied" => e.id \in Ids /\ e.stock \in 0..MaxStock
                                     /\ e = Occupied(e.id, e.stock)
         /\ e.status # "occupied" <=> e \in {Empty, Deleted}
         /\ e # Empty <=> e.status # "empty"
BY DEF EntryType, Entry, Empty, Deleted, Occupied

LEMMA OccupiedIs ==
  ASSUME NEW id \in Ids, NEW n \in 0..MaxStock
  PROVE  /\ Occupied(id, n) \in EntryType
         /\ Occupied(id, n).status = "occupied"
         /\ Occupied(id, n).id = id /\ Occupied(id, n).stock = n
         /\ Occupied(id, n) # Empty
BY DEF EntryType, Entry, Empty, Deleted, Occupied

LEMMA DeletedIs ==
  Deleted \in EntryType /\ Deleted.status = "deleted" /\ Deleted # Empty
    /\ Empty \in EntryType /\ Empty.status = "empty"
BY DEF EntryType, Entry, Empty, Deleted

\* The probe sequence of an id visits every cell once.
LEMMA ProbeIs ==
  ASSUME NEW id \in Ids, NEW i \in Cells
  PROVE  /\ Probe(id, i) = IF Home[id] + i < Size THEN Home[id] + i ELSE Home[id] + i - Size
         /\ Probe(id, i) \in Cells
<1>1. Home[id] \in 0..(Size - 1) /\ Size \in Nat \ {0}
  BY HashAssumption
<1>2. \A h, k \in 0..(Size - 1) : /\ (h + k) % Size = IF h + k < Size THEN h + k ELSE h + k - Size
                                  /\ (h + k) % Size \in 0..(Size - 1)
  BY <1>1
<1> QED
  BY <1>1, <1>2 DEF Probe, Cells

LEMMA ProbeOnce ==
  ASSUME NEW id \in Ids, NEW i \in Cells, NEW j \in Cells, Probe(id, i) = Probe(id, j)
  PROVE  i = j
<1>1. Home[id] \in 0..(Size - 1) /\ Size \in Nat \ {0}
  BY HashAssumption
<1> QED
  BY <1>1, ProbeIs DEF Cells

LEMMA ProbeMeets ==
  ASSUME NEW id \in Ids, NEW c \in Cells
  PROVE  \E i \in Cells : Probe(id, i) = c
<1>1. Home[id] \in 0..(Size - 1) /\ Size \in Nat \ {0}
  BY HashAssumption
<1>2. CASE Home[id] <= c
  <2>1. c - Home[id] \in Cells
    BY <1>1, <1>2 DEF Cells
  <2> QED
    BY <1>1, <1>2, <2>1, ProbeIs DEF Cells
<1>3. CASE Home[id] > c
  <2>1. c + Size - Home[id] \in Cells
    BY <1>1, <1>3 DEF Cells
  <2> QED
    BY <1>1, <1>3, <2>1, ProbeIs DEF Cells
<1> QED
  BY <1>1, <1>2, <1>3 DEF Cells

LEMMA Before ==
  ASSUME NEW i \in Cells, NEW j \in 0..(i - 1)
  PROVE  j \in Cells /\ j < i
BY HashAssumption DEF Cells

-----------------------------------------------------------------------------
(* Sound tables, without counting.                                         *)

Occ(t) == {c \in Cells : t.entries[c].status = "occupied"}

\* No id has two entries ...
Single(t) == \A c, d \in Occ(t) : t.entries[c].id = t.entries[d].id => c = d

\* ... and no empty entry comes before an entry of an id in its probe sequence.
Chained(t) ==
  \A id \in Ids, i \in Cells : Holds(t, id, i) =>
    \A j \in 0..(i - 1) : t.entries[Probe(id, j)] # Empty

Neat(t) == Single(t) /\ Chained(t) /\ t.count = Cardinality(Occ(t))

LEMMA HeldIs ==
  ASSUME NEW t, NEW id \in Ids, NEW i \in Cells
  PROVE  Holds(t, id, i) <=> Probe(id, i) \in Held(t, id)
BY ProbeIs DEF Holds, Held

LEMMA AtMostOne ==
  ASSUME NEW S, IsFiniteSet(S)
  PROVE  Cardinality(S) <= 1 <=> \A x, y \in S : x = y
<1>1. ASSUME NEW x \in S, NEW y \in S, x # y, Cardinality(S) <= 1 PROVE FALSE
  <2>1. IsFiniteSet({x}) /\ Cardinality({x}) = 1
    BY FS_Singleton
  <2>2. Cardinality({x} \cup {y}) = 2
    BY <1>1, <2>1, FS_AddElement
  <2>3. {x} \cup {y} \in SUBSET S
    OBVIOUS
  <2>4. Cardinality({x} \cup {y}) <= Cardinality(S) /\ Cardinality(S) \in Nat
    BY <2>3, FS_Subset, FS_CardinalityType
  <2> QED
    BY <1>1, <2>2, <2>4
<1>2. ASSUME \A x, y \in S : x = y PROVE Cardinality(S) <= 1
  <2>1. CASE S = {}
    BY <2>1, FS_EmptySet
  <2>2. CASE S # {}
    <3>1. PICK x \in S : S = {x}
      BY <1>2, <2>2
    <3> QED
      BY <3>1, FS_Singleton
  <2> QED
    BY <2>1, <2>2
<1> QED
  BY <1>1, <1>2

LEMMA CellsFinite ==
  IsFiniteSet(Cells) /\ Cardinality(Cells) = Size
  /\ \A S \in SUBSET Cells : IsFiniteSet(S)
<1>1. IsFiniteSet(Cells) /\ Cardinality(Cells) = Size
  BY HashAssumption, FS_Interval DEF Cells
<1> QED
  BY <1>1, FS_Subset

LEMMA SameHolder ==
  ASSUME NEW t, Single(t), NEW id \in Ids, NEW c \in Held(t, id), NEW d \in Held(t, id)
  PROVE  c = d
BY DEF Single, Held, Occ

\* In a neat table the probe loop meets the entry of an id, and no other.
LEMMA HitsAre ==
  ASSUME NEW t, Single(t), Chained(t), NEW id \in Ids, NEW i \in Cells
  PROVE  i \in Hits(t, id) <=> Probe(id, i) \in Held(t, id)
<1>1. ASSUME i \in Hits(t, id) PROVE Probe(id, i) \in Held(t, id)
  BY <1>1, HeldIs DEF Hits, Visited
<1>2. ASSUME Probe(id, i) \in Held(t, id) PROVE i \in Hits(t, id)
  <2>1. Holds(t, id, i)
    BY <1>2, HeldIs
  <2>2. ASSUME NEW j \in 0..(i - 1)
        PROVE  ~Holds(t, id, j) /\ t.entries[Probe(id, j)] # Empty
    <3>1. j \in Cells /\ j # i
      BY Before, HashAssumption DEF Cells
    <3>2. t.entries[Probe(id, j)] # Empty
      BY <2>1 DEF Chained
    <3>3. ~Holds(t, id, j)
      BY <1>2, <3>1, HeldIs, SameHolder, ProbeOnce
    <3> QED
      BY <3>2, <3>3
  <2> QED
    BY <2>1, <2>2 DEF Hits, Visited
<1> QED
  BY <1>1, <1>2

LEMMA HitsExist ==
  ASSUME NEW t, Single(t), Chained(t), NEW id \in Ids
  PROVE  Hits(t, id) # {} <=> Held(t, id) # {}
<1>1. Hits(t, id) \subseteq Cells /\ Held(t, id) \subseteq Cells
  BY DEF Hits, Visited, Held
<1>2. Hits(t, id) # {} => Held(t, id) # {}
  BY <1>1, HitsAre
<1>3. ASSUME NEW c \in Held(t, id) PROVE Hits(t, id) # {}
  <2>1. PICK i \in Cells : Probe(id, i) = c
    BY <1>1, ProbeMeets
  <2> QED
    BY <2>1, HitsAre
<1> QED
  BY <1>2, <1>3

\* The cell hash_table_find ends at.
LEMMA HitCell ==
  ASSUME NEW t, Single(t), Chained(t), NEW id \in Ids, Hits(t, id) # {}
  PROVE  /\ Probe(id, First(Hits(t, id))) \in Held(t, id)
         /\ Probe(id, First(Hits(t, id))) = First(Held(t, id))
<1>1. Hits(t, id) \in SUBSET Cells /\ Held(t, id) \in SUBSET Cells
  BY DEF Hits, Visited, Held
<1>2. First(Hits(t, id)) \in Hits(t, id)
  BY <1>1, FirstIs
<1>3. Probe(id, First(Hits(t, id))) \in Held(t, id)
  BY <1>1, <1>2, HitsAre
<1>4. First(Held(t, id)) \in Held(t, id)
  BY <1>1, <1>3, FirstIs
<1> QED
  BY <1>3, <1>4, SameHolder

LEMMA SingleCounted ==
  ASSUME NEW t
  PROVE  (\A id \in Ids : Cardinality(Held(t, id)) <= 1)
           <=> \A id \in Ids : \A c, d \in Held(t, id) : c = d
<1>1. \A id \in Ids : IsFiniteSet(Held(t, id))
  BY CellsFinite DEF Held
<1> QED
  BY <1>1, AtMostOne

LEMMA SoundIsNeat ==
  ASSUME NEW t, TableType(t)
  PROVE  TableSound(t) <=> Neat(t)
<1>1. \A c \in Occ(t) : t.entries[c].id \in Ids
  BY EntryIs DEF Occ, TableType
<1>2. (\A id \in Ids : \A c, d \in Held(t, id) : c = d) <=> Single(t)
  BY <1>1 DEF Single, Held, Occ
<1>3. t.count = Cardinality(Occ(t)) <=>
        t.count = Cardinality({c \in Cells : t.entries[c].status = "occupied"})
  BY DEF Occ
<1>4. ASSUME Single(t), Chained(t)
      PROVE  \A id \in Ids : Held(t, id) # {} => Hits(t, id) # {}
  BY <1>4, HitsExist
<1>5. ASSUME Single(t), \A id \in Ids : Held(t, id) # {} => Hits(t, id) # {}
      PROVE  Chained(t)
  <2> SUFFICES ASSUME NEW id \in Ids, NEW i \in Cells, Holds(t, id, i), NEW j \in 0..(i - 1)
               PROVE  t.entries[Probe(id, j)] # Empty
    BY DEF Chained
  <2>1. Probe(id, i) \in Held(t, id)
    BY HeldIs
  <2>2. PICK k \in Hits(t, id) : TRUE
    BY <1>5, <2>1
  <2>3. k \in Cells /\ Probe(id, k) \in Held(t, id)
    BY <2>2, HeldIs DEF Hits, Visited
  <2>4. k = i
    BY <1>5, <2>1, <2>3, SameHolder, ProbeOnce
  <2> QED
    BY <2>2, <2>4 DEF Hits, Visited
<1> QED
  BY <1>2, <1>3, <1>4, <1>5, SingleCounted DEF TableSound, Neat

-----------------------------------------------------------------------------
(* What a table holds.                                                     *)

Products(t) == DOMAIN Content(t)

LEMMA ContentIs ==
  ASSUME NEW t
  PROVE  /\ Products(t) = {x \in Ids : Held(t, x) # {}}
         /\ \A x \in Products(t) : Content(t)[x] = t.entries[First(Held(t, x))].stock
BY DEF Products, Content

LEMMA ContentAt ==
  ASSUME NEW t, Single(t), NEW x \in Ids, NEW c \in Held(t, x)
  PROVE  x \in Products(t) /\ Content(t)[x] = t.entries[c].stock
<1>1. Held(t, x) \in SUBSET Cells
  BY DEF Held
<1>2. First(Held(t, x)) \in Held(t, x)
  BY <1>1, FirstIs
<1>3. First(Held(t, x)) = c
  BY <1>2, SameHolder
<1> QED
  BY <1>3, ContentIs

\* Two tables that hold the same stock for every id of the second have the same
\* content.
LEMMA ContentOf ==
  ASSUME NEW u, NEW f, Single(u), DOMAIN f \subseteq Ids, f = [x \in DOMAIN f |-> f[x]],
         \A x \in Ids : Held(u, x) # {} <=> x \in DOMAIN f,
         \A x \in DOMAIN f : \A c \in Held(u, x) : u.entries[c].stock = f[x]
  PROVE  Content(u) = f
<1>1. Products(u) = DOMAIN f
  BY ContentIs
<1>2. \A x \in DOMAIN f : Content(u)[x] = f[x]
  BY <1>1, ContentIs, ContentAt
<1>3. Content(u) = [x \in Products(u) |-> Content(u)[x]]
  BY DEF Content, Products
<1> QED
  BY <1>1, <1>2, <1>3

LEMMA EmptyIsNeat ==
  TableType(EmptyTable) /\ Neat(EmptyTable) /\ Content(EmptyTable) = [x \in {} |-> 0]
<1>1. \A c \in Cells : EmptyTable.entries[c] = Empty
  BY DEF EmptyTable
<1>2. Occ(EmptyTable) = {} /\ \A x \in Ids : Held(EmptyTable, x) = {}
  BY <1>1, DeletedIs DEF Occ, Held
<1>3. TableType(EmptyTable) /\ EmptyTable.count = 0
  BY DeletedIs DEF EmptyTable, TableType
<1>4. Neat(EmptyTable)
  BY <1>2, <1>3, FS_EmptySet, HeldIs DEF Neat, Single, Chained
<1>5. {x \in Ids : Held(EmptyTable, x) # {}} = {}
  BY <1>2
<1>6. Content(EmptyTable) = [x \in {} |-> 0]
  BY <1>5 DEF Content
<1> QED
  BY <1>3, <1>4, <1>6

-----------------------------------------------------------------------------
(* The three ways to change an entry.                                      *)

Put(t, c, entry, n) == [entries |-> [t.entries EXCEPT ![c] = entry], count |-> n]

LEMMA PutIs ==
  ASSUME NEW t, TableType(t), NEW c \in Cells, NEW entry \in EntryType, NEW n \in Nat
  PROVE  /\ TableType(Put(t, c, entry, n))
         /\ Put(t, c, entry, n).count = n
         /\ Put(t, c, entry, n).entries[c] = entry
         /\ \A d \in Cells \ {c} : Put(t, c, entry, n).entries[d] = t.entries[d]
BY DEF TableType, Put

\* What the calls do to a map of stocks.
With(f, id, n) == [x \in DOMAIN f \cup {id} |-> IF x = id THEN n ELSE f[x]]
Without(f, id) == [x \in DOMAIN f \ {id} |-> f[x]]

\* The stock of a product changes.
LEMMA PutOver ==
  ASSUME NEW t, TableType(t), Neat(t), NEW id \in Ids, NEW c \in Held(t, id),
         NEW n \in 0..MaxStock
  PROVE  LET u == Put(t, c, Occupied(id, n), t.count)
         IN  /\ TableType(u) /\ Neat(u)
             /\ Content(u) = With(Content(t), id, n)
             /\ Products(u) = Products(t)
<1> DEFINE u == Put(t, c, Occupied(id, n), t.count)
           f == With(Content(t), id, n)
<1>1. c \in Cells /\ t.entries[c].status = "occupied" /\ t.entries[c].id = id
  BY DEF Held
<1>2. /\ TableType(u) /\ u.count = t.count
      /\ u.entries[c] = Occupied(id, n)
      /\ \A d \in Cells \ {c} : u.entries[d] = t.entries[d]
  BY <1>1, PutIs, OccupiedIs DEF TableType
<1> HIDE DEF u
\* Which entries are occupied, and by whom, does not change.
<1>3. \A d \in Cells : /\ u.entries[d].status = t.entries[d].status
                       /\ t.entries[d].status = "occupied" => u.entries[d].id = t.entries[d].id
  BY <1>1, <1>2, OccupiedIs
<1>4. Occ(u) = Occ(t) /\ \A x \in Ids : Held(u, x) = Held(t, x)
  BY <1>3 DEF Occ, Held
<1>5. Single(u)
  BY <1>3, <1>4 DEF Neat, Single, Occ
<1>6. Chained(u)
  <2> SUFFICES ASSUME NEW x \in Ids, NEW i \in Cells, Holds(u, x, i), NEW j \in 0..(i - 1)
               PROVE  u.entries[Probe(x, j)] # Empty
    BY DEF Chained
  <2>1. Holds(t, x, i)
    BY <1>4, HeldIs
  <2>2. t.entries[Probe(x, j)] # Empty
    BY <2>1 DEF Neat, Chained
  <2> QED
    BY <1>2, <2>2, OccupiedIs, ProbeIs, Before
<1>7. Neat(u)
  BY <1>2, <1>4, <1>5, <1>6 DEF Neat
<1>8. Single(t)
  BY DEF Neat
<1>9. DOMAIN f = Products(t) /\ Products(t) \subseteq Ids /\ id \in Products(t)
  BY <1>8, ContentAt, ContentIs DEF Products, With
<1>10. \A x \in Ids : Held(u, x) # {} <=> x \in Products(t)
  BY <1>4, ContentIs
<1>11. \A x \in Products(t) : \A d \in Held(u, x) : u.entries[d].stock = f[x]
  <2> SUFFICES ASSUME NEW x \in Products(t), NEW d \in Held(u, x)
               PROVE  u.entries[d].stock = f[x]
    OBVIOUS
  <2>1. x \in Ids /\ d \in Held(t, x) /\ d \in Cells
    BY <1>4, <1>9 DEF Held
  <2>2. CASE x = id
    <3>1. d = c
      BY <1>8, <2>1, <2>2, SameHolder
    <3>2. f[x] = n
      BY <1>9, <2>2 DEF Products, With
    <3> QED
      BY <1>2, <3>1, <3>2, OccupiedIs
  <2>3. CASE x # id
    <3>1. d # c
      BY <1>1, <2>1, <2>3 DEF Held
    <3>2. f[x] = Content(t)[x]
      BY <1>9, <2>3 DEF Products, With
    <3>3. Content(t)[x] = t.entries[d].stock
      BY <1>8, <2>1, ContentAt
    <3> QED
      BY <1>2, <2>1, <3>1, <3>2, <3>3
  <2> QED
    BY <2>2, <2>3
<1>12. f = [x \in DOMAIN f |-> f[x]]
  BY DEF With
<1> HIDE DEF f
<1>13. Content(u) = f
  BY <1>5, <1>9, <1>10, <1>11, <1>12, ContentOf
<1> QED
  BY <1>2, <1>7, <1>9, <1>13 DEF u, f, Products

\* A product that the table does not hold fills a free entry of its probe
\* sequence, before the first empty one.
LEMMA PutNew ==
  ASSUME NEW t, TableType(t), Neat(t), NEW id \in Ids, Held(t, id) = {},
         NEW k \in Visited(t, id), t.entries[Probe(id, k)] \in {Empty, Deleted},
         NEW n \in 0..MaxStock
  PROVE  LET u == Put(t, Probe(id, k), Occupied(id, n), t.count + 1)
         IN  /\ TableType(u) /\ Neat(u)
             /\ Content(u) = With(Content(t), id, n)
<1> DEFINE c == Probe(id, k)
           u == Put(t, c, Occupied(id, n), t.count + 1)
           f == [x \in Products(t) \cup {id} |-> IF x = id THEN n ELSE Content(t)[x]]
<1>1. /\ k \in Cells /\ c \in Cells /\ t.entries[c].status # "occupied"
      /\ \A j \in 0..(k - 1) : t.entries[Probe(id, j)] # Empty
  BY ProbeIs, DeletedIs, EntryIs DEF Visited, TableType
<1>2. /\ TableType(u) /\ u.count = t.count + 1
      /\ u.entries[c] = Occupied(id, n)
      /\ \A d \in Cells \ {c} : u.entries[d] = t.entries[d]
  <2>1. t.count + 1 \in Nat /\ Occupied(id, n) \in EntryType
    BY OccupiedIs DEF TableType
  <2> HIDE DEF c
  <2> QED
    BY <1>1, <2>1, PutIs
<1> HIDE DEF u, c
<1>3. Occ(u) = Occ(t) \cup {c} /\ c \notin Occ(t)
  BY <1>1, <1>2, OccupiedIs DEF Occ
<1>4. Held(u, id) = {c}
  BY <1>1, <1>2, OccupiedIs DEF Held
<1>5. \A x \in Ids \ {id} : Held(u, x) = Held(t, x)
  BY <1>1, <1>2, OccupiedIs DEF Held
<1>6. Single(u)
  <2> SUFFICES ASSUME NEW d \in Occ(u), NEW e \in Occ(u), u.entries[d].id = u.entries[e].id
               PROVE  d = e
    BY DEF Single
  <2>1. d \in Held(u, u.entries[d].id) /\ e \in Held(u, u.entries[d].id)
          /\ u.entries[d].id \in Ids
    BY <1>2, EntryIs DEF Held, Occ, TableType
  <2>2. CASE u.entries[d].id = id
    BY <1>4, <2>1, <2>2
  <2>3. CASE u.entries[d].id # id
    <3>1. d \in Held(t, u.entries[d].id) /\ e \in Held(t, u.entries[d].id)
      BY <1>5, <2>1, <2>3
    <3> QED
      BY <2>1, <3>1, SameHolder DEF Neat
  <2> QED
    BY <2>2, <2>3
<1>7. \A d \in Cells : t.entries[d] # Empty => u.entries[d] # Empty
  BY <1>2, OccupiedIs
<1>8. Chained(u)
  <2> SUFFICES ASSUME NEW x \in Ids, NEW i \in Cells, Holds(u, x, i), NEW j \in 0..(i - 1)
               PROVE  u.entries[Probe(x, j)] # Empty
    BY DEF Chained
  <2>1. Probe(x, i) \in Held(u, x) /\ Probe(x, j) \in Cells
    BY HeldIs, ProbeIs, Before
  <2>2. CASE x = id
    <3>1. Probe(id, i) = Probe(id, k)
      BY <1>4, <2>1, <2>2 DEF c
    <3>2. i = k
      BY <1>1, <3>1, ProbeOnce
    <3> QED
      BY <1>1, <1>7, <2>1, <2>2, <3>2
  <2>3. CASE x # id
    <3>1. Holds(t, x, i)
      BY <1>5, <2>1, <2>3, HeldIs
    <3>2. t.entries[Probe(x, j)] # Empty
      BY <3>1 DEF Neat, Chained
    <3> QED
      BY <1>7, <2>1, <3>2
  <2> QED
    BY <2>2, <2>3
<1>9. u.count = Cardinality(Occ(u))
  <2>1. IsFiniteSet(Occ(t))
    BY CellsFinite DEF Occ
  <2> QED
    BY <1>2, <1>3, <2>1, FS_AddElement DEF Neat
<1>10. Products(t) \subseteq Ids /\ id \notin Products(t)
  BY ContentIs
<1>11. DOMAIN f = Products(t) \cup {id} /\ f = [x \in DOMAIN f |-> f[x]]
  OBVIOUS
<1>12. \A x \in Ids : Held(u, x) # {} <=> x \in DOMAIN f
  BY <1>4, <1>5, <1>11, ContentIs
<1>13. \A x \in DOMAIN f : \A d \in Held(u, x) : u.entries[d].stock = f[x]
  <2> SUFFICES ASSUME NEW x \in DOMAIN f, NEW d \in Held(u, x)
               PROVE  u.entries[d].stock = f[x]
    OBVIOUS
  <2>1. CASE x = id
    BY <1>2, <1>4, <1>11, <2>1, OccupiedIs
  <2>2. CASE x # id
    <3>1. x \in Ids /\ x \in Products(t) /\ d \in Held(t, x) /\ d \in Cells
      BY <1>5, <1>10, <1>11, <2>2 DEF Held
    <3>2. d # c
      BY <1>1, <3>1 DEF Held
    <3>3. Content(t)[x] = t.entries[d].stock
      BY <3>1, ContentAt DEF Neat
    <3> QED
      BY <1>2, <1>11, <2>2, <3>1, <3>2, <3>3
  <2> QED
    BY <2>1, <2>2
<1> HIDE DEF f
<1>14. Content(u) = f
  <2>1. DOMAIN f \subseteq Ids
    BY <1>10, <1>11
  <2> QED
    BY <1>6, <1>11, <1>12, <1>13, <2>1, ContentOf
<1> QED
  BY <1>2, <1>6, <1>8, <1>9, <1>14 DEF u, f, c, Neat, With, Products

\* A product leaves a tombstone.
LEMMA TakeOut ==
  ASSUME NEW t, TableType(t), Neat(t), NEW id \in Ids, NEW c \in Held(t, id)
  PROVE  LET u == Put(t, c, Deleted, t.count - 1)
         IN  /\ TableType(u) /\ Neat(u)
             /\ Content(u) = Without(Content(t), id)
<1> DEFINE u == Put(t, c, Deleted, t.count - 1)
           f == [x \in Products(t) \ {id} |-> Content(t)[x]]
<1>1. c \in Cells /\ c \in Occ(t) /\ t.entries[c].status = "occupied" /\ t.entries[c].id = id
  BY DEF Held, Occ
<1>2. IsFiniteSet(Occ(t)) /\ Cardinality(Occ(t)) = t.count /\ t.count \in Nat
  BY CellsFinite DEF Occ, Neat, TableType
<1>3. Cardinality(Occ(t) \ {c}) = t.count - 1 /\ t.count - 1 \in Nat
  <2>1. IsFiniteSet(Occ(t) \ {c}) /\ Cardinality(Occ(t) \ {c}) = Cardinality(Occ(t)) - 1
    BY <1>1, <1>2, FS_RemoveElement
  <2>2. Cardinality(Occ(t) \ {c}) \in Nat
    BY <2>1, FS_CardinalityType
  <2> QED
    BY <1>2, <2>1, <2>2
<1>4. /\ TableType(u) /\ u.count = t.count - 1 /\ u.entries[c] = Deleted
      /\ \A d \in Cells \ {c} : u.entries[d] = t.entries[d]
  BY <1>1, <1>3, PutIs, DeletedIs
<1> HIDE DEF u
<1>5. Occ(u) = Occ(t) \ {c}
  BY <1>1, <1>4, DeletedIs DEF Occ
<1>6. Held(u, id) = {}
  <2>1. \A d \in Held(u, id) : d \in Held(t, id) /\ d # c
    BY <1>4, DeletedIs DEF Held
  <2> QED
    BY <2>1, SameHolder DEF Neat
<1>7. \A x \in Ids \ {id} : Held(u, x) = Held(t, x)
  BY <1>1, <1>4, DeletedIs DEF Held
<1>8. Single(u)
  <2> SUFFICES ASSUME NEW d \in Occ(u), NEW e \in Occ(u), u.entries[d].id = u.entries[e].id
               PROVE  d = e
    BY DEF Single
  <2>1. d \in Occ(t) /\ e \in Occ(t) /\ d \in Cells \ {c} /\ e \in Cells \ {c}
    BY <1>5 DEF Occ
  <2> QED
    BY <1>4, <2>1 DEF Neat, Single
<1>9. Chained(u)
  <2> SUFFICES ASSUME NEW x \in Ids, NEW i \in Cells, Holds(u, x, i), NEW j \in 0..(i - 1)
               PROVE  u.entries[Probe(x, j)] # Empty
    BY DEF Chained
  <2>1. Probe(x, i) \in Held(u, x) /\ Probe(x, j) \in Cells
    BY HeldIs, ProbeIs, Before
  <2>2. Holds(t, x, i)
    BY <1>6, <1>7, <2>1, HeldIs
  <2>3. t.entries[Probe(x, j)] # Empty
    BY <2>2 DEF Neat, Chained
  <2> QED
    BY <1>4, <2>1, <2>3, DeletedIs
<1>10. Neat(u)
  BY <1>3, <1>4, <1>5, <1>8, <1>9 DEF Neat
<1>11. DOMAIN f = Products(t) \ {id} /\ f = [x \in DOMAIN f |-> f[x]] /\ DOMAIN f \subseteq Ids
  BY ContentIs
<1>12. \A x \in Ids : Held(u, x) # {} <=> x \in DOMAIN f
  BY <1>6, <1>7, <1>11, ContentIs
<1>13. \A x \in DOMAIN f : \A d \in Held(u, x) : u.entries[d].stock = f[x]
  <2> SUFFICES ASSUME NEW x \in DOMAIN f, NEW d \in Held(u, x)
               PROVE  u.entries[d].stock = f[x]
    OBVIOUS
  <2>1. x \in Ids /\ x # id /\ d \in Held(t, x) /\ d \in Cells
    BY <1>7, <1>11 DEF Held
  <2>2. d # c
    BY <1>1, <2>1 DEF Held
  <2>3. Content(t)[x] = t.entries[d].stock
    BY <2>1, ContentAt DEF Neat
  <2> QED
    BY <1>4, <1>11, <2>1, <2>2, <2>3
<1> HIDE DEF f
<1>14. Content(u) = f
  BY <1>8, <1>11, <1>12, <1>13, ContentOf
<1> QED
  BY <1>4, <1>10, <1>14 DEF u, f, Without, Products

-----------------------------------------------------------------------------
(* The functions of hash_table.c.                                          *)

\* hash_table_find returns the entry of the product, or nothing.
LEMMA FindIs ==
  ASSUME NEW t, TableType(t), Neat(t), NEW id \in Ids
  PROVE  /\ Find(t, id) # Empty <=> id \in Products(t)
         /\ id \in Products(t) => /\ Find(t, id).stock = Content(t)[id]
                                  /\ Find(t, id).stock \in 0..MaxStock
<1>1. Single(t) /\ Chained(t)
  BY DEF Neat
<1>2. CASE Held(t, id) = {}
  BY <1>1, <1>2, HitsExist, ContentIs DEF Find
<1>3. CASE Held(t, id) # {}
  <2>1. Hits(t, id) # {}
    BY <1>1, <1>3, HitsExist
  <2>2. PICK c \in Held(t, id) : Find(t, id) = t.entries[c]
    BY <1>1, <2>1, HitCell DEF Find
  <2>3. id \in Products(t) /\ Content(t)[id] = t.entries[c].stock
    BY <1>1, ContentAt
  <2>4. t.entries[c] \in EntryType /\ t.entries[c].status = "occupied"
    BY DEF Held, TableType
  <2> QED
    BY <2>2, <2>3, <2>4, EntryIs, DeletedIs
<1> QED
  BY <1>2, <1>3

\* Occupied entries and products are as many.
LEMMA CountIs ==
  ASSUME NEW t, TableType(t), Neat(t)
  PROVE  /\ IsFiniteSet(Products(t)) /\ Cardinality(Products(t)) = t.count
         /\ t.count <= Size
         /\ t.count < Size <=> \E c \in Cells : t.entries[c].status # "occupied"
<1> DEFINE f == [c \in Occ(t) |-> t.entries[c].id]
<1>1. Occ(t) \in SUBSET Cells /\ IsFiniteSet(Occ(t)) /\ t.count = Cardinality(Occ(t))
  BY CellsFinite DEF Occ, Neat
<1>2. \A c \in Occ(t) : t.entries[c].id \in Ids /\ c \in Held(t, t.entries[c].id)
  BY EntryIs DEF Occ, Held, TableType
<1>3. f \in [Occ(t) -> Products(t)]
  BY <1>2, ContentIs
<1>4. \A c, d \in Occ(t) : f[c] = f[d] => c = d
  BY DEF Neat, Single
<1>5. \A x \in Products(t) : \E c \in Occ(t) : f[c] = x
  <2> SUFFICES ASSUME NEW x \in Products(t) PROVE \E c \in Occ(t) : f[c] = x
    OBVIOUS
  <2>1. PICK c \in Held(t, x) : TRUE
    BY ContentIs
  <2> QED
    BY <2>1 DEF Held, Occ
<1>6. ExistsBijection(Occ(t), Products(t))
  <2> HIDE DEF f
  <2>1. f \in Bijection(Occ(t), Products(t))
    BY <1>3, <1>4, <1>5, Fun_IsBij
  <2> QED
    BY <2>1 DEF ExistsBijection
<1>7. IsFiniteSet(Products(t)) /\ Cardinality(Products(t)) = t.count
  BY <1>1, <1>6, FS_Bijection
<1>8. Cardinality(Occ(t)) <= Size /\ (Size = Cardinality(Occ(t)) => Cells = Occ(t))
  BY <1>1, CellsFinite, FS_Subset
<1>9. t.count <= Size /\ (t.count < Size <=> Occ(t) # Cells)
  BY <1>1, <1>8, CellsFinite, HashAssumption DEF TableType
<1> QED
  BY <1>7, <1>9 DEF Occ

\* hash_table_insert finds room for every product it holds, and for a new one
\* unless all the entries are occupied: no probe sequence misses a free entry.
LEMMA CanInsertIs ==
  ASSUME NEW t, TableType(t), Neat(t), NEW id \in Ids
  PROVE  CanInsert(t, id) <=> id \in Products(t) \/ t.count < Size
<1>1. Single(t) /\ Chained(t)
  BY DEF Neat
<1>2. CASE Held(t, id) # {}
  BY <1>1, <1>2, HitsExist, ContentIs DEF CanInsert, Targets
<1>3. CASE Held(t, id) = {}
  <2> DEFINE Free == {i \in Cells : t.entries[Probe(id, i)] \in {Empty, Deleted}}
  <2>1. Hits(t, id) = {} /\ id \notin Products(t)
    BY <1>1, <1>3, HitsExist, ContentIs
  <2>2. Targets(t, id) = {i \in Visited(t, id) : t.entries[Probe(id, i)] \in {Empty, Deleted}}
    BY <2>1 DEF Targets
  <2>3. ASSUME Targets(t, id) # {} PROVE t.count < Size
    <3>1. PICK i \in Cells : t.entries[Probe(id, i)] \in {Empty, Deleted}
      BY <2>2, <2>3 DEF Visited
    <3>2. Probe(id, i) \in Cells /\ t.entries[Probe(id, i)].status # "occupied"
      BY <3>1, ProbeIs, EntryIs DEF TableType
    <3> QED
      BY <3>2, CountIs
  <2>4. ASSUME t.count < Size PROVE Targets(t, id) # {}
    <3>1. PICK c \in Cells : t.entries[c].status # "occupied"
      BY <2>4, CountIs
    <3>2. PICK i \in Cells : Probe(id, i) = c
      BY ProbeMeets
    <3>3. i \in Free
      BY <3>1, <3>2, EntryIs DEF TableType
    <3>4. Free \in SUBSET Cells /\ Free # {}
      BY <3>3
    <3> HIDE DEF Free
    <3>5. First(Free) \in Free /\ \A j \in Free : First(Free) <= j
      BY <3>4, FirstIs
    <3> USE DEF Free
    <3>6. ASSUME NEW j \in 0..(First(Free) - 1)
          PROVE  ~Holds(t, id, j) /\ t.entries[Probe(id, j)] # Empty
      <4> HIDE DEF Free
      <4>1. First(Free) \in Cells
        BY <3>4, <3>5
      <4>2. j \in Cells /\ j < First(Free)
        BY <4>1, Before
      <4>3. j \notin Free
        BY <3>5, <4>1, <4>2, HashAssumption DEF Cells
      <4> USE DEF Free
      <4> QED
        BY <1>3, <4>2, <4>3, HeldIs
    <3>7. First(Free) \in Visited(t, id)
      BY <3>5, <3>6 DEF Visited
    <3> QED
      BY <2>2, <3>5, <3>7
  <2> QED
    BY <2>1, <2>3, <2>4 DEF CanInsert
<1> QED
  BY <1>2, <1>3

\* What hash_table_insert does to a neat table.
LEMMA InsertedIs ==
  ASSUME NEW t, TableType(t), Neat(t), NEW id \in Ids, NEW n \in 0..MaxStock
  PROVE  LET u == Inserted(t, id, n)
         IN  /\ TableType(u) /\ Neat(u)
             /\ ~CanInsert(t, id) => u = t
             /\ CanInsert(t, id) => Content(u) = With(Content(t), id, n)
<1>1. Single(t) /\ Chained(t) /\ t.count \in Nat
  BY DEF Neat, TableType
<1>2. CASE ~CanInsert(t, id)
  BY <1>2 DEF Inserted
<1>3. CASE CanInsert(t, id) /\ Hits(t, id) # {}
  <2> DEFINE c == Probe(id, First(Hits(t, id)))
  <2>1. c \in Held(t, id)
    BY <1>1, <1>3, HitCell
  <2>2. Inserted(t, id, n) = Put(t, c, Occupied(id, n), t.count)
    BY <1>3 DEF Inserted, Targets, Put
  <2> HIDE DEF c
  <2>3. id \in Products(t)
    BY <1>1, <2>1, ContentAt
  <2>4. LET u == Put(t, c, Occupied(id, n), t.count)
        IN  /\ TableType(u) /\ Neat(u)
            /\ Content(u) = With(Content(t), id, n)
    BY <2>1, PutOver
  <2> QED
    BY <1>3, <2>2, <2>4
<1>4. CASE CanInsert(t, id) /\ Hits(t, id) = {}
  <2> DEFINE k == First(Targets(t, id))
  <2>1. /\ Targets(t, id) = {i \in Visited(t, id) : t.entries[Probe(id, i)] \in {Empty, Deleted}}
        /\ Targets(t, id) \in SUBSET Cells /\ Targets(t, id) # {}
    BY <1>4 DEF Targets, Visited, CanInsert
  <2>2. k \in Targets(t, id)
    BY <2>1, FirstIs
  <2>3. k \in Visited(t, id) /\ t.entries[Probe(id, k)] \in {Empty, Deleted}
    BY <2>1, <2>2
  <2>4. Inserted(t, id, n) = Put(t, Probe(id, k), Occupied(id, n), t.count + 1)
    BY <1>4 DEF Inserted, Put
  <2> HIDE DEF k
  <2>5. Held(t, id) = {}
    BY <1>1, <1>4, HitsExist
  <2>6. LET u == Put(t, Probe(id, k), Occupied(id, n), t.count + 1)
        IN  /\ TableType(u) /\ Neat(u)
            /\ Content(u) = With(Content(t), id, n)
    BY <2>3, <2>5, PutNew
  <2> QED
    BY <1>4, <2>4, <2>6
<1> QED
  BY <1>2, <1>3, <1>4

\* What hash_table_remove does.
LEMMA RemovedIs ==
  ASSUME NEW t, TableType(t), Neat(t), NEW id \in Ids
  PROVE  LET u == Removed(t, id)
         IN  /\ TableType(u) /\ Neat(u)
             /\ Content(u) = Without(Content(t), id)
<1>1. Single(t) /\ Chained(t)
  BY DEF Neat
<1>2. CASE Hits(t, id) = {}
  <2>1. id \notin Products(t)
    BY <1>1, <1>2, HitsExist, ContentIs
  <2>2. Content(t) = Without(Content(t), id)
    <3>1. Products(t) \ {id} = Products(t)
      BY <2>1
    <3>2. Content(t) = [x \in Products(t) |-> Content(t)[x]]
      BY DEF Content, Products
    <3> QED
      BY <3>1, <3>2 DEF Without, Products
  <2> QED
    BY <1>2, <2>2 DEF Removed
<1>3. CASE Hits(t, id) # {}
  <2> DEFINE c == Probe(id, First(Hits(t, id)))
  <2>1. c \in Held(t, id)
    BY <1>1, <1>3, HitCell
  <2>2. Removed(t, id) = Put(t, c, Deleted, t.count - 1)
    BY <1>3 DEF Removed, Put
  <2> HIDE DEF c
  <2> QED
    BY <2>1, <2>2, TakeOut
<1> QED
  BY <1>2, <1>3

\* What a change of the stock through the pointer of hash_table_find does.
LEMMA UpdatedIs ==
  ASSUME NEW t, TableType(t), Neat(t), NEW id \in Ids, NEW n \in 0..MaxStock
  PROVE  LET u == Updated(t, id, n)
         IN  /\ TableType(u) /\ Neat(u) /\ Products(u) = Products(t)
             /\ Content(u) = IF id \in Products(t) THEN With(Content(t), id, n)
                             ELSE Content(t)
<1>1. Single(t) /\ Chained(t)
  BY DEF Neat
<1>2. CASE Hits(t, id) = {}
  <2>1. id \notin Products(t)
    BY <1>1, <1>2, HitsExist, ContentIs
  <2> QED
    BY <1>2, <2>1 DEF Updated
<1>3. CASE Hits(t, id) # {}
  <2> DEFINE c == Probe(id, First(Hits(t, id)))
  <2>1. c \in Held(t, id)
    BY <1>1, <1>3, HitCell
  <2>2. Updated(t, id, n) = [t EXCEPT !.entries[c].stock = n]
    BY <1>3 DEF Updated
  <2> HIDE DEF c
  <2>3. c \in Cells /\ t.entries[c] \in EntryType
          /\ t.entries[c].status = "occupied" /\ t.entries[c].id = id
    BY <2>1 DEF Held, TableType
  <2>4. t.entries[c] = Occupied(id, t.entries[c].stock)
    BY <2>3, EntryIs
  <2>5. [t.entries[c] EXCEPT !.stock = n] = Occupied(id, n)
    BY <2>4 DEF Occupied, Entry
  <2>6. t = [entries |-> t.entries, count |-> t.count]
    BY DEF TableType
  <2>7. [t EXCEPT !.entries[c].stock = n] = Put(t, c, Occupied(id, n), t.count)
    BY <2>5, <2>6 DEF Put
  <2>8. id \in Products(t)
    BY <1>1, <2>1, ContentAt
  <2>9. LET u == Put(t, c, Occupied(id, n), t.count)
        IN  /\ TableType(u) /\ Neat(u)
            /\ Content(u) = With(Content(t), id, n)
            /\ Products(u) = Products(t)
    BY <2>1, PutOver
  <2> QED
    BY <2>2, <2>7, <2>8, <2>9
<1> QED
  BY <1>2, <1>3
=============================================================================
