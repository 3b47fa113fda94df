---------------------------- MODULE ProductDb_proofs ----------------------------
(***************************************************************************)
(* product_db keeps RAM and NVS equal between two operations, loses no     *)
(* product and implements ProductStore, whatever fails and restarts, for   *)
(* every catalogue, hash function and size of the table.                   *)
(***************************************************************************)
EXTENDS ProductDb, HashTable_proofs

\* A table in which every product is found and counted once.
Good(t) == TableType(t) /\ Neat(t)

IsMap(f) == f = [x \in DOMAIN f |-> f[x]]

LEMMA ContentMaps ==
  ASSUME NEW t
  PROVE  IsMap(Content(t)) /\ Products(t) \subseteq Ids
BY DEF IsMap, Content, Products

-----------------------------------------------------------------------------
(* Undoing an operation gives back the stocks, though another entry.       *)

LEMMA MapUndoes ==
  ASSUME NEW f, IsMap(f), NEW id, NEW n
  PROVE  /\ id \notin DOMAIN f => Without(With(f, id, n), id) = f
         /\ id \in DOMAIN f => With(With(f, id, n), id, f[id]) = f
         /\ id \in DOMAIN f => With(Without(f, id), id, f[id]) = f
         /\ DOMAIN With(f, id, n) = DOMAIN f \cup {id}
         /\ DOMAIN Without(f, id) = DOMAIN f \ {id}
<1>1. DOMAIN With(f, id, n) = DOMAIN f \cup {id} /\ DOMAIN Without(f, id) = DOMAIN f \ {id}
  BY DEF With, Without
<1>2. ASSUME id \notin DOMAIN f PROVE Without(With(f, id, n), id) = f
  <2>1. DOMAIN With(f, id, n) \ {id} = DOMAIN f
    BY <1>1, <1>2
  <2>2. \A x \in DOMAIN f : With(f, id, n)[x] = f[x]
    BY <1>2 DEF With
  <2>3. Without(With(f, id, n), id) = [x \in DOMAIN With(f, id, n) \ {id} |-> With(f, id, n)[x]]
    BY DEF Without
  <2> QED
    BY <2>1, <2>2, <2>3 DEF IsMap
<1>3. ASSUME id \in DOMAIN f, NEW g, DOMAIN g \cup {id} = DOMAIN f,
             \A x \in DOMAIN f \ {id} : g[x] = f[x]
      PROVE  With(g, id, f[id]) = f
  <2>1. With(g, id, f[id]) = [x \in DOMAIN g \cup {id} |-> IF x = id THEN f[id] ELSE g[x]]
    BY DEF With
  <2>2. \A x \in DOMAIN f : (IF x = id THEN f[id] ELSE g[x]) = f[x]
    BY <1>3
  <2> QED
    BY <1>3, <2>1, <2>2 DEF IsMap
<1>4. id \in DOMAIN f => With(With(f, id, n), id, f[id]) = f
  <2>1. \A x \in DOMAIN f \ {id} : With(f, id, n)[x] = f[x]
    BY DEF With
  <2>2. id \in DOMAIN f => DOMAIN With(f, id, n) \cup {id} = DOMAIN f
    BY <1>1
  <2> QED
    BY <1>3, <2>1, <2>2
<1>5. id \in DOMAIN f => With(Without(f, id), id, f[id]) = f
  <2>1. \A x \in DOMAIN f \ {id} : Without(f, id)[x] = f[x]
    BY DEF Without
  <2>2. id \in DOMAIN f => DOMAIN Without(f, id) \cup {id} = DOMAIN f
    BY <1>1
  <2> QED
    BY <1>3, <2>1, <2>2
<1> QED
  BY <1>1, <1>2, <1>4, <1>5

LEMMA StocksUndo ==
  ASSUME NEW t, NEW id, NEW n
  PROVE  /\ id \notin Products(t) => Without(With(Content(t), id, n), id) = Content(t)
         /\ id \in Products(t) => With(With(Content(t), id, n), id, Content(t)[id]) = Content(t)
         /\ id \in Products(t) => With(Without(Content(t), id), id, Content(t)[id]) = Content(t)
         /\ DOMAIN With(Content(t), id, n) = Products(t) \cup {id}
         /\ DOMAIN Without(Content(t), id) = Products(t) \ {id}
BY ContentMaps, MapUndoes DEF Products

\* An insertion of a new product is undone by its removal.
LEMMA RemoveUndoes ==
  ASSUME NEW t, Good(t), NEW id \in Ids, NEW n \in 0..MaxStock,
         CanInsert(t, id), Find(t, id) = Empty
  PROVE  Content(Removed(Inserted(t, id, n), id)) = Content(t)
<1>1. Good(Inserted(t, id, n)) /\ Content(Inserted(t, id, n)) = With(Content(t), id, n)
  BY InsertedIs DEF Good
<1>2. Content(Removed(Inserted(t, id, n), id)) = Without(With(Content(t), id, n), id)
  BY <1>1, RemovedIs DEF Good
<1>3. id \notin Products(t)
  BY FindIs DEF Good
<1> QED
  BY <1>2, <1>3, StocksUndo

\* A change of a product that was held is undone by inserting it once more.
LEMMA InsertUndoes ==
  ASSUME NEW t, Good(t), NEW id \in Ids, NEW n \in 0..MaxStock, Find(t, id) # Empty
  PROVE  LET u == Inserted(t, id, n)
         IN  CanInsert(u, id) /\ Content(Inserted(u, id, Find(t, id).stock)) = Content(t)
<1> DEFINE u == Inserted(t, id, n)
           m == Find(t, id).stock
<1>1. id \in Products(t) /\ m = Content(t)[id] /\ m \in 0..MaxStock
  BY FindIs DEF Good
<1>2. CanInsert(t, id)
  BY <1>1, CanInsertIs DEF Good
<1>3. Good(u) /\ Content(u) = With(Content(t), id, n)
  BY <1>2, InsertedIs DEF Good
<1> HIDE DEF u, m
<1>4. id \in Products(u)
  <2>1. id \in DOMAIN With(Content(t), id, n)
    BY DEF With
  <2> QED
    BY <1>3, <2>1 DEF Products
<1>5. CanInsert(u, id)
  BY <1>3, <1>4, CanInsertIs DEF Good
<1>6. Content(Inserted(u, id, m)) = With(With(Content(t), id, n), id, Content(t)[id])
  BY <1>1, <1>3, <1>5, InsertedIs DEF Good
<1>7. Content(Inserted(u, id, m)) = Content(t)
  BY <1>1, <1>6, StocksUndo
<1> QED
  BY <1>5, <1>7 DEF u, m

\* A change of a stock is undone by changing it back.
LEMMA UpdateUndoes ==
  ASSUME NEW t, Good(t), NEW id \in Ids, NEW n \in 0..MaxStock, Find(t, id) # Empty
  PROVE  LET u == Updated(t, id, n)
         IN  id \in Products(u) /\ Content(Updated(u, id, Find(t, id).stock)) = Content(t)
<1> DEFINE u == Updated(t, id, n)
           m == Find(t, id).stock
<1>1. id \in Products(t) /\ m = Content(t)[id] /\ m \in 0..MaxStock
  BY FindIs DEF Good
<1>2. Good(u) /\ Products(u) = Products(t) /\ Content(u) = With(Content(t), id, n)
  BY <1>1, UpdatedIs DEF Good
<1> HIDE DEF u, m
<1>3. Content(Updated(u, id, m)) = With(With(Content(t), id, n), id, Content(t)[id])
  BY <1>1, <1>2, UpdatedIs DEF Good
<1>4. Content(Updated(u, id, m)) = Content(t)
  BY <1>1, <1>3, StocksUndo
<1> QED
  BY <1>1, <1>2, <1>4 DEF u, m

\* A removed product is inserted again: there is an entry for it.
LEMMA InsertUndoesRemoval ==
  ASSUME NEW t, Good(t), NEW id \in Ids, Find(t, id) # Empty
  PROVE  LET u == Removed(t, id)
         IN  CanInsert(u, id) /\ Content(Inserted(u, id, Find(t, id).stock)) = Content(t)
<1> DEFINE u == Removed(t, id)
           m == Find(t, id).stock
<1>1. id \in Products(t) /\ m = Content(t)[id] /\ m \in 0..MaxStock
  BY FindIs DEF Good
<1>2. Good(u) /\ Content(u) = Without(Content(t), id)
  BY RemovedIs DEF Good
<1> HIDE DEF u, m
<1>3. Products(u) = Products(t) \ {id}
  BY <1>2, StocksUndo DEF Products
<1>4. CanInsert(u, id)
  <2>1. /\ IsFiniteSet(Products(t)) /\ Cardinality(Products(t)) <= Size
        /\ Cardinality(Products(t)) = t.count
    BY CountIs DEF Good
  <2>2. Cardinality(Products(u)) = Cardinality(Products(t)) - 1
    BY <1>1, <1>3, <2>1, FS_RemoveElement
  <2>3. u.count = Cardinality(Products(u))
    BY <1>2, CountIs DEF Good
  <2>4. t.count \in Nat /\ Size \in Nat
    BY HashAssumption DEF Good, TableType
  <2>5. u.count < Size
    BY <2>1, <2>2, <2>3, <2>4
  <2> QED
    BY <1>2, <2>5, CanInsertIs DEF Good
<1>5. Content(Inserted(u, id, m)) = With(Without(Content(t), id), id, Content(t)[id])
  BY <1>1, <1>2, <1>4, InsertedIs DEF Good
<1>6. Content(Inserted(u, id, m)) = Content(t)
  BY <1>1, <1>5, StocksUndo
<1> QED
  BY <1>4, <1>6 DEF u, m

-----------------------------------------------------------------------------
(* Loading the catalogue.                                                  *)

\* One round keeps every stock, and adds the product with stock 0 if it is
\* missing and there is room.
LEMMA MergedIs ==
  ASSUME NEW t, Good(t), NEW id \in Ids
  PROVE  LET u == Merged(t, id)
         IN  /\ Good(u)
             /\ Content(u) = IF id \in Products(t) \/ t.count = Size THEN Content(t)
                             ELSE With(Content(t), id, 0)
<1>1. 0 \in 0..MaxStock /\ t.count \in Nat /\ Size \in Nat /\ t.count <= Size
  BY HashAssumption, CountIs DEF Good, TableType
<1>2. CASE id \in Products(t)
  <2> DEFINE m == Find(t, id).stock
  <2>1. m = Content(t)[id] /\ m \in 0..MaxStock /\ Merged(t, id) = Inserted(t, id, m)
    BY <1>2, FindIs DEF Good, Merged
  <2>2. CanInsert(t, id)
    BY <1>2, CanInsertIs DEF Good
  <2> HIDE DEF m
  <2>3. Good(Inserted(t, id, m)) /\ Content(Inserted(t, id, m)) = With(Content(t), id, m)
    BY <2>1, <2>2, InsertedIs DEF Good
  <2>4. With(Content(t), id, Content(t)[id]) = Content(t)
    BY <1>2, ContentMaps DEF With, IsMap, Products
  <2> QED
    BY <1>2, <2>1, <2>3, <2>4
<1>3. CASE id \notin Products(t) /\ t.count = Size
  <2>1. ~CanInsert(t, id)
    BY <1>1, <1>3, CanInsertIs DEF Good
  <2>2. Merged(t, id) = t
    BY <2>1 DEF Merged, Inserted
  <2> QED
    BY <1>3, <2>2
<1>4. CASE id \notin Products(t) /\ t.count # Size
  <2>1. CanInsert(t, id)
    BY <1>1, <1>4, CanInsertIs DEF Good
  <2>2. Merged(t, id) = Inserted(t, id, 0)
    BY <1>4, FindIs DEF Good, Merged
  <2>3. Good(Inserted(t, id, 0)) /\ Content(Inserted(t, id, 0)) = With(Content(t), id, 0)
    BY <1>1, <2>1, InsertedIs DEF Good
  <2> QED
    BY <1>4, <2>2, <2>3
<1> QED
  BY <1>2, <1>3, <1>4

\* f gives the table after each of the first k rounds that start with t.
Rounds(t, f, k) ==
  f = [n \in 0..k |-> IF n = 0 THEN t ELSE Merged(f[n - 1], Catalog[n])]

LEMMA RoundsExist ==
  ASSUME NEW t, NEW k \in Nat
  PROVE  \E f : Rounds(t, f, k)
<1> DEFINE S == {i \in 0..k : ~ \E f : Rounds(t, f, i)}
<1> SUFFICES ASSUME S # {} PROVE FALSE
  BY SMT
<1>1. PICK i \in S : \A j \in S : i <= j
  <2>1. S \in SUBSET (0..k)
    OBVIOUS
  <2> HIDE DEF S
  <2> QED
    BY <2>1, SmallestExists
<1>2. i \in 0..k /\ ~ \E f : Rounds(t, f, i)
  OBVIOUS
<1>3. CASE i = 0
  <2> DEFINE g == [n \in 0..0 |-> t]
  <2>1. Rounds(t, g, 0)
    BY DEF Rounds
  <2> QED
    BY <1>2, <1>3, <2>1
<1>4. CASE i # 0
  <2>1. i - 1 \in 0..k /\ i - 1 \notin S /\ i \in Nat /\ i - 1 \in Nat
    BY <1>1, <1>2, <1>4
  <2>2. PICK f : Rounds(t, f, i - 1)
    BY <2>1
  <2> DEFINE g == [n \in 0..i |-> IF n = i THEN Merged(f[i - 1], Catalog[i]) ELSE f[n]]
  <2>3. \A n \in 0..(i - 1) : f[n] = IF n = 0 THEN t ELSE Merged(f[n - 1], Catalog[n])
    BY <2>2 DEF Rounds
  <2>4. \A n \in 0..(i - 1) : n \in 0..i /\ n # i /\ g[n] = f[n]
    BY <2>1
  <2>5. \A n \in 0..i : g[n] = IF n = 0 THEN t ELSE Merged(g[n - 1], Catalog[n])
    <3> SUFFICES ASSUME NEW n \in 0..i
                 PROVE  g[n] = IF n = 0 THEN t ELSE Merged(g[n - 1], Catalog[n])
      OBVIOUS
    <3>1. CASE n = 0
      <4>1. 0 \in 0..(i - 1)
        BY <2>1
      <4> QED
        BY <3>1, <4>1, <2>3, <2>4
    <3>2. CASE n = i
      <4>1. i - 1 \in 0..(i - 1) /\ g[n] = Merged(f[i - 1], Catalog[i])
        BY <3>2, <2>1
      <4> HIDE DEF g
      <4> QED
        BY <3>2, <4>1, <2>4, <1>4
    <3>3. CASE n # 0 /\ n # i
      <4>1. n \in 0..(i - 1) /\ n - 1 \in 0..(i - 1)
        BY <3>3, <2>1
      <4> HIDE DEF g
      <4> QED
        BY <3>3, <4>1, <2>3, <2>4
    <3> QED
      BY <3>1, <3>2, <3>3
  <2>6. g = [n \in 0..i |-> g[n]]
    OBVIOUS
  <2> HIDE DEF g
  <2>7. Rounds(t, g, i)
    BY <2>5, <2>6 DEF Rounds
  <2> QED
    BY <1>2, <2>7
<1> QED
  BY <1>3, <1>4

\* u is t with products of the catalogue that t misses, at stock 0.
Extends(t, u) ==
  /\ Products(t) \subseteq Products(u)
  /\ Products(u) \subseteq Products(t) \cup ToSet(Catalog)
  /\ \A x \in Products(u) : Content(u)[x] = IF x \in Products(t) THEN Content(t)[x] ELSE 0

\* What the loop has done after the n-th round.
LoadedUpTo(t, u, n) ==
  /\ Good(u) /\ Extends(t, u)
  /\ u.count = Size \/ \A i \in 1..n : Catalog[i] \in Products(u)

LEMMA RoundIs ==
  ASSUME NEW t, NEW u, NEW n \in Nat, n + 1 \in 1..Len(Catalog), LoadedUpTo(t, u, n)
  PROVE  LoadedUpTo(t, Merged(u, Catalog[n + 1]), n + 1)
<1> DEFINE id == Catalog[n + 1]
           v == Merged(u, id)
<1>1. id \in Ids /\ id \in ToSet(Catalog)
  BY CatalogAssumption DEF ToSet
<1> HIDE DEF id
<1>2. Good(v) /\ Content(v) = IF id \in Products(u) \/ u.count = Size THEN Content(u)
                              ELSE With(Content(u), id, 0)
  BY <1>1, MergedIs DEF LoadedUpTo
<1> HIDE DEF v
<1>3. CASE id \in Products(u) \/ u.count = Size
  <2>1. Content(v) = Content(u) /\ Products(v) = Products(u)
    BY <1>2, <1>3 DEF Products
  <2>2. v.count = u.count
    BY <1>2, <2>1, CountIs DEF Good, LoadedUpTo
  <2>3. \A i \in 1..(n + 1) : i \in 1..n \/ i = n + 1
    OBVIOUS
  <2>4. v.count = Size \/ \A i \in 1..(n + 1) : Catalog[i] \in Products(v)
    BY <1>3, <2>1, <2>2, <2>3 DEF LoadedUpTo, id
  <2>5. Extends(t, v)
    BY <2>1 DEF LoadedUpTo, Extends
  <2> QED
    BY <1>2, <2>4, <2>5 DEF LoadedUpTo, v, id
<1>4. CASE id \notin Products(u) /\ u.count # Size
  <2>1. Content(v) = With(Content(u), id, 0)
    BY <1>2, <1>4
  <2>2. /\ Products(v) = Products(u) \cup {id}
        /\ \A x \in Products(v) : Content(v)[x] = IF x = id THEN 0 ELSE Content(u)[x]
    BY <2>1 DEF Products, With
  <2>3. \A i \in 1..(n + 1) : i \in 1..n \/ i = n + 1
    OBVIOUS
  <2>4. \A i \in 1..(n + 1) : Catalog[i] \in Products(v)
    BY <1>4, <2>2, <2>3 DEF LoadedUpTo, id
  <2>5. Extends(t, v)
    BY <1>1, <1>4, <2>2 DEF LoadedUpTo, Extends
  <2> QED
    BY <1>2, <2>4, <2>5 DEF LoadedUpTo, v, id
<1> QED
  BY <1>3, <1>4

\* product_db_load_catalog
LEMMA LoadedIs ==
  ASSUME NEW t, Good(t)
  PROVE  LoadedUpTo(t, Loaded(t), Len(Catalog))
<1> DEFINE f == CHOOSE f : Rounds(t, f, Len(Catalog))
           S == {n \in 0..Len(Catalog) : ~LoadedUpTo(t, f[n], n)}
<1>1. Len(Catalog) \in Nat
  BY CatalogAssumption
<1>2. Rounds(t, f, Len(Catalog))
  BY <1>1, RoundsExist
<1>3. Loaded(t) = f[Len(Catalog)]
  BY DEF Loaded, Rounds
<1> HIDE DEF f
<1>4. \A n \in 0..Len(Catalog) : f[n] = IF n = 0 THEN t ELSE Merged(f[n - 1], Catalog[n])
  BY <1>2 DEF Rounds
<1>5. ASSUME S # {} PROVE FALSE
  <2>1. PICK n \in S : \A j \in S : n <= j
    <3>1. S \in SUBSET (0..Len(Catalog))
      OBVIOUS
    <3> HIDE DEF S
    <3> QED
      BY <1>1, <1>5, <3>1, SmallestExists
  <2>2. n \in 0..Len(Catalog) /\ ~LoadedUpTo(t, f[n], n)
    OBVIOUS
  <2>3. CASE n = 0
    <3>1. f[0] = t
      BY <1>1, <1>4
    <3>2. LoadedUpTo(t, t, 0)
      BY DEF LoadedUpTo, Extends
    <3> QED
      BY <2>2, <2>3, <3>1, <3>2
  <2>4. CASE n # 0
    <3>1. n - 1 \in 0..Len(Catalog) /\ n - 1 \notin S /\ n - 1 \in Nat
          /\ (n - 1) + 1 = n /\ n \in 1..Len(Catalog)
      BY <1>1, <2>1, <2>2, <2>4
    <3>2. LoadedUpTo(t, f[n - 1], n - 1)
      BY <3>1
    <3>3. f[n] = Merged(f[n - 1], Catalog[n])
      BY <1>4, <2>2, <2>4
    <3> HIDE DEF S
    <3>4. LoadedUpTo(t, Merged(f[n - 1], Catalog[(n - 1) + 1]), (n - 1) + 1)
      BY <3>1, <3>2, RoundIs
    <3> QED
      BY <2>2, <3>1, <3>3, <3>4
  <2> QED
    BY <2>3, <2>4
<1>6. Len(Catalog) \in 0..Len(Catalog)
  BY <1>1
<1> QED
  BY <1>3, <1>5, <1>6

-----------------------------------------------------------------------------
(* The inductive invariant.                                                *)

TypeInv ==
  /\ phase \in {"off", "boot", "running"} /\ ready \in BOOLEAN /\ unsaved \in BOOLEAN
  /\ Good(table)
  /\ flash # Absent => Good(flash)

\* The operation that waits for its save can be undone.
Undoable(id, n) ==
  \/ op = Undo("remove", id, n)
  \/ op = Undo("insert", id, n) /\ CanInsert(table, id)
  \/ op = Undo("stock", id, n) /\ id \in Products(table)

\* The catalogue is in RAM and waits for its save.
CatalogWaits ==
  /\ op = Undo("catalog", NoId, 0)
  /\ table.count = Size \/ ToSet(Catalog) \subseteq Products(table)

OpInv ==
  \/ op = Done
  \/ /\ phase = "running"
     /\ CatalogWaits \/ \E id \in Ids, n \in 0..MaxStock : Undoable(id, n)

\* What an operation that fails gives back is what NVS holds.  Before NVS starts
\* nothing is saved, so there is nothing that its erase could take away.
SavedInv ==
  phase = "running" /\ op.kind # "catalog" /\ ~unsaved =>
    ready /\ flash # Absent /\ Content(flash) = Content(Undone)

\* A board without power has no NVS started.
OffInv == phase = "off" => ~ready

IInv == TypeInv /\ OpInv /\ SavedInv /\ OffInv

LEMMA UndoneIs ==
  /\ op = Done \/ op.kind = "catalog" => Undone = table
  /\ \A id, n : op = Undo("remove", id, n) => Undone = Removed(table, id)
  /\ \A id, n : op = Undo("insert", id, n) => Undone = Inserted(table, id, n)
  /\ \A id, n : op = Undo("stock", id, n) => Undone = Updated(table, id, n)
BY DEF Undone, Undo, Done

LEMMA UndoKinds ==
  ASSUME NEW kind, NEW id, NEW n
  PROVE  /\ Undo(kind, id, n).kind = kind /\ Undo(kind, id, n).id = id
         /\ Undo(kind, id, n).stock = n
         /\ Done.kind = "done" /\ Done.id = NoId /\ Done.stock = 0
BY DEF Undo, Done

\* What is given back differs from the table by one product.
LEMMA UndoneGood ==
  ASSUME TypeInv, OpInv
  PROVE  /\ Good(Undone)
         /\ op.kind # "catalog" =>
              \E id \in Ids : Without(Content(Undone), id) = Without(Content(table), id)
<1>1. CASE op = Done \/ CatalogWaits
  <2>1. Undone = table
    BY <1>1, UndoneIs, UndoKinds DEF CatalogWaits
  <2>2. op.kind # "catalog" => op = Done
    BY <1>1, UndoKinds DEF CatalogWaits
  <2>3. Ids # {}
    BY CatalogAssumption
  <2> QED
    BY <2>1, <2>3 DEF TypeInv
<1>2. ASSUME NEW id \in Ids, NEW n \in 0..MaxStock, Undoable(id, n)
      PROVE  Good(Undone) /\ Without(Content(Undone), id) = Without(Content(table), id)
  <2>1. Good(table)
    BY DEF TypeInv
  <2>2. CASE op = Undo("remove", id, n)
    <3>1. Undone = Removed(table, id)
      BY <2>2, UndoneIs
    <3>2. Good(Undone) /\ Content(Undone) = Without(Content(table), id)
      BY <2>1, <3>1, RemovedIs DEF Good
    <3> QED
      BY <3>2 DEF Without
  <2>3. CASE op = Undo("insert", id, n) /\ CanInsert(table, id)
    <3>1. Undone = Inserted(table, id, n)
      BY <2>3, UndoneIs
    <3>2. Good(Undone) /\ Content(Undone) = With(Content(table), id, n)
      BY <2>1, <2>3, <3>1, InsertedIs DEF Good
    <3> QED
      BY <3>2 DEF With, Without
  <2>4. CASE op = Undo("stock", id, n) /\ id \in Products(table)
    <3>1. Undone = Updated(table, id, n)
      BY <2>4, UndoneIs
    <3>2. Good(Undone) /\ Content(Undone) = With(Content(table), id, n)
      BY <2>1, <2>4, <3>1, UpdatedIs DEF Good
    <3> QED
      BY <3>2 DEF With, Without
  <2> QED
    BY <1>2, <2>2, <2>3, <2>4 DEF Undoable
<1> QED
  BY <1>1, <1>2 DEF OpInv

LEMMA IInvInit == Init => IInv
BY EmptyIsNeat DEF Init, IInv, TypeInv, OpInv, SavedInv, OffInv, Good

-----------------------------------------------------------------------------
(* The steps: each one keeps IInv, and changes what NVS holds and what the *)
(* board knows, Content(Undone), as said.                                  *)

LEMMA BeginStep ==
  ASSUME IInv, Idle, NEW t, NEW undo, Begin(t, undo), Good(t),
         NEW id \in Ids, NEW n \in 0..MaxStock, Undoable(id, n)',
         Content(Undone') = Content(table)
  PROVE  IInv' /\ UNCHANGED <<phase, flash, ready>> /\ Content(Undone') = Content(Undone)
<1>1. phase = "running" /\ op = Done /\ op.kind = "done"
  BY UndoKinds DEF Idle
<1>2. /\ table' = t /\ phase' = phase /\ ready' = ready /\ flash' = flash /\ unsaved' = unsaved
  BY DEF Begin
<1>3. Content(Undone') = Content(Undone)
  BY <1>1, UndoneIs
<1>4. TypeInv'
  BY <1>2 DEF IInv, TypeInv
<1>5. OpInv'
  BY <1>1, <1>2 DEF OpInv
<1>6. SavedInv'
  BY <1>1, <1>2, <1>3 DEF IInv, SavedInv
<1> QED
  BY <1>1, <1>2, <1>3, <1>4, <1>5, <1>6 DEF IInv, OffInv

LEMMA UpsertStep ==
  ASSUME IInv, NEW id \in Ids, NEW n \in 0..MaxStock, Upsert(id, n)
  PROVE  IInv' /\ UNCHANGED <<phase, flash, ready>> /\ Content(Undone') = Content(Undone)
<1> DEFINE t == Inserted(table, id, n)
<1>1. /\ Idle /\ CanInsert(table, id) /\ Begin(t, Upserting(id))
      /\ table' = t /\ op' = Upserting(id)
  BY DEF Upsert, Begin
<1>2. Good(table) /\ Good(t)
  BY InsertedIs DEF IInv, TypeInv, Good
<1>3. CASE Find(table, id) = Empty
  <2>1. op' = Undo("remove", id, 0) /\ 0 \in 0..MaxStock
    BY <1>1, <1>3, HashAssumption DEF Upserting
  <2>2. Undone' = Removed(t, id)
    BY <1>1, <2>1 DEF Undone, Undo
  <2>3. Content(Undone') = Content(table)
    BY <1>1, <1>2, <1>3, <2>2, RemoveUndoes
  <2>4. Undoable(id, 0)'
    BY <2>1 DEF Undoable
  <2> QED
    BY <1>1, <1>2, <2>1, <2>3, <2>4, BeginStep
<1>4. CASE Find(table, id) # Empty
  <2>0. PICK m \in 0..MaxStock : m = Find(table, id).stock
    BY <1>2, <1>4, FindIs DEF Good
  <2>1. op' = Undo("insert", id, m)
    BY <1>1, <1>4, <2>0 DEF Upserting
  <2>2. Undone' = Inserted(t, id, m)
    BY <1>1, <2>1 DEF Undone, Undo
  <2>3. CanInsert(t, id) /\ Content(Undone') = Content(table)
    BY <1>2, <1>4, <2>0, <2>2, InsertUndoes
  <2>4. Undoable(id, m)'
    BY <1>1, <2>1, <2>3 DEF Undoable
  <2> HIDE DEF t
  <2> QED
    BY <1>1, <1>2, <2>1, <2>3, <2>4, BeginStep
<1> QED
  BY <1>3, <1>4

\* The two operations that change the stock of a product.
LEMMA StockStep ==
  ASSUME IInv, NEW id \in Ids, NEW n \in 0..MaxStock, Idle, Find(table, id) # Empty,
         Begin(Updated(table, id, n), Undo("stock", id, Find(table, id).stock))
  PROVE  IInv' /\ UNCHANGED <<phase, flash, ready>> /\ Content(Undone') = Content(Undone)
<1> DEFINE t == Updated(table, id, n)
<1>1. Good(table) /\ Good(t)
  BY UpdatedIs DEF IInv, TypeInv, Good
<1>2. PICK m \in 0..MaxStock : m = Find(table, id).stock
  BY <1>1, FindIs DEF Good
<1>3. Begin(t, Undo("stock", id, m)) /\ table' = t /\ op' = Undo("stock", id, m)
  BY <1>2 DEF Begin
<1>4. Undone' = Updated(t, id, m)
  BY <1>3 DEF Undone, Undo
<1>5. id \in Products(t) /\ Content(Undone') = Content(table)
  BY <1>1, <1>2, <1>4, UpdateUndoes
<1>6. Undoable(id, m)'
  BY <1>3, <1>5 DEF Undoable
<1> HIDE DEF t
<1> QED
  BY <1>1, <1>3, <1>5, <1>6, BeginStep

LEMMA AddStockStep ==
  ASSUME IInv, NEW id \in Ids, NEW quantity \in Nat, AddStock(id, quantity)
  PROVE  IInv' /\ UNCHANGED <<phase, flash, ready>> /\ Content(Undone') = Content(Undone)
<1> DEFINE n == Find(table, id).stock + quantity
<1>1. /\ Idle /\ Find(table, id) # Empty /\ n <= MaxStock
      /\ Begin(Updated(table, id, n), Undo("stock", id, Find(table, id).stock))
  BY DEF AddStock, Fits
<1>2. Find(table, id).stock \in 0..MaxStock /\ MaxStock \in Nat
  BY <1>1, FindIs, HashAssumption DEF IInv, TypeInv, Good
<1>3. n \in 0..MaxStock
  BY <1>1, <1>2
<1> HIDE DEF n
<1> QED
  BY <1>1, <1>3, StockStep

LEMMA DecrementStep ==
  ASSUME IInv, NEW id \in Ids, DecrementStock(id)
  PROVE  IInv' /\ UNCHANGED <<phase, flash, ready>> /\ Content(Undone') = Content(Undone)
<1> DEFINE n == Find(table, id).stock - 1
<1>1. /\ Idle /\ Find(table, id) # Empty /\ Find(table, id).stock > 0
      /\ Begin(Updated(table, id, n), Undo("stock", id, Find(table, id).stock))
  BY DEF DecrementStock
<1>2. Find(table, id).stock \in 0..MaxStock /\ MaxStock \in Nat
  BY <1>1, FindIs, HashAssumption DEF IInv, TypeInv, Good
<1>3. n \in 0..MaxStock
  BY <1>1, <1>2
<1> HIDE DEF n
<1> QED
  BY <1>1, <1>3, StockStep

LEMMA RemoveStep ==
  ASSUME IInv, NEW id \in Ids, RemoveProduct(id)
  PROVE  IInv' /\ UNCHANGED <<phase, flash, ready>> /\ Content(Undone') = Content(Undone)
<1> DEFINE t == Removed(table, id)
<1>1. Good(table) /\ Good(t) /\ Idle /\ Find(table, id) # Empty
  BY RemovedIs DEF IInv, TypeInv, Good, RemoveProduct
<1>2. PICK m \in 0..MaxStock : m = Find(table, id).stock
  BY <1>1, FindIs DEF Good
<1>3. Begin(t, Undo("insert", id, m)) /\ table' = t /\ op' = Undo("insert", id, m)
  BY <1>2 DEF RemoveProduct, Begin
<1>4. Undone' = Inserted(t, id, m)
  BY <1>3 DEF Undone, Undo
<1>5. CanInsert(t, id) /\ Content(Undone') = Content(table)
  BY <1>1, <1>2, <1>4, InsertUndoesRemoval
<1>6. Undoable(id, m)'
  BY <1>3, <1>5 DEF Undoable
<1> HIDE DEF t
<1> QED
  BY <1>1, <1>3, <1>5, <1>6, BeginStep

LEMMA OperationStep ==
  ASSUME IInv, Operation
  PROVE  IInv' /\ UNCHANGED <<phase, flash, ready>> /\ Content(Undone') = Content(Undone)
<1>1. PICK id \in Ids :
        \/ \E stock \in 0..MaxStock : Upsert(id, stock)
        \/ \E quantity \in 1..MaxQuantity : AddStock(id, quantity)
        \/ RegisterScan(id) \/ DecrementStock(id) \/ RemoveProduct(id)
  BY DEF Operation
<1>2. CASE \E stock \in 0..MaxStock : Upsert(id, stock)
  BY <1>2, UpsertStep
<1>3. CASE \E quantity \in 1..MaxQuantity : AddStock(id, quantity)
  <2>1. PICK quantity \in 1..MaxQuantity : AddStock(id, quantity)
    BY <1>3
  <2>2. quantity \in Nat
    BY CatalogAssumption
  <2> QED
    BY <2>1, <2>2, AddStockStep
<1>4. CASE RegisterScan(id)
  <2>1. CASE Find(table, id) # Empty
    <3>1. AddStock(id, 1) /\ 1 \in Nat
      BY <1>4, <2>1 DEF RegisterScan
    <3> QED
      BY <3>1, AddStockStep
  <2>2. CASE Find(table, id) = Empty
    <3>1. Upsert(id, 1)
      BY <1>4, <2>2 DEF RegisterScan
    <3>2. 1 \in 0..MaxStock
      BY CatalogAssumption
    <3> QED
      BY <3>1, <3>2, UpsertStep
  <2> QED
    BY <2>1, <2>2
<1>5. CASE DecrementStock(id)
  BY <1>5, DecrementStep
<1>6. CASE RemoveProduct(id)
  BY <1>6, RemoveStep
<1> QED
  BY <1>1, <1>2, <1>3, <1>4, <1>5, <1>6

\* What ProductStore sees: the stocks the board knows.
Known == IF phase = "off" THEN Stored ELSE Content(Undone)

LEMMA GoodIsTable ==
  ASSUME NEW t, Good(t)
  PROVE  t \in Table /\ t # Absent
<1>1. t.count \in Nat /\ t.count <= Size /\ Size \in Nat
  BY CountIs, HashAssumption DEF Good, TableType
<1>2. t.count \in 0..Size
  BY <1>1
<1> QED
  BY <1>2, AbsentAssumption DEF Good, TableType, EntryType, Table

LEMMA SameMaps ==
  ASSUME NEW f, NEW id
  PROVE  Store!Without(f, id) = Without(f, id)
BY DEF Store!Without, Without

LEMMA SaveSucceeds ==
  ASSUME IInv, SaveSnapshot(TRUE)
  PROVE  IInv' /\ [Store!Next]_<<Known, Stored, ready>>
<1>1. /\ op # Done /\ phase = "running" /\ phase' = "running" /\ ready /\ ready' = ready
      /\ flash' = table /\ table' = table /\ unsaved' = FALSE /\ op' = Done
  BY DEF IInv, OpInv, SaveSnapshot
<1>2. TypeInv /\ OpInv /\ Good(table) /\ table # Absent
  BY GoodIsTable DEF IInv, TypeInv
<1>3. Undone' = table /\ Known = Content(Undone) /\ Known' = Content(table) /\ Stored' = Content(table)
  BY <1>1, <1>2 DEF Undone, Done, Undo, Known, Stored
<1>4. IInv'
  BY <1>1, <1>2, <1>3 DEF IInv, TypeInv, OpInv, SavedInv, OffInv
<1>5. CASE op.kind = "catalog"
  <2>1. Known' = Known
    BY <1>3, <1>5, UndoneIs
  <2>2. Known = Store!WithNew(Known, {})
    BY <1>3, <1>5, UndoneIs, ContentMaps DEF Store!WithNew, IsMap
  <2>3. table.count = Size \/ ToSet(Catalog) \subseteq Products(table)
    BY <1>1, <1>2, <1>5, UndoKinds DEF OpInv, CatalogWaits, Undoable
  <2>4. Store!Cardinality(Products(table)) = table.count
    BY <1>2, CountIs DEF Good, Store!Cardinality, Cardinality, Store!IsFiniteSet, IsFiniteSet
  <2>5. Store!LoadCatalog
    BY <1>1, <1>3, <2>1, <2>2, <2>3, <2>4 DEF Store!LoadCatalog, Products, Known
  <2> QED
    BY <1>4, <2>5 DEF Store!Next
<1>6. CASE op.kind # "catalog"
  <2>1. PICK id \in Ids : Without(Content(Undone), id) = Without(Content(table), id)
    BY <1>2, <1>6, UndoneGood
  <2>2. Store!Without(Known', id) = Store!Without(Known, id)
    BY <1>3, <2>1, SameMaps
  <2>3. Store!Change
    BY <1>1, <1>3, <2>2 DEF Store!Change, Known
  <2> QED
    BY <1>4, <2>3 DEF Store!Next
<1> QED
  BY <1>5, <1>6

LEMMA SaveFails ==
  ASSUME IInv, SaveSnapshot(FALSE)
  PROVE  IInv' /\ UNCHANGED <<Known, Stored, ready>>
<1>1. /\ op # Done /\ phase = "running" /\ phase' = "running" /\ ready' = ready
      /\ flash' = flash /\ table' = Undone /\ op' = Done
      /\ unsaved' = (unsaved \/ op.kind = "catalog")
  BY DEF IInv, OpInv, SaveSnapshot
<1>2. TypeInv /\ OpInv /\ SavedInv /\ Good(Undone)
  BY UndoneGood DEF IInv
<1>3. Undone' = Undone /\ Known = Content(Undone) /\ Known' = Content(Undone) /\ Stored' = Stored
  BY <1>1 DEF Undone, Done, Undo, Known, Stored
<1>4. TypeInv'
  BY <1>1, <1>2 DEF TypeInv
<1>5. ~unsaved' => ~unsaved /\ op.kind # "catalog"
  BY <1>1
<1>6. SavedInv'
  BY <1>1, <1>2, <1>3, <1>5 DEF SavedInv
<1> QED
  BY <1>1, <1>3, <1>4, <1>6 DEF IInv, OpInv, OffInv

\* NVS starts with the snapshot it had, or with none.
LEMMA StartKeepsOrErases ==
  ASSUME TypeInv, NEW starts \in BOOLEAN, NEW erases \in BOOLEAN, StartNvs(starts, erases)
  PROVE  /\ ready' = starts
         /\ flash' # Absent => flash' = flash /\ Good(flash')
         /\ Store!KeptOrErased
<1>1. /\ ready' = starts
      /\ flash' = flash \/ flash' = Absent
  BY DEF StartNvs
<1>2. Stored' = Stored \/ Stored' = Store!Nothing
  BY <1>1 DEF Stored, Nothing, Store!Nothing
<1> QED
  BY <1>1, <1>2 DEF TypeInv, Store!KeptOrErased

LEMMA InitDbStep ==
  ASSUME IInv, NEW starts \in BOOLEAN, NEW erases \in BOOLEAN, NEW reads \in BOOLEAN,
         InitDb(starts, erases, reads)
  PROVE  IInv' /\ Store!Next
<1>1. /\ phase = "off" /\ phase' = "boot" /\ unsaved' = FALSE /\ ~ready
      /\ op' = op /\ op = Done /\ StartNvs(starts, erases)
      /\ (table' = flash' /\ flash' # Absent) \/ table' = EmptyTable
  BY DEF IInv, OpInv, OffInv, InitDb
<1>2. /\ ready' = starts
      /\ flash' # Absent => flash' = flash /\ Good(flash')
      /\ Store!KeptOrErased
  BY <1>1, StartKeepsOrErases DEF IInv
<1>3. Undone' = table' /\ Known' = Content(table')
  BY <1>1 DEF Undone, Done, Undo, Known
<1>4. Content(table') \in {Stored', Store!Nothing}
  BY <1>1, EmptyIsNeat DEF Stored, Store!Nothing
<1>5. Good(table')
  BY <1>1, <1>2, EmptyIsNeat DEF Good
<1>6. TypeInv'
  BY <1>1, <1>2, <1>5 DEF IInv, TypeInv
<1>7. OpInv' /\ SavedInv' /\ OffInv'
  BY <1>1 DEF OpInv, SavedInv, OffInv
<1>8. Store!Restart
  BY <1>1, <1>2, <1>3, <1>4 DEF Store!Restart, Known
<1> QED
  BY <1>6, <1>7, <1>8 DEF IInv, Store!Next

LEMMA NetworkInitStep ==
  ASSUME IInv, NEW erases \in BOOLEAN, NetworkInit(erases)
  PROVE  IInv' /\ Store!Next
<1>1. /\ phase = "running" /\ phase' = phase /\ table' = table /\ op' = op
      /\ unsaved' = unsaved /\ ~ready /\ op.kind # "catalog" /\ StartNvs(TRUE, erases)
  BY DEF NetworkInit
<1>2. /\ ready' = TRUE
      /\ flash' # Absent => flash' = flash /\ Good(flash')
      /\ Store!KeptOrErased
  BY <1>1, StartKeepsOrErases DEF IInv
<1>3. Undone' = Undone
  BY <1>1 DEF Undone
<1>4. Known' = Known
  BY <1>1, <1>3 DEF Known
<1>5. unsaved
  BY <1>1 DEF IInv, SavedInv
<1>6. TypeInv'
  BY <1>1, <1>2 DEF IInv, TypeInv
<1>7. OpInv' /\ OffInv'
  BY <1>1 DEF IInv, OpInv, OffInv, CatalogWaits, Undoable
<1>8. SavedInv'
  BY <1>1, <1>5 DEF SavedInv
<1>9. Store!Open
  BY <1>1, <1>2, <1>4 DEF Store!Open, Known
<1> QED
  BY <1>6, <1>7, <1>8, <1>9 DEF IInv, Store!Next

LEMMA LoadCatalogStep ==
  ASSUME IInv, LoadCatalog
  PROVE  IInv' /\ Store!LoadCatalog
<1> DEFINE t == Loaded(table)
<1>1. /\ phase = "boot" /\ phase' = "running" /\ table' = t /\ op' = Undo("catalog", NoId, 0)
      /\ ready' = ready /\ flash' = flash /\ unsaved' = unsaved /\ op = Done
  BY DEF IInv, OpInv, LoadCatalog
<1>2. Good(table) /\ TypeInv
  BY DEF IInv, TypeInv
<1>3. LoadedUpTo(table, t, Len(Catalog))
  BY <1>2, LoadedIs
<1> HIDE DEF t
<1>4. Good(t) /\ Extends(table, t)
  BY <1>3 DEF LoadedUpTo
<1>5. t.count = Size \/ ToSet(Catalog) \subseteq Products(t)
  <2>1. ToSet(Catalog) = {Catalog[i] : i \in 1..Len(Catalog)}
    BY CatalogAssumption DEF ToSet
  <2> QED
    BY <1>3, <2>1 DEF LoadedUpTo
<1>6. Undone = table /\ Undone' = t
  BY <1>1 DEF Undone, Done, Undo
<1>7. TypeInv'
  BY <1>1, <1>2, <1>4 DEF TypeInv
<1>8. OpInv'
  BY <1>1, <1>5 DEF OpInv, CatalogWaits
<1>9. SavedInv'
  BY <1>1, UndoKinds DEF SavedInv
<1>10. Known = Content(table) /\ Known' = Content(t) /\ Stored' = Stored
  BY <1>1, <1>6 DEF Known, Stored
<1>11. \E ids \in SUBSET ToSet(Catalog) : Known' = Store!WithNew(Known, ids)
  <2> DEFINE ids == Products(t) \ Products(table)
  <2>1. ids \in SUBSET ToSet(Catalog) /\ Products(table) \cup ids = Products(t)
    BY <1>4 DEF Extends
  <2> HIDE DEF ids
  <2>2. Content(t) = [x \in Products(t) |-> Content(t)[x]]
    BY ContentMaps DEF IsMap, Products
  <2>3. \A x \in Products(t) : Content(t)[x] = IF x \in Products(table) THEN Content(table)[x] ELSE 0
    BY <1>4 DEF Extends
  <2>4. Content(t) = [x \in Products(table) \cup ids |->
                        IF x \in Products(table) THEN Content(table)[x] ELSE 0]
    BY <2>1, <2>2, <2>3
  <2>5. Content(t) = Store!WithNew(Content(table), ids)
    BY <2>4 DEF Store!WithNew, Products
  <2> QED
    BY <1>10, <2>1, <2>5
<1>12. Store!Cardinality(Products(t)) = t.count
  BY <1>4, CountIs DEF Good, Store!Cardinality, Cardinality, Store!IsFiniteSet, IsFiniteSet
<1>13. Store!LoadCatalog
  BY <1>1, <1>5, <1>10, <1>11, <1>12 DEF Store!LoadCatalog, Products, Known
<1> QED
  BY <1>1, <1>7, <1>8, <1>9, <1>13 DEF IInv, OffInv

LEMMA PowerLossStep ==
  ASSUME IInv, PowerLoss
  PROVE  IInv' /\ Store!PowerLoss
<1>1. /\ phase' = "off" /\ table' = EmptyTable /\ op' = Done /\ flash' = flash
      /\ ready' = FALSE /\ unsaved' = FALSE
  BY DEF PowerLoss
<1>2. Known' = Stored /\ Stored' = Stored
  BY <1>1 DEF Known, Stored
<1>3. IInv'
  BY <1>1, EmptyIsNeat DEF IInv, TypeInv, OpInv, SavedInv, OffInv, Good
<1> QED
  BY <1>1, <1>2, <1>3 DEF Store!PowerLoss, Known

LEMMA StoreStep ==
  IInv /\ [Next]_vars => IInv' /\ [Store!Next]_<<Known, Stored, ready>>
<1> SUFFICES ASSUME IInv, [Next]_vars
             PROVE  IInv' /\ [Store!Next]_<<Known, Stored, ready>>
  OBVIOUS
<1>1. CASE Operation
  <2>1. phase = "running"
    BY <1>1 DEF Operation, Upsert, RegisterScan, AddStock, DecrementStock, RemoveProduct, Idle
  <2>2. IInv' /\ phase' = phase /\ flash' = flash /\ ready' = ready /\ Content(Undone') = Content(Undone)
    BY <1>1, OperationStep
  <2>3. Known' = Known /\ Stored' = Stored
    BY <2>1, <2>2 DEF Known, Stored
  <2> QED
    BY <2>2, <2>3
<1>2. ASSUME NEW succeeds \in BOOLEAN, SaveSnapshot(succeeds)
      PROVE  IInv' /\ [Store!Next]_<<Known, Stored, ready>>
  <2>1. SaveSnapshot(TRUE) \/ SaveSnapshot(FALSE)
    BY <1>2
  <2> QED
    BY <2>1, SaveSucceeds, SaveFails
<1>3. ASSUME NEW starts \in BOOLEAN, NEW erases \in BOOLEAN, NEW reads \in BOOLEAN,
             InitDb(starts, erases, reads)
      PROVE  IInv' /\ [Store!Next]_<<Known, Stored, ready>>
  BY <1>3, InitDbStep
<1>4. CASE LoadCatalog
  BY <1>4, LoadCatalogStep DEF Store!Next
<1>5. CASE PowerLoss
  BY <1>5, PowerLossStep DEF Store!Next
<1>6. ASSUME NEW erases \in BOOLEAN, NetworkInit(erases)
      PROVE  IInv' /\ [Store!Next]_<<Known, Stored, ready>>
  BY <1>6, NetworkInitStep
<1>7. CASE UNCHANGED vars
  <2>1. /\ phase' = phase /\ table' = table /\ flash' = flash /\ op' = op /\ unsaved' = unsaved
        /\ ready' = ready
    BY <1>7 DEF vars
  <2>2. Undone' = Undone
    BY <2>1 DEF Undone
  <2>3. IInv' /\ Known' = Known /\ Stored' = Stored /\ ready' = ready
    BY <2>1, <2>2 DEF IInv, TypeInv, OpInv, CatalogWaits, Undoable, SavedInv, OffInv, Known, Stored
  <2> QED
    BY <2>3
<1> QED
  BY <1>1, <1>2, <1>3, <1>4, <1>5, <1>6, <1>7 DEF Next

LEMMA IInvHolds == Spec => []IInv
BY IInvInit, StoreStep, PTL DEF Spec

-----------------------------------------------------------------------------
(* The theorems.                                                           *)

\* Tables, snapshots and what is needed to undo an operation keep their types:
\* no addition takes a stock beyond UINT32_MAX and no undo invents a product.
THEOREM TypeCorrect == Spec => []TypeOK
<1>1. IInv => TypeOK
  <2> SUFFICES ASSUME IInv PROVE TypeOK
    OBVIOUS
  <2>1. table \in Table /\ flash \in Table \cup {Absent}
    BY GoodIsTable DEF IInv, TypeInv
  <2>2. 0 \in 0..MaxStock
    BY HashAssumption
  <2>3. /\ op.kind \in {"done", "catalog", "insert", "remove", "stock"}
        /\ op.id \in Ids \cup {NoId} /\ op.stock \in 0..MaxStock
    BY <2>2, UndoKinds DEF IInv, OpInv, CatalogWaits, Undoable
  <2> QED
    BY <2>1, <2>3 DEF IInv, TypeInv, TypeOK
<1> QED
  BY <1>1, IInvHolds, PTL

\* Between two operations a restart would find the stocks the board shows,
\* unless the catalogue could not be saved: whatever save fails, and even when
\* its undo puts the product back in another entry of the table.
THEOREM RamIsFlash == Spec => []RamMatchesFlash
<1>1. IInv => RamMatchesFlash
  BY UndoneIs, UndoKinds DEF IInv, SavedInv, RamMatchesFlash, Idle
<1> QED
  BY <1>1, IInvHolds, PTL

\* Neither the table nor its snapshot ever hides a product or holds it twice.
THEOREM TablesStaySound == Spec => []TablesSound
<1>1. IInv => TablesSound
  BY SoundIsNeat DEF IInv, TypeInv, Good, TablesSound
<1> QED
  BY <1>1, IInvHolds, PTL

\* product_db implements ProductStore: an operation takes effect in RAM and NVS
\* at once or leaves no trace, the catalogue adds what is missing and fits, and
\* a restart finds the durable stocks or, if it cannot read them, none.  They are
\* lost only where NVS erases itself, which is before it has started.
THEOREM DbIsStore == Spec => ImplementsStore
<1>1. Init => Known = [id \in {} |-> 0] /\ Stored = [id \in {} |-> 0] /\ ready = FALSE
  BY DEF Init, Known, Stored, Nothing
<1>2. Init => Store!Init
  BY <1>1 DEF Store!Init, Store!Nothing, Known
<1>3. IInv /\ [Next]_vars => [Store!Next]_<<Known, Stored, ready>>
  BY StoreStep
<1> QED
  BY <1>2, <1>3, IInvHolds, PTL DEF Spec, ImplementsStore, Store!Spec, Known
=============================================================================
