---------------------------- MODULE TableCalls_proofs ----------------------------
(***************************************************************************)
(* hash_table.c is a map, whatever the ids, their hashes and the size of   *)
(* the table, and in every order of its calls.                             *)
(***************************************************************************)
EXTENDS TableCalls, HashTable_proofs

IInv == TableType(table) /\ Neat(table)

LEMMA IInvInit == Init => IInv
BY EmptyIsNeat DEF Init, IInv

\* ProductMap counts as this module does.
LEMMA SameCardinality == ASSUME NEW S PROVE Map!Cardinality(S) = Cardinality(S)
BY DEF Map!Cardinality, Cardinality, Map!IsFiniteSet, IsFiniteSet

\* What Content(table) and last say after each call.
LEMMA InsertStep ==
  ASSUME IInv, NEW id \in Ids, NEW n \in 0..MaxStock, CallInsert(id, n)
  PROVE  IInv' /\ Map!Insert(id, n)
<1> USE DEF IInv
<1> DEFINE accepted == id \in DOMAIN Content(table) \/ Map!Cardinality(DOMAIN Content(table)) < Size
<1>1. /\ table' = Inserted(table, id, n)
      /\ last' = <<"insert", id, CanInsert(table, id)>>
  BY DEF CallInsert
<1>2. TableType(table') /\ Neat(table')
  BY <1>1, InsertedIs
<1>3. Cardinality(DOMAIN Content(table)) = table.count
  BY CountIs DEF Products
<1>4. CanInsert(table, id) <=> accepted
  BY <1>3, CanInsertIs, SameCardinality DEF Products
<1>5. CanInsert(table, id) \in BOOLEAN /\ accepted \in BOOLEAN
  BY DEF CanInsert
<1>6. CanInsert(table, id) = accepted
  <2> HIDE DEF accepted
  <2> QED
    BY <1>4, <1>5
<1>7. CanInsert(table, id) => Content(table)' = Map!With(id, n)
  <2>1. CanInsert(table, id) => Content(table)' = With(Content(table), id, n)
    BY <1>1, InsertedIs
  <2> QED
    BY <2>1 DEF Map!With, With
<1>8. ~CanInsert(table, id) => Content(table)' = Content(table)
  BY <1>1, InsertedIs
<1>9. Map!Insert(id, n) <=> /\ last' = <<"insert", id, accepted>>
                            /\ Content(table)' = IF accepted THEN Map!With(id, n) ELSE Content(table)
  BY DEF Map!Insert
<1> HIDE DEF accepted
<1>10. last' = <<"insert", id, accepted>>
  BY <1>1, <1>6
<1>11. Content(table)' = IF accepted THEN Map!With(id, n) ELSE Content(table)
  BY <1>4, <1>7, <1>8
<1> QED
  BY <1>2, <1>9, <1>10, <1>11

LEMMA RemoveStep ==
  ASSUME IInv, NEW id \in Ids, CallRemove(id)
  PROVE  IInv' /\ Map!Remove(id)
<1> USE DEF IInv, CallRemove
<1>1. TableType(table') /\ Neat(table')
  BY RemovedIs
<1>2. Find(table, id) # Empty <=> id \in DOMAIN Content(table)
  BY FindIs DEF Products
<1>3. Content(table)' = [x \in DOMAIN Content(table) \ {id} |-> Content(table)[x]]
  BY RemovedIs DEF Without
<1> QED
  BY <1>1, <1>2, <1>3 DEF Map!Remove

LEMMA UpdateStep ==
  ASSUME IInv, NEW id \in Ids, NEW n \in 0..MaxStock, CallUpdateStock(id, n)
  PROVE  IInv' /\ Map!UpdateStock(id, n)
<1> USE DEF IInv, CallUpdateStock
<1>1. TableType(table') /\ Neat(table')
  BY UpdatedIs
<1>2. Find(table, id) # Empty <=> id \in DOMAIN Content(table)
  BY FindIs DEF Products
<1>3. Content(table)' = IF id \in DOMAIN Content(table) THEN Map!With(id, n) ELSE Content(table)
  BY UpdatedIs DEF Products, Map!With, With
<1> QED
  BY <1>1, <1>2, <1>3 DEF Map!UpdateStock

LEMMA MapStep ==
  IInv /\ [Next]_<<table, last>> => IInv' /\ [Map!Next]_<<Content(table), last>>
<1> SUFFICES ASSUME IInv, [Next]_<<table, last>>
             PROVE  IInv' /\ [Map!Next]_<<Content(table), last>>
  OBVIOUS
<1>1. CASE UNCHANGED <<table, last>>
  BY <1>1 DEF IInv
<1>2. ASSUME NEW id \in Ids, NEW n \in 0..MaxStock, CallInsert(id, n) \/ CallUpdateStock(id, n)
      PROVE  IInv' /\ Map!Next
  BY <1>2, InsertStep, UpdateStep DEF Map!Next
<1>3. ASSUME NEW id \in Ids, CallRemove(id)
      PROVE  IInv' /\ Map!Next
  BY <1>3, RemoveStep DEF Map!Next
<1> QED
  BY <1>1, <1>2, <1>3 DEF Next

LEMMA IInvHolds == Spec => []IInv
BY IInvInit, MapStep, PTL DEF Spec

\* Tombstones, collisions and reuse of entries never hide a product, never leave
\* a second copy of it behind, and never confuse the counter: for every hash
\* function, every size of the table and every sequence of calls.
THEOREM TableAlwaysSound == Spec => []AlwaysSound
<1>1. IInv => AlwaysSound
  <2> SUFFICES ASSUME IInv PROVE AlwaysSound
    OBVIOUS
  <2>1. TableSound(table)
    BY SoundIsNeat DEF IInv
  <2>2. Cardinality(DOMAIN Content(table)) = table.count /\ table.count <= Size
    BY CountIs DEF IInv, Products
  <2>3. table.count \in Nat /\ Size \in Nat
    BY HashAssumption DEF IInv, TableType
  <2> QED
    BY <2>1, <2>2, <2>3 DEF AlwaysSound, IsFull
<1> QED
  BY <1>1, IInvHolds, PTL

\* Each call has the effect and the result of the same call on a map that holds
\* at most Size products, so hash_table_insert fails only when Size are held.
THEOREM TableIsMap == Spec => ImplementsMap
<1>1. Init => Map!Init
  BY EmptyIsNeat DEF Init, Map!Init
<1> QED
  BY <1>1, MapStep, IInvHolds, PTL DEF Spec, ImplementsMap, Map!Spec
=============================================================================
