------------------------------ MODULE TableCalls ------------------------------
(***************************************************************************)
(* The calls of hash_table.c in any order, one at a time, on one table.    *)
(***************************************************************************)
EXTENDS HashTable

VARIABLES
  table,
  last  \* the last call: its function, its id and what it returned

Init == table = EmptyTable /\ last = <<"init">>

CallInsert(id, stock) ==
  /\ last' = <<"insert", id, CanInsert(table, id)>>
  /\ table' = Inserted(table, id, stock)

CallRemove(id) ==
  /\ last' = <<"remove", id, Find(table, id) # Empty>>
  /\ table' = Removed(table, id)

CallUpdateStock(id, stock) ==
  /\ last' = <<"update", id, Find(table, id) # Empty>>
  /\ table' = Updated(table, id, stock)

Next == \E id \in Ids :
  \/ \E stock \in 0..MaxStock : CallInsert(id, stock) \/ CallUpdateStock(id, stock)
  \/ CallRemove(id)

Spec == Init /\ [][Next]_<<table, last>>

-----------------------------------------------------------------------------
\* Tombstones, collisions and reuse of entries never hide a product, never
\* leave a second copy of it behind, and never confuse the counter, which
\* hash_table_is_full and the check of a restored snapshot rely on.
AlwaysSound == TableSound(table) /\ (IsFull(table) <=> Cardinality(DOMAIN Content(table)) = Size)

Map == INSTANCE ProductMap WITH products <- Content(table)

\* The table is a map: each call has the effect and the result of the call on
\* ProductMap, so an insertion fails only when Size products are held.
ImplementsMap == Map!Spec
=============================================================================
