------------------------------ MODULE ProductMap ------------------------------
(***************************************************************************)
(* What the hash table promises: a map from ids to stocks that holds at    *)
(* most Size products and refuses a new one only when it holds Size.       *)
(***************************************************************************)
EXTENDS Integers, FiniteSets

CONSTANTS Ids, Size, MaxStock

VARIABLES
  products,  \* the stock of every product the map holds
  last       \* the last call: its function, its id and what it returned

With(id, stock) ==
  [x \in DOMAIN products \cup {id} |-> IF x = id THEN stock ELSE products[x]]

Init == products = [x \in {} |-> 0] /\ last = <<"init">>

Insert(id, stock) ==
  LET accepted == id \in DOMAIN products \/ Cardinality(DOMAIN products) < Size
  IN  /\ last' = <<"insert", id, accepted>>
      /\ products' = IF accepted THEN With(id, stock) ELSE products

Remove(id) ==
  /\ last' = <<"remove", id, id \in DOMAIN products>>
  /\ products' = [x \in DOMAIN products \ {id} |-> products[x]]

UpdateStock(id, stock) ==
  /\ last' = <<"update", id, id \in DOMAIN products>>
  /\ products' = IF id \in DOMAIN products THEN With(id, stock) ELSE products

Next == \E id \in Ids :
  \/ \E stock \in 0..MaxStock : Insert(id, stock) \/ UpdateStock(id, stock)
  \/ Remove(id)

Spec == Init /\ [][Next]_<<products, last>>
=============================================================================
