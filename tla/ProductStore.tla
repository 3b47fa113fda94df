----------------------------- MODULE ProductStore -----------------------------
(***************************************************************************)
(* What product_db promises: a table of stocks with a durable copy.  An    *)
(* operation changes one product in both at once, or nothing at all.  Only *)
(* the catalogue, loaded after a restart, may stay in RAM; it adds the     *)
(* products that are missing, while there is room, and touches no other.   *)
(* The copy is lost only where the flash erases it, before it is open.     *)
(***************************************************************************)
EXTENDS Integers, FiniteSets

CONSTANTS
  Ids, Catalog,
  Size  \* the products there is room for

VARIABLES
  stocks,  \* the stock of every product the board knows
  saved,   \* what a restart would find
  open     \* the durable copy can be written

Nothing == [id \in {} |-> 0]

Without(f, id) == [x \in DOMAIN f \ {id} |-> f[x]]
WithNew(f, ids) == [x \in DOMAIN f \cup ids |-> IF x \in DOMAIN f THEN f[x] ELSE 0]

Init == stocks = Nothing /\ saved = Nothing /\ open = FALSE

\* One product is added, changed or removed.
Change ==
  /\ open /\ saved' = stocks'
  /\ \E id \in Ids : Without(stocks', id) = Without(stocks, id)
  /\ UNCHANGED open

LoadCatalog ==
  /\ \E ids \in SUBSET Catalog : stocks' = WithNew(stocks, ids)
  /\ Catalog \subseteq DOMAIN stocks' \/ Cardinality(DOMAIN stocks') = Size
  /\ saved' = saved \/ (open /\ saved' = stocks')
  /\ UNCHANGED open

\* Only the durable copy survives.
PowerLoss == stocks' = saved /\ open' = FALSE /\ UNCHANGED saved

\* A flash that is full or of another version is erased before it is opened.
KeptOrErased == saved' \in {saved, Nothing}

\* A restart finds what the durable copy holds then, or cannot read it.
Restart ==
  /\ ~open /\ open' \in BOOLEAN
  /\ KeptOrErased /\ stocks' \in {saved', Nothing}

\* A flash that the restart could not open is opened later.
Open == ~open /\ open' = TRUE /\ KeptOrErased /\ UNCHANGED stocks

Next == Change \/ LoadCatalog \/ PowerLoss \/ Restart \/ Open

Spec == Init /\ [][Next]_<<stocks, saved, open>>
=============================================================================
