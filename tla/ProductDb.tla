------------------------------ MODULE ProductDb ------------------------------
(***************************************************************************)
(* components/product_db/product_db.c: the hash table of products in RAM   *)
(* and its snapshot, one blob in NVS that is written after every change.   *)
(* An operation changes the table, saves the snapshot and undoes its       *)
(* change when the save fails.  One task changes the table at a time:      *)
(* app_main while it boots, then FSM_TASK.  NVS writes a blob as a whole:  *)
(* after a power loss the snapshot is the old one or the new one.          *)
(*                                                                         *)
(* Ids fit in Product.id, so safe_copy keeps them; names are left out.     *)
(***************************************************************************)
EXTENDS HashTable, Sequences, SequencesExt

CONSTANTS
  Catalog,     \* catalogo_completo, the ids in its order
  MaxQuantity, \* largest quantity an instance adds at once
  Absent       \* no snapshot in NVS

ASSUME CatalogAssumption ==
  /\ Catalog \in Seq(Ids) \ {<<>>}
  /\ MaxQuantity \in Nat /\ MaxStock \in Nat \ {0}

VARIABLES
  phase,    \* "off", "boot" (product_db_init is done), "running"
  ready,    \* nvs_storage_is_initialized()
  table,    \* s_product_table
  flash,    \* the snapshot in NVS
  op,       \* the operation that waits for its save, and how it is undone
  unsaved   \* history: the catalogue was loaded and could not be saved

vars == <<phase, ready, table, flash, op, unsaved>>

Undo(kind, id, stock) == [kind |-> kind, id |-> id, stock |-> stock]
Done    == Undo("done", NoId, 0)
Nothing == [id \in {} |-> 0]

Idle == phase = "running" /\ op = Done

\* The table changes in RAM and product_db_save_snapshot starts.
Begin(changed, undo) ==
  /\ table' = changed /\ op' = undo
  /\ UNCHANGED <<phase, ready, flash, unsaved>>

-----------------------------------------------------------------------------
(* The operations up to their call of product_db_save_snapshot.  A call    *)
(* that returns before it changes the table is not a step.                 *)

\* How product_db_upsert_product_internal undoes its insertion.
Upserting(id) ==
  IF Find(table, id) = Empty THEN Undo("remove", id, 0)
  ELSE Undo("insert", id, Find(table, id).stock)

Upsert(id, stock) ==
  /\ Idle /\ CanInsert(table, id)
  /\ Begin(Inserted(table, id, stock), Upserting(id))

\* Mutant: the overflow check is off by one.
Fits_OffByOne(id, quantity) == Find(table, id).stock + quantity <= MaxStock + 1

\* UINT32_MAX - product->stock >= quantity
Fits(id, quantity) == Find(table, id).stock + quantity <= MaxStock

AddStock(id, quantity) ==
  /\ Idle /\ quantity > 0 /\ Find(table, id) # Empty
  /\ Fits(id, quantity)
  /\ Begin(Updated(table, id, Find(table, id).stock + quantity),
           Undo("stock", id, Find(table, id).stock))

RegisterScan(id) ==
  IF Find(table, id) # Empty THEN AddStock(id, 1) ELSE Upsert(id, 1)

DecrementStock(id) ==
  /\ Idle /\ Find(table, id) # Empty /\ Find(table, id).stock > 0
  /\ Begin(Updated(table, id, Find(table, id).stock - 1),
           Undo("stock", id, Find(table, id).stock))

RemoveProduct(id) ==
  /\ Idle /\ Find(table, id) # Empty
  /\ Begin(Removed(table, id), Undo("insert", id, Find(table, id).stock))

-----------------------------------------------------------------------------
(* The save.                                                               *)

\* Mutant: a removed product stays removed when the save fails.
Undone_KeepsRemoval ==
  CASE op.kind = "remove" -> Removed(table, op.id)
    [] op.kind = "stock"  -> Updated(table, op.id, op.stock)
    [] OTHER              -> table

\* The table after the operation was undone; the catalogue is not undone.
Undone ==
  CASE op.kind = "remove" -> Removed(table, op.id)
    [] op.kind = "insert" -> Inserted(table, op.id, op.stock)
    [] op.kind = "stock"  -> Updated(table, op.id, op.stock)
    [] OTHER              -> table

\* A write of NVS that fails leaves the snapshot as it was.
SaveSnapshot(succeeds) ==
  /\ phase # "off" /\ op # Done
  /\ succeeds => ready
  /\ flash'   = IF succeeds THEN table ELSE flash
  /\ table'   = IF succeeds THEN table ELSE Undone
  /\ unsaved' = (~succeeds /\ (unsaved \/ op.kind = "catalog"))
  /\ op' = Done
  /\ UNCHANGED <<phase, ready>>

-----------------------------------------------------------------------------
(* Starting NVS and booting.                                               *)

\* nvs_storage_init erases a partition that is full or of another version, all of
\* it, and starts NVS again; also after an erase it may fail to start.
StartNvs(starts, erases) ==
  /\ ready' = starts
  /\ flash' = IF erases THEN Absent ELSE flash

\* product_db_table_is_valid
Valid(t) ==
  /\ t.count = Cardinality({c \in Cells : t.entries[c].status = "occupied"})
  /\ \A c \in Cells : t.entries[c].status = "occupied" => t.entries[c].id # NoId

\* product_db_init; the snapshot may be impossible to read.
InitDb(starts, erases, reads) ==
  /\ phase = "off" /\ phase' = "boot"
  /\ StartNvs(starts, erases)
  /\ table' = IF starts /\ reads /\ flash' # Absent
              THEN IF Valid(flash') THEN flash' ELSE EmptyTable
              ELSE EmptyTable
  /\ unsaved' = FALSE
  /\ UNCHANGED op

\* Mutant: a product of the catalogue starts again at stock 0.
Merged_Zeroes(t, id) == Inserted(t, id, 0)

\* One round of the loop of product_db_load_catalog.
Merged(t, id) ==
  Inserted(t, id, IF Find(t, id) = Empty THEN 0 ELSE Find(t, id).stock)

\* The table after the loop.
Loaded(t) ==
  LET upTo[n \in 0..Len(Catalog)] ==
        IF n = 0 THEN t ELSE Merged(upTo[n - 1], Catalog[n])
  IN  upTo[Len(Catalog)]

\* A full table, whose loop loads nothing, is the snapshot: its save, which the
\* code leaves out, writes what is there.
LoadCatalog ==
  /\ phase = "boot" /\ phase' = "running"
  /\ table' = Loaded(table)
  /\ op' = Undo("catalog", NoId, 0)
  /\ UNCHANGED <<ready, flash, unsaved>>

\* app_network_init starts NVS again, after the catalogue was loaded, and aborts
\* when it still fails: a power loss.  FSM_TASK may be in an operation.
NetworkInit(erases) ==
  /\ phase = "running" /\ op.kind # "catalog" /\ ~ready
  /\ StartNvs(TRUE, erases)
  /\ UNCHANGED <<phase, table, op, unsaved>>

PowerLoss ==
  /\ phase # "off" /\ phase' = "off"
  /\ table' = EmptyTable /\ op' = Done
  /\ ready' = FALSE /\ unsaved' = FALSE
  /\ UNCHANGED flash

-----------------------------------------------------------------------------
Init ==
  /\ phase = "off" /\ ready = FALSE
  /\ table = EmptyTable /\ flash = Absent
  /\ op = Done /\ unsaved = FALSE

Operation == \E id \in Ids :
  \/ \E stock \in 0..MaxStock : Upsert(id, stock)
  \/ \E quantity \in 1..MaxQuantity : AddStock(id, quantity)
  \/ RegisterScan(id) \/ DecrementStock(id) \/ RemoveProduct(id)

Next ==
  \/ Operation
  \/ \E succeeds \in BOOLEAN : SaveSnapshot(succeeds)
  \/ \E starts, erases, reads \in BOOLEAN : InitDb(starts, erases, reads)
  \/ \E erases \in BOOLEAN : NetworkInit(erases)
  \/ LoadCatalog \/ PowerLoss

Spec == Init /\ [][Next]_vars

-----------------------------------------------------------------------------
Table == [entries : [Cells -> {Empty, Deleted} \cup {Occupied(id, n) : id \in Ids, n \in 0..MaxStock}],
          count : 0..Size]

ASSUME AbsentAssumption == Absent \notin Table

TypeOK ==
  /\ phase \in {"off", "boot", "running"} /\ ready \in BOOLEAN
  /\ table \in Table /\ flash \in Table \cup {Absent}
  /\ op.kind \in {"done", "catalog", "insert", "remove", "stock"}
  /\ op.id \in Ids \cup {NoId} /\ op.stock \in 0..MaxStock
  /\ unsaved \in BOOLEAN

\* Between two operations RAM and NVS hold the same stocks ("para no dejar
\* estados distintos", 463), unless the catalogue could not be saved.
RamMatchesFlash ==
  Idle /\ ~unsaved => flash # Absent /\ Content(flash) = Content(table)

\* Undoing an insertion or a removal may use another entry than before: the
\* table and its snapshot still find each of their products.
TablesSound == TableSound(table) /\ (flash # Absent => TableSound(flash))

Stored == IF flash = Absent THEN Nothing ELSE Content(flash)

Store == INSTANCE ProductStore WITH
           Catalog <- ToSet(Catalog),
           stocks  <- IF phase = "off" THEN Stored ELSE Content(Undone),
           saved   <- Stored,
           open    <- ready

\* An operation takes effect in RAM and NVS at once, when its save succeeds, or
\* leaves no trace; restarts and failures lose no stock of a readable snapshot,
\* unless NVS erases itself while it starts ("se borra y se inicializa
\* nuevamente", nvs.c:65).
ImplementsStore == Store!Spec
=============================================================================
