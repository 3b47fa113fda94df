------------------------------ MODULE HashTable ------------------------------
(***************************************************************************)
(* components/dsa/hash_table.c: an open-addressing table of products with  *)
(* linear probing and tombstones (ENTRY_DELETED).  The functions of the C  *)
(* file are operators on a table; the machine below calls them in any      *)
(* order.  A product is its id and its stock, and Home is hash_string      *)
(* followed by the remainder, so ids may collide as they please.           *)
(***************************************************************************)
EXTENDS Integers, FiniteSets

CONSTANTS Ids, NoId, Size, Home, MaxStock

ASSUME HashAssumption ==
  /\ Size \in Nat \ {0} /\ MaxStock \in Nat
  /\ NoId \notin Ids /\ Home \in [Ids -> 0..(Size - 1)]

Cells == 0..(Size - 1)

Entry(status, id, stock) == [status |-> status, id |-> id, stock |-> stock]
Empty    == Entry("empty", NoId, 0)
\* The product of a removed entry stays in memory, and is never read.
Deleted  == Entry("deleted", NoId, 0)
Occupied(id, stock) == Entry("occupied", id, stock)

\* hash_table_init
EmptyTable == [entries |-> [c \in Cells |-> Empty], count |-> 0]

-----------------------------------------------------------------------------
(* Probing.                                                                *)

Probe(id, i) == (Home[id] + i) % Size

Holds(t, id, i) ==
  LET entry == t.entries[Probe(id, i)] IN entry.status = "occupied" /\ entry.id = id

\* The steps of the probe loop for id: it ends at the id or at an empty entry.
Visited(t, id) ==
  {i \in Cells : \A j \in 0..(i - 1) :
     ~Holds(t, id, j) /\ t.entries[Probe(id, j)] # Empty}

Hits(t, id) == {i \in Visited(t, id) : Holds(t, id, i)}

\* Mutant: an insertion takes the first free entry it meets, and overlooks an
\* entry of the same id beyond a tombstone.
Targets_FirstFree(t, id) ==
  {i \in Visited(t, id) : Holds(t, id, i) \/ t.entries[Probe(id, i)] \in {Empty, Deleted}}

\* Where an insertion may put id: over its old entry, else in a free entry.
Targets(t, id) ==
  IF Hits(t, id) # {} THEN Hits(t, id)
  ELSE {i \in Visited(t, id) : t.entries[Probe(id, i)] \in {Empty, Deleted}}

First(S) == CHOOSE i \in S : \A j \in S : i <= j

-----------------------------------------------------------------------------
(* The functions of hash_table.c; Find gives Empty instead of NULL.        *)

Find(t, id) == IF Hits(t, id) = {} THEN Empty
               ELSE t.entries[Probe(id, First(Hits(t, id)))]

CanInsert(t, id) == Targets(t, id) # {}

Inserted(t, id, stock) ==
  IF ~CanInsert(t, id) THEN t
  ELSE [ entries |-> [t.entries EXCEPT ![Probe(id, First(Targets(t, id)))] =
                        Occupied(id, stock)],
         count   |-> IF Hits(t, id) = {} THEN t.count + 1 ELSE t.count ]

\* Mutant: a removed entry becomes empty again and cuts the probe chains.
Removed_Empties(t, id) ==
  IF Hits(t, id) = {} THEN t
  ELSE [ entries |-> [t.entries EXCEPT ![Probe(id, First(Hits(t, id)))] = Empty],
         count   |-> t.count - 1 ]

Removed(t, id) ==
  IF Hits(t, id) = {} THEN t
  ELSE [ entries |-> [t.entries EXCEPT ![Probe(id, First(Hits(t, id)))] = Deleted],
         count   |-> t.count - 1 ]

Updated(t, id, stock) ==
  IF Hits(t, id) = {} THEN t
  ELSE [t EXCEPT !.entries[Probe(id, First(Hits(t, id)))].stock = stock]

IsFull(t) == t.count >= Size

-----------------------------------------------------------------------------
(* What a table means.                                                     *)

Held(t, id) == {c \in Cells : t.entries[c].status = "occupied" /\ t.entries[c].id = id}

Content(t) ==
  [id \in {x \in Ids : Held(t, x) # {}} |-> t.entries[First(Held(t, id))].stock]

\* No id has two entries, every entry is met by the probe loop of its id
\* whatever was removed in between, and the counter is exact.
TableSound(t) ==
  /\ \A id \in Ids : Cardinality(Held(t, id)) <= 1
  /\ \A id \in Ids : Held(t, id) # {} => Hits(t, id) # {}
  /\ t.count = Cardinality({c \in Cells : t.entries[c].status = "occupied"})
=============================================================================
