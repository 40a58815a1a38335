----------------------------- MODULE PageTable -----------------------------
(***************************************************************************)
(* bpt::MyHashMap (src/include/storage/buffer_pool_manager.hpp): the page  *)
(* table of the buffer pool, an array probed in steps, where an erased     *)
(* entry leaves a tombstone.  No slot ever becomes EMPTY again.            *)
(*                                                                         *)
(* The buffer pool inserts a page only when find has not found it, and     *)
(* never keeps more pages than it has frames, fewer than there are slots.  *)
(***************************************************************************)
EXTENDS Integers, FiniteSets, Index

CONSTANTS
  SIZE_,   \* slots (53 in the program)
  STEP_,   \* distance of two probes (7)
  Key,     \* page numbers
  Value,   \* frame numbers
  MaxLive  \* frames of the pool (50)

INVALID_FRAME_ID == -1

ASSUME TableAssumption ==
  /\ SIZE_ \in Nat \ {0}
  /\ STEP_ \in Nat
  /\ Key \subseteq Nat
  /\ Value \subseteq Nat
  /\ MaxLive \in Nat
  /\ MaxLive < SIZE_

\* 53 is prime: the probes of a key come back to its first slot only when they
\* have been everywhere else.
ASSUME StepAssumption == \A i \in 1 .. SIZE_ - 1 : (i * STEP_) % SIZE_ # 0

VARIABLES
  array,  \* the slots
  found,  \* the value that the last find or erase returned
  model   \* what the table should hold: the pages in frames, as an index

vars == <<array, found, model>>

Slot == 0 .. SIZE_ - 1
Init ==
  /\ array = [s \in Slot |-> [key |-> -1, value |-> -1, state |-> "EMPTY"]]
  /\ found = INVALID_FRAME_ID
  /\ model = EmptyIndex

-----------------------------------------------------------------------------
\* The i-th slot that a loop over now_place looks at for key.
Probe(key, i) == (key + i * STEP_) % SIZE_

\* The number of probes before the loop is back at its first slot.
Round == CHOOSE n \in 1 .. SIZE_ : /\ Probe(0, n) = 0
                                   /\ \A m \in 1 .. n - 1 : Probe(0, m) # 0

\* The first probe that meets one of slots, or Round when none does.
FirstProbe(key, slots) ==
  CHOOSE i \in 0 .. Round :
    /\ i = Round \/ Probe(key, i) \in slots
    /\ \A j \in 0 .. i - 1 : Probe(key, j) \notin slots

InState(state) == {s \in Slot : array[s].state = state}
Holding(key) == {s \in InState("EXIST") : array[s].key = key}

\* A mistake: the search ends at a tombstone.
SearchEndAtTombstone(key) ==
  FirstProbe(key, InState("EMPTY") \cup InState("DELETE") \cup Holding(key))

\* Where the loops of find and erase come to rest.
SearchEnd(key) == FirstProbe(key, InState("EMPTY") \cup Holding(key))

Finds(key) ==
  /\ SearchEnd(key) < Round
  /\ Probe(key, SearchEnd(key)) \in InState("EXIST")

FoundValue(key) ==
  IF Finds(key) THEN array[Probe(key, SearchEnd(key))].value ELSE INVALID_FRAME_ID

Find(key) ==
  /\ found' = FoundValue(key)
  /\ UNCHANGED <<array, model>>

Insert(key, value) ==
  /\ FoundValue(key) = INVALID_FRAME_ID
  /\ Cardinality(DOMAIN model) < MaxLive
  /\ LET i == FirstProbe(key, Slot \ InState("EXIST"))
     IN array' = IF i = Round THEN array
                 ELSE [array EXCEPT ![Probe(key, i)] =
                         [key |-> key, value |-> value, state |-> "EXIST"]]
  /\ model' = IndexInsert(model, key, value)
  /\ UNCHANGED found

\* A mistake: the slot is made EMPTY and hides the keys that were probed past
\* it.
EraseEmpties(key) ==
  /\ found' = FoundValue(key)
  /\ array' = IF Finds(key)
              THEN [array EXCEPT ![Probe(key, SearchEnd(key))].state = "EMPTY"]
              ELSE array
  /\ model' = IndexRemove(model, key)

Erase(key) ==
  /\ found' = FoundValue(key)
  /\ array' = IF Finds(key)
              THEN [array EXCEPT ![Probe(key, SearchEnd(key))].state = "DELETE"]
              ELSE array
  /\ model' = IndexRemove(model, key)

Next ==
  \E key \in Key :
    \/ Find(key)
    \/ \E value \in Value : Insert(key, value)
    \/ Erase(key)

Spec == Init /\ [][Next]_vars

-----------------------------------------------------------------------------
\* A find tells for every key what was inserted last and not erased since,
\* however many tombstones, collisions and reused slots lie on its path.
FindsTheModel ==
  \A key \in Key :
    FoundValue(key) = IF key \in DOMAIN model THEN model[key] ELSE INVALID_FRAME_ID

\* The entries that exist are the model's, each once: the destructor of the
\* pool writes the pages back by a walk over the slots.
SlotsAreTheModel ==
  /\ {<<array[s].key, array[s].value>> : s \in InState("EXIST")}
       = {<<key, model[key]>> : key \in DOMAIN model}
  /\ \A s, t \in InState("EXIST") : array[s].key = array[t].key => s = t
=============================================================================
