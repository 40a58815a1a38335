------------------------------- MODULE Index -------------------------------
(***************************************************************************)
(* What bpt::BPlusTree promises the code above it: a finite map whose      *)
(* Insert refuses a key that is already there and whose Remove ignores a   *)
(* key that is not.  An index is a function; its domain is the set of the  *)
(* keys it stores.                                                         *)
(***************************************************************************)

EmptyIndex == [key \in {} |-> {}]

\* BPlusTree::Insert; the tree is left alone when the key is stored already,
\* and the callers in train_system.cpp ignore the FALSE it returns.
IndexInsert(index, key, value) ==
  IF key \in DOMAIN index
  THEN index
  ELSE [k \in DOMAIN index \cup {key} |-> IF k = key THEN value ELSE index[k]]

\* A loop of Inserts, one for each key of entries.
IndexInsertAll(index, entries) ==
  [k \in DOMAIN index \cup DOMAIN entries |->
     IF k \in DOMAIN index THEN index[k] ELSE entries[k]]

\* BPlusTree::Remove.
IndexRemove(index, key) == [k \in DOMAIN index \ {key} |-> index[k]]

\* The idiom of the callers: Remove(key); Insert(key, value).
IndexReplace(index, key, value) ==
  IndexInsert(IndexRemove(index, key), key, value)

\* index is a finite map from some of Keys to Values.
IsIndex(index, Keys, Values) ==
  /\ DOMAIN index \subseteq Keys
  /\ index \in [DOMAIN index -> Values]
=============================================================================
