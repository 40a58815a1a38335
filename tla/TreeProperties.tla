--------------------------- MODULE TreeProperties ---------------------------
(***************************************************************************)
(* What makes BPlusTree correct.                                           *)
(***************************************************************************)
EXTENDS BPlusTree

\* Every variable holds a value of its type.
TypeOK ==
  /\ root_page_id \in DOMAIN pages \cup {INVALID_PAGE_ID}
  /\ DOMAIN pages \subseteq 1 .. next_page - 1
  /\ answer \in {"none", "inserted", "exists"}
  /\ task.doing \in {"nothing", "split", "mend"}
  /\ task.doing \in {"split", "mend"} => task.path \in Seq(DOMAIN pages) /\ task.key \in Key
  /\ task.doing = "split" => task.sep \in Key /\ task.child \in DOMAIN pages
  /\ \A p \in DOMAIN pages :
       IF pages[p].leaf
       THEN /\ pages[p].entries \in Seq(Key \X Value)
            /\ pages[p].next_page_id \in DOMAIN pages \cup {INVALID_PAGE_ID}
       ELSE /\ pages[p].keys \in Seq(Key)
            /\ pages[p].children \in Seq(DOMAIN pages)
            /\ Len(pages[p].keys) + 1 = Len(pages[p].children)

\* The fewest elements of page p: a root may have few, and the page that Mend
\* is about to help has one fewer than the others.
Fewest(p) ==
  LET least == IF pages[p].leaf THEN leaf_min_size ELSE internal_min_size
  IN IF p = root_page_id THEN IF pages[p].leaf THEN 1 ELSE 2
     ELSE IF task.doing = "mend" /\ p = Turn(Last(task.path), task.key) THEN least - 1
     ELSE least

\* The tree stays balanced and its pages stay between half full and full, so
\* that a page array never overflows and a path is never longer than a Trace:
\* the splits and merges of one Insert or Remove reach as far up as needed
\* (SelectSibling counts on a second child).
BalancedAndFilled ==
  /\ \A p \in DOMAIN pages :
       GetSize(pages[p]) \in
         Fewest(p) .. (IF pages[p].leaf THEN leaf_max_size ELSE internal_max_size) - 1
  /\ task = Idle /\ root_page_id # INVALID_PAGE_ID =>
       \A j, k \in Key : Len(FindPath(j)) = Len(FindPath(k))

\* Each page hangs at one place: a page that is split off or merged away is
\* neither lost nor shared, and the root hangs nowhere, nor does the page that
\* AddChild is about to hang.
EachPageHangsOnce ==
  \A p \in DOMAIN pages :
    Cardinality({s \in (DOMAIN pages) \X (1 .. internal_max_size) :
                   /\ ~pages[s[1]].leaf
                   /\ s[2] \in DOMAIN pages[s[1]].children
                   /\ pages[s[1]].children[s[2]] = p})
      = IF p = root_page_id \/ (task.doing = "split" /\ p = task.child) THEN 0 ELSE 1

\* The entries of the leaves, wherever they hang.
Entries == UNION {ToSet(pages[p].entries) : p \in {q \in DOMAIN pages : pages[q].leaf}}

\* Every stored entry is found by its key and nothing else is: FindPath turns
\* the right way at each separator, although splits, loans and merges move the
\* separators.
LookupsFind ==
  task = Idle =>
    \A key \in Key : GetValue(key) = {e[2] : e \in {d \in Entries : d[1] = key}}

\* Where an iterator can stand, and what it yields there.
Places == {at \in (DOMAIN pages) \X (1 .. leaf_max_size) :
             pages[at[1]].leaf /\ at[2] \in DOMAIN pages[at[1]].entries}
EntryAt(at) == pages[at[1]].entries[at[2]]

\* at is the place of the first entry from key low on, or the end.
IsFirstFrom(at, low) ==
  IF \E e \in Entries : e[1] >= low
  THEN /\ at \in Places /\ EntryAt(at)[1] >= low
       /\ \A e \in Entries : e[1] >= low => EntryAt(at)[1] <= e[1]
  ELSE at = End

\* An iterator that begins at any key yields every entry from there on once
\* and in order, and ends: it begins at the first of them, and each step leads
\* to the one with the next larger key.  The chain of the leaves keeps up with
\* splits, loans and merges of the tree above it, and no leaf in it is empty.
ScansInOrder ==
  task = Idle =>
    /\ \A key \in Key : IsFirstFrom(KeyBegin(key), key)
    /\ \A at \in Places : IsFirstFrom(Advance(at), EntryAt(at)[1] + 1)

Contract == INSTANCE IndexContract WITH
  index <- [key \in {e[1] : e \in Entries} |-> CHOOSE v \in Value : <<key, v>> \in Entries]

\* The tree is a map: one Insert or Remove changes what is stored for its key
\* and for no other, in its first step, whatever pages are split, evened out or
\* merged then.
ImplementsIndex == Contract!Spec
=============================================================================
