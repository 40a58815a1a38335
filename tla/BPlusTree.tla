----------------------------- MODULE BPlusTree -----------------------------
(***************************************************************************)
(* bpt::BPlusTree (src/include/index/): every index of the program, a tree *)
(* of pages in the buffer pool.  Leaves hold the entries in order and are  *)
(* chained from left to right; an internal page has one separator fewer    *)
(* than children.                                                          *)
(*                                                                         *)
(* Insert and Remove work their way up the path that FindPath has laid     *)
(* down: a step for the leaf, then one for each level that a split or a    *)
(* merge reaches.  The next command begins when the last one has ended.    *)
(*                                                                         *)
(* A page is named by its number; entries pair a key with its value, as    *)
(* key_array_ and value_array_ do by position.  A page that is merged away *)
(* is never freed: its number stays used.                                  *)
(***************************************************************************)
EXTENDS Integers, Sequences, FiniteSets, SequencesExt

CONSTANTS
  Key, Value,          \* what callers store; keys are compared as numbers
  leaf_max_size,       \* (4096 - 24) / the size of an entry: from 3 up
  internal_max_size,
  MaxPages             \* bound on the page numbers

INVALID_PAGE_ID == -1

ASSUME SizeAssumption ==
  /\ Key \subseteq Int
  /\ leaf_max_size \in Nat /\ leaf_max_size >= 3
  /\ internal_max_size \in Nat /\ internal_max_size >= 4

leaf_min_size == leaf_max_size \div 2
internal_min_size == internal_max_size \div 2

VARIABLES
  pages,         \* the pages of the tree by number
  root_page_id,  \* what the header page holds
  next_page,     \* the number of the next new page
  task,          \* what the command under way has still to do
  answer         \* what Insert returns

vars == <<pages, root_page_id, next_page, task, answer>>

Leaf(entries, next) == [leaf |-> TRUE, entries |-> entries, next_page_id |-> next]
Internal(keys, children) == [leaf |-> FALSE, keys |-> keys, children |-> children]
GetSize(page) == IF page.leaf THEN Len(page.entries) ELSE Len(page.children)

\* The tree with the pages of new written and those in gone given up.
Write(new, gone) ==
  pages' = [p \in (DOMAIN pages \cup DOMAIN new) \ gone |->
              IF p \in DOMAIN new THEN new[p] ELSE pages[p]]

\* No command is under way; page child, whose first key is sep, has been split
\* off and waits for a place in the last page of path; the child for key of
\* the last page of path is too small.  path is what is left of the Trace.
Idle == [doing |-> "nothing"]
Splitting(path, key, sep, child) ==
  [doing |-> "split", path |-> path, key |-> key, sep |-> sep, child |-> child]
Mending(path, key) == [doing |-> "mend", path |-> path, key |-> key]

Init ==
  /\ pages = [p \in {} |-> {}]
  /\ root_page_id = INVALID_PAGE_ID
  /\ next_page = 1
  /\ task = Idle
  /\ answer = "none"

-----------------------------------------------------------------------------
\* Searching.

\* A mistake: the search passes over an equal key.
EntrySlotPast(page, key) ==
  1 + Cardinality({i \in DOMAIN page.entries : page.entries[i][1] <= key})

\* InternalPage::KeyIndex - 1: the child whose range holds key.
ChildSlot(page, key) == 1 + Cardinality({i \in DOMAIN page.keys : page.keys[i] <= key})

\* LeafPage::KeyIndex: the first entry whose key is not below key.
EntrySlot(page, key) == 1 + Cardinality({i \in DOMAIN page.entries : page.entries[i][1] < key})

HasKeyAt(page, slot, key) == slot <= Len(page.entries) /\ page.entries[slot][1] = key

\* The child of page p for key.
Turn(p, key) == pages[p].children[ChildSlot(pages[p], key)]

\* The descent for key, from the root to a leaf, where it stays.
Descent(key) ==
  LET page[d \in Nat] ==
        IF d = 0 THEN root_page_id
        ELSE LET above == page[d - 1]
             IN IF pages[above].leaf THEN above ELSE Turn(above, key)
  IN page

\* FindPath: the pages from the root down to the leaf for key.
FindPath(key) ==
  LET page == Descent(key)
      levels == CHOOSE d \in 0 .. next_page :
                  /\ pages[page[d]].leaf
                  /\ \A i \in 0 .. d - 1 : ~pages[page[i]].leaf
  IN [i \in 1 .. levels + 1 |-> page[i - 1]]

LeafFor(key) == Last(FindPath(key))

\* The entry that GetValue finds, as a set of one element or none.
GetValue(key) ==
  IF root_page_id = INVALID_PAGE_ID THEN {}
  ELSE LET page == pages[LeafFor(key)]
           slot == EntrySlot(page, key)
       IN IF HasKeyAt(page, slot, key) THEN {page.entries[slot][2]} ELSE {}

\* Where an iterator stands: at an entry of a leaf, or at the end, on no page.
End == <<INVALID_PAGE_ID, 1>>

\* operator++
Advance(at) ==
  LET page == pages[at[1]]
  IN IF at[2] + 1 <= Len(page.entries) THEN <<at[1], at[2] + 1>>
     ELSE <<page.next_page_id, 1>>

KeyBegin(key) ==
  IF root_page_id = INVALID_PAGE_ID THEN End
  ELSE LET p == LeafFor(key)
           slot == EntrySlot(pages[p], key)
       IN IF slot > Len(pages[p].entries) THEN Advance(<<p, slot>>) ELSE <<p, slot>>

-----------------------------------------------------------------------------
\* Inserting.

\* Mistakes: a page splits one element too late; the new leaf is left out of
\* the chain.
LeafOverflowsLate(size) == size > leaf_max_size
LeafHalvesUnchained(entries, next, fresh) ==
  LET left == Len(entries) - Len(entries) \div 2
  IN <<Leaf(SubSeq(entries, 1, left), next),
       Leaf(SubSeq(entries, left + 1, Len(entries)), next)>>

LeafOverflows(size) == size >= leaf_max_size
InternalOverflows(size) == size >= internal_max_size

\* The first left elements on one page and the others on the next.  The key
\* between two internal pages is on neither.
CutLeaf(entries, left, link, next) ==
  <<Leaf(SubSeq(entries, 1, left), link),
    Leaf(SubSeq(entries, left + 1, Len(entries)), next)>>
CutInternal(keys, children, left) ==
  <<Internal(SubSeq(keys, 1, left - 1), SubSeq(children, 1, left)),
    Internal(SubSeq(keys, left + 1, Len(keys)),
             SubSeq(children, left + 1, Len(children)))>>

\* SplitPage: the left and the right half; the left one is the larger.
LargerHalf(size) == size - size \div 2
LeafHalves(entries, next, fresh) ==
  CutLeaf(entries, LargerHalf(Len(entries)), fresh, next)
InternalHalves(keys, children) ==
  CutInternal(keys, children, LargerHalf(Len(children)))

\* Page p gives way to the two halves, the right one on a new page.
SplitOff(p, halves) ==
  /\ Write([q \in {p, next_page} |-> IF q = p THEN halves[1] ELSE halves[2]], {})
  /\ next_page' = next_page + 1

\* The new page enters the last page of the path beside the one it was split
\* from, and that page may split in its turn.
AddChild ==
  /\ task.doing = "split" /\ task.path # <<>>
  /\ LET p == Last(task.path)
         slot == ChildSlot(pages[p], task.key)
         keys == InsertAt(pages[p].keys, slot, task.sep)
         children == InsertAt(pages[p].children, slot + 1, task.child)
         halves == InternalHalves(keys, children)
     IN IF InternalOverflows(Len(children))
        THEN /\ SplitOff(p, halves)
             /\ task' = Splitting(Front(task.path), task.key,
                                  keys[Len(halves[1].children)], next_page)
        ELSE /\ Write([q \in {p} |-> Internal(keys, children)], {})
             /\ task' = Idle
             /\ UNCHANGED next_page
  /\ UNCHANGED <<root_page_id, answer>>

\* The root itself was split: a new root gets the two halves.
AddRoot ==
  /\ task.doing = "split" /\ task.path = <<>>
  /\ Write([p \in {next_page} |-> Internal(<<task.sep>>, <<root_page_id, task.child>>)], {})
  /\ root_page_id' = next_page
  /\ next_page' = next_page + 1
  /\ task' = Idle
  /\ UNCHANGED answer

\* The leaf at the end of path takes the entry, and splits when it is full.
InsertInLeaf(path, slot, key, value) ==
  LET p == Last(path)
      entries == InsertAt(pages[p].entries, slot, <<key, value>>)
      next == pages[p].next_page_id
      halves == LeafHalves(entries, next, next_page)
  IN IF LeafOverflows(Len(entries))
     THEN /\ SplitOff(p, halves)
          /\ task' = Splitting(Front(path), key, halves[2].entries[1][1], next_page)
     ELSE /\ Write([q \in {p} |-> Leaf(entries, next)], {})
          /\ UNCHANGED <<next_page, task>>

InsertFirst(key, value) ==
  /\ task = Idle /\ root_page_id = INVALID_PAGE_ID
  /\ Write([p \in {next_page} |-> Leaf(<<<<key, value>>>>, INVALID_PAGE_ID)], {})
  /\ root_page_id' = next_page
  /\ next_page' = next_page + 1
  /\ answer' = "inserted"
  /\ UNCHANGED task

Insert(key, value) ==
  /\ task = Idle /\ root_page_id # INVALID_PAGE_ID
  /\ LET path == FindPath(key)
         slot == EntrySlot(pages[Last(path)], key)
     IN IF HasKeyAt(pages[Last(path)], slot, key)
        THEN answer' = "exists" /\ UNCHANGED <<pages, next_page, task>>
        ELSE answer' = "inserted" /\ InsertInLeaf(path, slot, key, value)
  /\ UNCHANGED root_page_id

-----------------------------------------------------------------------------
\* Removing.

\* SelectSibling: whether the neighbour chosen for the child at slot is the
\* right one, the larger of two with a preference for the left.
SiblingRight(parent, slot) ==
  LET SizeAt(i) == GetSize(pages[parent.children[i]])
  IN \/ slot = 1
     \/ /\ slot # Len(parent.children)
        /\ SizeAt(slot - 1) < SizeAt(slot + 1)

\* Mistakes: a merged leaf keeps its link to the page that is gone; a merged
\* page loses the first child of the right one; the separator is the key that
\* was moved, or the one there was.
MergedLeafStaleLink(a, b) == Leaf(a.entries \o b.entries, a.next_page_id)
MergedInternalShort(a, middle, b) ==
  Internal(a.keys \o b.keys, a.children \o Tail(b.children))
LeafLoanMovedKey(a, b, left) ==
  LET entries == a.entries \o b.entries
      halves == CutLeaf(entries, left, a.next_page_id, b.next_page_id)
  IN [left |-> halves[1], right |-> halves[2],
      sep |-> entries[IF left > Len(a.entries) THEN left ELSE left + 1][1]]
InternalLoanOldKey(a, middle, b, left) ==
  LET keys == a.keys \o <<middle>> \o b.keys
      halves == CutInternal(keys, a.children \o b.children, left)
  IN [left |-> halves[1], right |-> halves[2], sep |-> middle]

\* MergePage: the left page takes over what the right one holds.
MergedLeaf(a, b) == Leaf(a.entries \o b.entries, b.next_page_id)
MergedInternal(a, middle, b) ==
  Internal(a.keys \o <<middle>> \o b.keys, a.children \o b.children)

\* BorrowFromPage: one element moves from the larger page to the smaller, so
\* that the left one has left elements, and the separator between the two moves
\* with it.
LeafLoan(a, b, left) ==
  LET entries == a.entries \o b.entries
      halves == CutLeaf(entries, left, a.next_page_id, b.next_page_id)
  IN [left |-> halves[1], right |-> halves[2], sep |-> entries[left + 1][1]]
InternalLoan(a, middle, b, left) ==
  LET keys == a.keys \o <<middle>> \o b.keys
      halves == CutInternal(keys, a.children \o b.children, left)
  IN [left |-> halves[1], right |-> halves[2], sep |-> keys[left]]

\* Page p loses its child at place + 1, which merged, left of it, has taken
\* over.  A root that keeps a single child gives way to it.
DropChild(p, place, merged) ==
  LET l == pages[p].children[place]
      r == pages[p].children[place + 1]
      page == Internal(RemoveAt(pages[p].keys, place),
                       RemoveAt(pages[p].children, place + 1))
      new == [q \in {l, p} |-> IF q = l THEN merged ELSE page]
  IN IF Len(task.path) > 1
     THEN /\ Write(new, {r})
          /\ task' = IF GetSize(page) < internal_min_size
                     THEN Mending(Front(task.path), task.key) ELSE Idle
          /\ UNCHANGED root_page_id
     ELSE /\ task' = Idle
          /\ IF GetSize(page) = 1
             THEN /\ Write(new, {r, p})
                  /\ root_page_id' = page.children[1]
             ELSE /\ Write(new, {r})
                  /\ UNCHANGED root_page_id

\* The children of page p at place and after it get what loan says, and p the
\* separator between them.
MoveOver(p, place, loan) ==
  LET l == pages[p].children[place]
      r == pages[p].children[place + 1]
      page == Internal([pages[p].keys EXCEPT ![place] = loan.sep], pages[p].children)
  IN /\ Write([q \in {l, r, p} |->
                 IF q = l THEN loan.left ELSE IF q = r THEN loan.right ELSE page], {})
     /\ task' = Idle
     /\ UNCHANGED root_page_id

\* The child for key of the last page of the path is too small: it is merged
\* with its sibling, and the parent loses the right one of the two, or it
\* borrows.  The left one of the two is at place.
Mend ==
  /\ task.doing = "mend"
  /\ LET p == Last(task.path)
         slot == ChildSlot(pages[p], task.key)
         toLeft == SiblingRight(pages[p], slot)
         place == IF toLeft THEN slot ELSE slot - 1
         a == pages[pages[p].children[place]]
         b == pages[pages[p].children[place + 1]]
         middle == pages[p].keys[place]
         size == GetSize(a) + GetSize(b)
         left == GetSize(a) + (IF toLeft THEN 1 ELSE -1)
     IN IF a.leaf
        THEN IF LeafOverflows(size)
             THEN MoveOver(p, place, LeafLoan(a, b, left))
             ELSE DropChild(p, place, MergedLeaf(a, b))
        ELSE IF InternalOverflows(size)
             THEN MoveOver(p, place, InternalLoan(a, middle, b, left))
             ELSE DropChild(p, place, MergedInternal(a, middle, b))
  /\ UNCHANGED <<next_page, answer>>

\* The last entry of a root takes the tree with it; another leaf that has got
\* too small is to be mended.
RemoveFromLeaf(path, slot, key) ==
  LET p == Last(path)
      page == Leaf(RemoveAt(pages[p].entries, slot), pages[p].next_page_id)
  IN IF Len(path) = 1 /\ GetSize(page) = 0
     THEN /\ Write([q \in {} |-> {}], {p})
          /\ root_page_id' = INVALID_PAGE_ID
          /\ UNCHANGED task
     ELSE /\ Write([q \in {p} |-> page], {})
          /\ task' = IF Len(path) = 1 \/ GetSize(page) >= leaf_min_size
                     THEN Idle ELSE Mending(Front(path), key)
          /\ UNCHANGED root_page_id

RemoveKey(key) ==
  /\ task = Idle
  /\ IF GetValue(key) = {}
     THEN UNCHANGED <<pages, root_page_id, task>>
     ELSE LET path == FindPath(key)
          IN RemoveFromLeaf(path, EntrySlot(pages[Last(path)], key), key)
  /\ answer' = "none"
  /\ UNCHANGED next_page

\* The constructor of the next run allocates a page that nobody will use.
Reopen ==
  /\ task = Idle
  /\ next_page' = next_page + 1
  /\ answer' = "none"
  /\ UNCHANGED <<pages, root_page_id, task>>

\* An Insert takes a page for the leaf, one for each level above, and a root.
Next ==
  \/ \E key \in Key, value \in Value :
       next_page + 4 <= MaxPages /\ (InsertFirst(key, value) \/ Insert(key, value))
  \/ \E key \in Key : RemoveKey(key)
  \/ AddChild \/ AddRoot \/ Mend
  \/ next_page < MaxPages /\ Reopen

Spec == Init /\ [][Next]_vars
=============================================================================
