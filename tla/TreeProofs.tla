----------------------------- MODULE TreeProofs -----------------------------
(***************************************************************************)
(* Proofs about BPlusTree, for any keys, values and page sizes and for     *)
(* trees of any height: the tree stays balanced and filled, every page     *)
(* hangs at one place, every lookup and every scan finds what is stored,   *)
(* and the tree is the map that module Index promises.                     *)
(***************************************************************************)
EXTENDS TreeLemmas, Index

-----------------------------------------------------------------------------
\* The inductive invariant: the tree has its shape before and after each step,
\* and the task says where it is not yet what the levels say.

\* From how many elements on a page splits, and how many it is to have.
Room(page) == IF page.leaf THEN leaf_max_size ELSE internal_max_size
Half(page) == IF page.leaf THEN leaf_min_size ELSE internal_min_size

\* Page low has one element too few, and no other page that has a parent.
SizeFits(page, p, root, low) ==
  /\ GetSize(page) \in Nat /\ GetSize(page) < Room(page)
  /\ p = low => GetSize(page) + 1 = Half(page)
  /\ p # low /\ p # root => GetSize(page) >= Half(page)
  /\ p = root => GetSize(page) >= IF page.leaf THEN 1 ELSE 2

SizesFit(pg, root, low) == \A p \in DOMAIN pg : SizeFits(pg[p], p, root, low)

\* No command is under way: every page that a key is led through is known to
\* the page above it.
AtRest(pg, root, next, job, H, at) ==
  /\ H < next /\ Shape(pg, root, H, at, at) /\ SizesFit(pg, root, INVALID_PAGE_ID)
  /\ job = Idle

\* Page p of level L has been split, and the page above does not know of child,
\* to which the keys from sep on belong.
InSplit(pg, root, next, job, H, at, see, L, p, key, sep, child) ==
  /\ H < next /\ Shape(pg, root, H, at, see) /\ SizesFit(pg, root, INVALID_PAGE_ID)
  /\ L \in 0 .. H /\ key \in Key /\ sep \in Key /\ p \in Int /\ child \in Int
  /\ job = Splitting(Way(at, H, L, key), key, sep, child)
  /\ Pending(at, see, H, L, p, child, sep) /\ see[L][key] = p
  /\ L = H => GetSize(pg[root]) >= Half(pg[root])

\* The page of level L for key has one element too few.
InMend(pg, root, next, job, H, at, L, key) ==
  /\ H < next /\ Shape(pg, root, H, at, at) /\ SizesFit(pg, root, at[L][key])
  /\ L \in 0 .. H /\ L < H /\ key \in Key
  /\ job = Mending(Way(at, H, L, key), key)

\* A tree is at rest or waits for AddChild, AddRoot or Mend.
Standing(pg, root, next, job) ==
  \/ \E H, at : AtRest(pg, root, next, job, H, at)
  \/ \E H, at, see, L, p, key, sep, child :
       InSplit(pg, root, next, job, H, at, see, L, p, key, sep, child)
  \/ \E H, at, L, key : InMend(pg, root, next, job, H, at, L, key)

\* The inductive invariant.
Sound ==
  /\ next_page \in Nat /\ next_page >= 1 /\ DOMAIN pages \subseteq 1 .. next_page - 1
  /\ answer \in {"none", "inserted", "exists"}
  /\ root_page_id = INVALID_PAGE_ID => DOMAIN pages = {} /\ task = Idle
  /\ root_page_id # INVALID_PAGE_ID => Standing(pages, root_page_id, next_page, task)

\* What task.doing says of where the tree stands.
LEMMA TaskIs ==
  /\ Idle.doing = "nothing"
  /\ \A path, key, sep, child :
       LET job == Splitting(path, key, sep, child)
       IN job.doing = "split" /\ job.path = path /\ job.key = key /\ job.sep = sep /\ job.child = child
  /\ \A path, key :
       LET job == Mending(path, key) IN job.doing = "mend" /\ job.path = path /\ job.key = key
  BY DEF Idle, Splitting, Mending

\* task.doing tells which of the three it is.
LEMMA StandingBy ==
  ASSUME Sound
  PROVE  /\ task.doing = "nothing" /\ root_page_id # INVALID_PAGE_ID =>
              \E H, at : AtRest(pages, root_page_id, next_page, task, H, at)
         /\ task.doing = "split" =>
              /\ root_page_id # INVALID_PAGE_ID
              /\ \E H, at, see, L, p, key, sep, child :
                   InSplit(pages, root_page_id, next_page, task, H, at, see, L, p, key, sep, child)
         /\ task.doing = "mend" =>
              /\ root_page_id # INVALID_PAGE_ID
              /\ \E H, at, L, key : InMend(pages, root_page_id, next_page, task, H, at, L, key)
<1>1. task.doing # "nothing" => root_page_id # INVALID_PAGE_ID
  BY TaskIs DEF Sound
<1>2. ASSUME root_page_id # INVALID_PAGE_ID
      PROVE  \/ /\ task.doing = "nothing"
                /\ \E H, at : AtRest(pages, root_page_id, next_page, task, H, at)
             \/ /\ task.doing = "split"
                /\ \E H, at, see, L, p, key, sep, child :
                     InSplit(pages, root_page_id, next_page, task, H, at, see, L, p, key, sep, child)
             \/ /\ task.doing = "mend"
                /\ \E H, at, L, key : InMend(pages, root_page_id, next_page, task, H, at, L, key)
  <2>1. Standing(pages, root_page_id, next_page, task)
    BY <1>2 DEF Sound
  <2>2. ASSUME NEW H, NEW at, AtRest(pages, root_page_id, next_page, task, H, at)
        PROVE  task.doing = "nothing"
    BY <2>2, TaskIs DEF AtRest
  <2>3. ASSUME NEW H, NEW at, NEW see, NEW L, NEW p, NEW key, NEW sep, NEW child,
               InSplit(pages, root_page_id, next_page, task, H, at, see, L, p, key, sep, child)
        PROVE  task.doing = "split"
    <3>1. task = Splitting(Way(at, H, L, key), key, sep, child)
      BY <2>3 DEF InSplit
    <3>2. QED
      BY <3>1, TaskIs
  <2>4. ASSUME NEW H, NEW at, NEW L, NEW key, InMend(pages, root_page_id, next_page, task, H, at, L, key)
        PROVE  task.doing = "mend"
    <3>1. task = Mending(Way(at, H, L, key), key)
      BY <2>4 DEF InMend
    <3>2. QED
      BY <3>1, TaskIs
  <2>5. QED
    BY <2>1, <2>2, <2>3, <2>4, Zenon DEF Standing
<1>3. "nothing" # "split" /\ "nothing" # "mend" /\ "split" # "mend"
  OBVIOUS
<1>4. QED
  BY <1>1, <1>2, <1>3, Zenon

\* What a step writes.
LEMMA WriteFacts ==
  ASSUME NEW new, NEW gone, Write(new, gone)
  PROVE  /\ DOMAIN pages' = (DOMAIN pages \cup DOMAIN new) \ gone
         /\ \A p \in DOMAIN pages' : p \in DOMAIN new => pages'[p] = new[p]
         /\ \A p \in DOMAIN pages' : p \notin DOMAIN new => pages'[p] = pages[p]
  BY DEF Write

\* There is no tree at first.
LEMMA SoundInit == Init => Sound
  BY DEF Init, Sound, INVALID_PAGE_ID

\* The first key of all makes a leaf that is the root.
LEMMA FirstShape ==
  ASSUME NEW n \in Int, n # INVALID_PAGE_ID, NEW key \in Key, NEW value \in Value,
         NEW pg, DOMAIN pg = {n}, pg[n] = Leaf(<<<<key, value>>>>, INVALID_PAGE_ID)
  PROVE  /\ \E at : Shape(pg, n, 0, at, at)
         /\ SizesFit(pg, n, INVALID_PAGE_ID)
<1>1. PICK row : row = [k \in Int |-> n]
  OBVIOUS
<1>2. PICK at : at = [l \in 0 .. 0 |-> row]
  OBVIOUS
<1>3. PICK entries : entries = <<<<key, value>>>>
  OBVIOUS
<1>4. entries \in Seq(Key \X Value) /\ Len(entries) = 1 /\ entries[1] = <<key, value>> /\ entries[1][1] = key
  BY <1>3
<1>5. pg[n].leaf = TRUE /\ pg[n].entries = entries /\ pg[n].next_page_id = INVALID_PAGE_ID
  BY <1>3 DEF Leaf
<1>6. at[0] = row /\ \A k \in Int : row[k] = n
  BY <1>1, <1>2
<1>7. Rows(pg, 0, at)
  <2>1. row \in [Int -> DOMAIN pg]
    BY <1>1
  <2>2. at \in [0 .. 0 -> [Int -> DOMAIN pg]]
    BY <1>2, <2>1
  <2>3. QED
    BY <2>2 DEF Rows
<1>8. Apart(0, at) /\ Covered(pg, 0, at)
  <2>1. Apart(0, at)
    BY DEF Apart
  <2>2. 0 \in 0 .. 0 /\ 0 \in Int
    OBVIOUS
  <2>3. Covered(pg, 0, at)
    BY <1>6, <2>2 DEF Covered
  <2>4. QED
    BY <2>1, <2>3
<1>9. LeavesFit(pg, at[0])
  <2> SUFFICES ASSUME NEW k \in Int PROVE LeafFits(pg[row[k]], Held(row, row[k]))
    BY <1>6 DEF LeavesFit
  <2>1. key \in Held(row, n)
    BY <1>6, SizeAssumption DEF Held
  <2>2. LeafFits(pg[n], Held(row, n))
    BY <1>4, <1>5, <2>1 DEF LeafFits
  <2>3. QED
    BY <1>6, <2>2
<1>10. Chained(pg, at[0])
  <2>1. \A k \in Int : row[k] = n /\ row[k + 1] = n
    BY <1>6
  <2>2. QED
    BY <1>5, <1>6, <2>1 DEF Chained
<1>11. \A k \in Int : at[0][k] = n
  BY <1>6
<1>12. Shape(pg, n, 0, at, at)
  BY <1>7, <1>8, <1>9, <1>10, <1>11 DEF Shape, LevelsFit
<1>13. SizesFit(pg, n, INVALID_PAGE_ID)
  <2>1. GetSize(pg[n]) = 1 /\ Room(pg[n]) = leaf_max_size /\ Half(pg[n]) = leaf_min_size
    BY <1>4, <1>5 DEF GetSize, Room, Half
  <2>2. 1 < leaf_max_size
    BY SizeAssumption
  <2>3. QED
    BY <1>5, <2>1, <2>2 DEF SizesFit, SizeFits
<1>14. QED
  BY <1>12, <1>13

\* InsertFirst keeps the tree sound ...
LEMMA InsertFirstSound ==
  ASSUME Sound, NEW key \in Key, NEW value \in Value, InsertFirst(key, value)
  PROVE  Sound'
<1>1. PICK n : n = next_page
  OBVIOUS
<1>2. n \in Nat /\ n >= 1 /\ DOMAIN pages = {} /\ task = Idle
  BY <1>1 DEF Sound, InsertFirst
<1>3. PICK leaf : leaf = Leaf(<<<<key, value>>>>, INVALID_PAGE_ID)
  OBVIOUS
<1>4. Write([p \in {n} |-> leaf], {}) /\ root_page_id' = n /\ next_page' = n + 1 /\ answer' = "inserted" /\ task' = Idle
  BY <1>1, <1>2, <1>3 DEF InsertFirst
<1>5. DOMAIN pages' = {n} /\ pages'[n] = leaf
  BY <1>2, <1>4 DEF Write
<1>6. n \in Int /\ 0 < n + 1 /\ n \in 1 .. n /\ n # INVALID_PAGE_ID
  BY <1>2 DEF INVALID_PAGE_ID
<1>7. (\E at : Shape(pages', n, 0, at, at)) /\ SizesFit(pages', n, INVALID_PAGE_ID)
  BY <1>3, <1>5, <1>6, FirstShape
<1>8. \E H, at : AtRest(pages', n, n + 1, task', H, at)
  BY <1>4, <1>6, <1>7 DEF AtRest
<1>9. Standing(pages', root_page_id', next_page', task')
  BY <1>4, <1>8 DEF Standing
<1>10. next_page' \in Nat /\ next_page' >= 1 /\ DOMAIN pages' \subseteq 1 .. next_page' - 1
  BY <1>2, <1>4, <1>5
<1>11. QED
  BY <1>4, <1>6, <1>9, <1>10 DEF Sound

\* ... and so does a page number that nobody uses.
LEMMA ReopenSound ==
  ASSUME Sound, Reopen
  PROVE  Sound'
<1>1. /\ next_page' = next_page + 1 /\ answer' = "none" /\ task = Idle
      /\ pages' = pages /\ root_page_id' = root_page_id /\ task' = task
  BY DEF Reopen
<1>2. next_page \in Nat /\ next_page >= 1 /\ DOMAIN pages \subseteq 1 .. next_page - 1
  BY DEF Sound
<1>3. next_page' \in Nat /\ next_page' >= 1 /\ DOMAIN pages' \subseteq 1 .. next_page' - 1
  BY <1>1, <1>2
<1>4. ASSUME root_page_id # INVALID_PAGE_ID
      PROVE  Standing(pages', root_page_id', next_page', task')
  <2>1. PICK H, at : AtRest(pages, root_page_id, next_page, task, H, at)
    BY <1>1, <1>4, StandingBy, TaskIs
  <2>2. H < next_page + 1
    <3>1. H \in Nat /\ H < next_page
      BY <2>1 DEF AtRest, Shape, Rows
    <3>2. QED
      BY <1>2, <3>1
  <2>3. AtRest(pages', root_page_id', next_page', task', H, at)
    BY <1>1, <2>1, <2>2 DEF AtRest
  <2>4. QED
    BY <2>3 DEF Standing
<1>5. QED
  BY <1>1, <1>3, <1>4 DEF Sound

\* A page that has got full is split in two that are at least half full.
LEMMA HalvesOf ==
  ASSUME NEW n \in Nat, n >= 3, NEW left, left = LargerHalf(n)
  PROVE  /\ left \in 1 .. n - 1 /\ left < n /\ left >= n \div 2
         /\ \A r \in Nat : n = left + r => r = n \div 2 /\ r < n
<1>1. PICK h \in Nat : h = n \div 2 /\ 1 <= h /\ 2 * h <= n
  <2>1. n \div 2 \in Nat /\ 1 <= n \div 2 /\ 2 * (n \div 2) <= n
    OBVIOUS
  <2>2. QED
    BY <2>1
<1>2. left = n - h
  BY <1>1 DEF LargerHalf
<1>3. QED
  BY <1>1, <1>2

\* The root was split: a new one gets the two halves.
LEMMA AddRootSound ==
  ASSUME Sound, AddRoot
  PROVE  Sound'
<1>1. root_page_id # INVALID_PAGE_ID /\ task.doing = "split" /\ task.path = <<>>
  BY StandingBy DEF AddRoot
<1>2. PICK H, at, see, L, p, key, sep, child :
        InSplit(pages, root_page_id, next_page, task, H, at, see, L, p, key, sep, child)
  BY <1>1, StandingBy
<1>3. /\ H < next_page /\ Shape(pages, root_page_id, H, at, see) /\ SizesFit(pages, root_page_id, INVALID_PAGE_ID)
      /\ L \in 0 .. H /\ key \in Key /\ sep \in Key /\ p \in Int /\ child \in Int
      /\ task = Splitting(Way(at, H, L, key), key, sep, child)
      /\ Pending(at, see, H, L, p, child, sep) /\ see[L][key] = p
      /\ L = H => GetSize(pages[root_page_id]) >= Half(pages[root_page_id])
  BY <1>2 DEF InSplit
<1>4. H \in Nat /\ key \in Int /\ see[H][key] = root_page_id
  <2>1. key \in Int
    BY <1>3, SizeAssumption
  <2>2. QED
    BY <1>3, <2>1 DEF Shape, Rows
<1>5. task.path = Way(at, H, L, key) /\ task.sep = sep /\ task.child = child
  BY <1>3, TaskIs
<1>6. L = H
  <2> SUFFICES ASSUME L # H PROVE FALSE
    OBVIOUS
  <2>1. L < H /\ L \in Int /\ -1 <= L
    BY <1>3, <1>4
  <2>2. Leads(pages, H, at, see, key)
    BY <1>3, <1>4, LevelFacts
  <2>3. Leading(pages, H, at, key)
    BY <2>2 DEF Leads, Leading
  <2>4. Climbs(task.path, pages, H, at, L, key)
    BY <1>4, <1>5, <2>1, <2>3, WayFacts
  <2>5. QED
    BY <1>1, <2>4 DEF Climbs
<1>7. p = root_page_id /\ root_page_id \in Int /\ Pending(at, see, H, H, root_page_id, child, sep)
  BY <1>3, <1>4, <1>6
<1>8. PICK n : n = next_page
  OBVIOUS
<1>9. n \in Nat /\ n >= 1 /\ DOMAIN pages \subseteq 1 .. n - 1
  BY <1>8 DEF Sound
<1>10. n \in Int /\ n \notin DOMAIN pages /\ n # INVALID_PAGE_ID /\ n \in 1 .. (n + 1) - 1
  BY <1>9 DEF INVALID_PAGE_ID
<1>11. PICK new : new = Internal(<<sep>>, <<root_page_id, child>>)
  OBVIOUS
<1>12. /\ Write([x \in {n} |-> new], {}) /\ root_page_id' = n /\ next_page' = n + 1 /\ task' = Idle
       /\ answer' = answer
  BY <1>5, <1>8, <1>11 DEF AddRoot
<1>13. /\ DOMAIN pages' = DOMAIN pages \cup {n} /\ pages'[n] = new
       /\ \A x \in DOMAIN pages : pages'[x] = pages[x]
  BY <1>10, <1>12 DEF Write
<1>14. \E at2 : Shape(pages', n, H + 1, at2, at2)
  BY <1>3, <1>7, <1>10, <1>11, <1>13, GrowShape
<1>15. SizesFit(pages', n, INVALID_PAGE_ID)
  <2> SUFFICES ASSUME NEW x \in DOMAIN pages' PROVE SizeFits(pages'[x], x, n, INVALID_PAGE_ID)
    BY DEF SizesFit
  <2>1. CASE x = n
    <3>1. new.leaf = FALSE /\ GetSize(new) = 2 /\ Room(new) = internal_max_size
      BY <1>11 DEF Internal, GetSize, Room
    <3>2. 2 < internal_max_size
      BY SizeAssumption
    <3>3. QED
      BY <1>10, <1>13, <2>1, <3>1, <3>2 DEF SizeFits
  <2>2. CASE x # n
    <3>1. x \in DOMAIN pages /\ pages'[x] = pages[x]
      BY <1>13, <2>2
    <3>2. SizeFits(pages[x], x, root_page_id, INVALID_PAGE_ID)
      BY <1>3, <3>1 DEF SizesFit
    <3>3. x = root_page_id => GetSize(pages[x]) >= Half(pages[x])
      BY <1>3, <1>6
    <3>4. x # INVALID_PAGE_ID
      BY <1>9, <3>1 DEF INVALID_PAGE_ID
    <3>5. QED
      BY <2>2, <3>1, <3>2, <3>3, <3>4 DEF SizeFits
  <2>3. QED
    BY <2>1, <2>2
<1>16. H + 1 < n + 1
  BY <1>3, <1>4, <1>8, <1>9
<1>17. \E h, at2 : AtRest(pages', n, n + 1, task', h, at2)
  BY <1>12, <1>14, <1>15, <1>16 DEF AtRest
<1>18. Standing(pages', root_page_id', next_page', task')
  BY <1>12, <1>17 DEF Standing
<1>19. next_page' \in Nat /\ next_page' >= 1 /\ DOMAIN pages' \subseteq 1 .. next_page' - 1
  BY <1>9, <1>10, <1>12, <1>13
<1>20. QED
  BY <1>10, <1>12, <1>18, <1>19 DEF Sound

\* Where AddChild hangs the new page: the page above the one that was split.
LEMMA PlaceOfChild ==
  ASSUME NEW pg, NEW root, NEW H, NEW at, NEW see, Shape(pg, root, H, at, see),
         NEW L \in 0 .. H, L < H, NEW p \in Int, NEW child \in Int, NEW sep \in Key,
         Pending(at, see, H, L, p, child, sep), NEW key \in Int, see[L][key] = p,
         NEW q, q = at[L + 1][key]
  PROVE  /\ InnerFits(pg[q], Held(at[L + 1], q), see[L])
         /\ at[L + 1][sep] = q /\ ChildSlot(pg[q], key) = ChildSlot(pg[q], sep)
<1>1. sep \in Int
  BY SizeAssumption
<1>2. InnersFit(pg, at[L + 1], see[L])
  BY DEF Shape, LevelsFit
<1>3. PICK up, page, F, row : up = at[L + 1] /\ page = pg[q] /\ F = Held(up, q) /\ row = see[L]
  OBVIOUS
<1>4. InnerFits(page, F, row)
  <2>1. InnerFits(pg[up[key]], Held(up, up[key]), row)
    BY <1>2, <1>3 DEF InnersFit
  <2>2. QED
    BY <1>3, <2>1
<1>5. key \in F /\ row[key] = p /\ row[sep] = p
  <2>1. key \in F
    BY <1>3 DEF Held
  <2>2. see[L][sep] = p
    BY <1>1 DEF Pending, Parted
  <2>3. QED
    BY <1>3, <2>1, <2>2
<1>6. sep \in F /\ ChildSlot(page, key) = ChildSlot(page, sep)
  BY <1>1, <1>4, <1>5 DEF InnerFits
<1>7. at[L + 1][sep] = q
  BY <1>3, <1>6 DEF Held
<1>8. QED
  BY <1>3, <1>4, <1>6, <1>7

\* AddChild, seen from the page that takes the child: it splits in its turn, or
\* the tree is whole again.
LEMMA AddChildSound ==
  ASSUME Sound, AddChild
  PROVE  Sound'
<1>1. root_page_id # INVALID_PAGE_ID /\ task.doing = "split" /\ task.path # <<>>
  BY StandingBy DEF AddChild
<1>2. PICK H, at, see, L, p, key, sep, child :
        InSplit(pages, root_page_id, next_page, task, H, at, see, L, p, key, sep, child)
  BY <1>1, StandingBy
<1>3. /\ H < next_page /\ Shape(pages, root_page_id, H, at, see) /\ SizesFit(pages, root_page_id, INVALID_PAGE_ID)
      /\ L \in 0 .. H /\ key \in Key /\ sep \in Key /\ p \in Int /\ child \in Int
      /\ task = Splitting(Way(at, H, L, key), key, sep, child)
      /\ Pending(at, see, H, L, p, child, sep) /\ see[L][key] = p
  BY <1>2 DEF InSplit
<1>4. H \in Nat /\ key \in Int /\ sep \in Int
  <2>1. key \in Int /\ sep \in Int
    BY <1>3, SizeAssumption
  <2>2. QED
    BY <1>3, <2>1 DEF Shape, Rows
<1>5. task.path = Way(at, H, L, key) /\ task.key = key /\ task.sep = sep /\ task.child = child
  BY <1>3, TaskIs
<1>6. L < H
  <2> SUFFICES ASSUME L = H PROVE FALSE
    BY <1>3, <1>4
  <2>1. task.path = <<>>
    BY <1>4, <1>5, WayEnds
  <2>2. QED
    BY <1>1, <2>1
<1>7. PICK q : q = at[L + 1][key]
  OBVIOUS
<1>8. Last(task.path) = q /\ Front(task.path) = Way(at, H, L + 1, key) /\ q \in DOMAIN pages
  <2>1. L \in Int /\ -1 <= L /\ L + 1 \in 0 .. H
    BY <1>3, <1>4, <1>6
  <2>2. Leads(pages, H, at, see, key)
    BY <1>3, <1>4, LevelFacts
  <2>3. Leading(pages, H, at, key) /\ at[L + 1][key] \in DOMAIN pages
    BY <2>1, <2>2 DEF Leads, Leading
  <2>4. Climbs(task.path, pages, H, at, L, key)
    BY <1>4, <1>5, <1>6, <2>1, <2>3, WayFacts
  <2>5. QED
    BY <1>7, <2>3, <2>4 DEF Climbs
<1>9. PICK page, F, slot, n : page = pages[q] /\ F = Held(at[L + 1], q) /\ slot = ChildSlot(page, key) /\ n = next_page
  OBVIOUS
<1>10. InnerFits(page, F, see[L]) /\ at[L + 1][sep] = q /\ slot = ChildSlot(page, sep)
  <2>1. /\ InnerFits(pages[q], Held(at[L + 1], q), see[L])
        /\ at[L + 1][sep] = q /\ ChildSlot(pages[q], key) = ChildSlot(pages[q], sep)
    BY <1>3, <1>4, <1>6, <1>7, PlaceOfChild
  <2>2. QED
    BY <1>9, <2>1
<1>11. PICK keys, children, new : /\ keys = InsertAt(page.keys, slot, sep)
                                  /\ children = InsertAt(page.children, slot + 1, child)
                                  /\ new = Internal(keys, children)
  OBVIOUS
<1>12. F \in SUBSET Int
  BY <1>9 DEF Held
<1>13. Hung(new, page, slot, sep, child)
  BY <1>3, <1>10, <1>11, <1>12, HangAtSlot
<1>14. new.leaf = FALSE /\ new.keys = keys /\ new.children = children
  BY <1>11 DEF Internal
<1>15. n \in Nat /\ n >= 1 /\ DOMAIN pages \subseteq 1 .. n - 1
  BY <1>9 DEF Sound
<1>16. n \in Int /\ n \notin DOMAIN pages /\ n # INVALID_PAGE_ID /\ q # n /\ q # INVALID_PAGE_ID
  BY <1>8, <1>15 DEF INVALID_PAGE_ID
<1>17. PICK pg : pg = [x \in DOMAIN pages |-> IF x = q THEN new ELSE pages[x]]
  OBVIOUS
<1>18. DOMAIN pg = DOMAIN pages /\ pg[q] = new /\ \A x \in DOMAIN pages : x # q => pg[x] = pages[x]
  BY <1>8, <1>17
<1>19. Shape(pg, root_page_id, H, at, at)
  <2>1. q = at[L + 1][sep] /\ Hung(new, pages[q], ChildSlot(pages[q], sep), sep, child)
    BY <1>9, <1>10, <1>13
  <2>2. QED
    BY <1>3, <1>6, <1>18, <2>1, HangShape
<1>20. Len(children) = Len(page.children) + 1 /\ Len(children) = Len(keys) + 1
       /\ keys \in Seq(Key) /\ children \in Seq(Int) /\ Len(page.children) \in Nat /\ Len(page.children) >= 1
  <2>1. new.keys \in Seq(Key) /\ new.children \in Seq(Int) /\ Len(new.keys) = Len(page.keys) + 1
        /\ Len(new.children) = Len(page.children) + 1
    BY <1>13 DEF Hung, Inserted
  <2>2. Len(page.children) = Len(page.keys) + 1 /\ page.keys \in Seq(Key) /\ page.children \in Seq(Int)
    BY <1>10 DEF InnerFits
  <2>3. Len(page.keys) \in Nat
    BY <2>2
  <2>4. QED
    BY <1>14, <2>1, <2>2, <2>3
<1>21. page.leaf = FALSE
  BY <1>10 DEF InnerFits
<1>22. SizeFits(page, q, root_page_id, INVALID_PAGE_ID) /\ GetSize(page) = Len(page.children)
       /\ Room(page) = internal_max_size /\ Half(page) = internal_min_size
  BY <1>3, <1>8, <1>9, <1>21 DEF SizesFit, GetSize, Room, Half
<1>23. Len(page.children) < internal_max_size
  BY <1>22 DEF SizeFits
<1>24. CASE ~ InternalOverflows(Len(children))
  <2>1. Write([x \in {q} |-> new], {}) /\ task' = Idle /\ next_page' = n /\ root_page_id' = root_page_id /\ answer' = answer
    BY <1>5, <1>8, <1>9, <1>11, <1>24 DEF AddChild
  <2>2. /\ DOMAIN pages' = DOMAIN pages /\ pages'[q] = new
        /\ \A x \in DOMAIN pages : x # q => pages'[x] = pages[x]
    BY <1>8, <2>1 DEF Write
  <2>3. Shape(pages', root_page_id, H, at, at)
    <3>1. pages' = pg
      BY <1>17, <2>1, <1>8 DEF Write
    <3>2. QED
      BY <1>19, <3>1
  <2>4. SizesFit(pages', root_page_id, INVALID_PAGE_ID)
    <3> SUFFICES ASSUME NEW x \in DOMAIN pages' PROVE SizeFits(pages'[x], x, root_page_id, INVALID_PAGE_ID)
      BY DEF SizesFit
    <3>1. CASE x = q
      <4>1. GetSize(new) = Len(page.children) + 1 /\ Room(new) = internal_max_size /\ Half(new) = internal_min_size
        BY <1>14, <1>20 DEF GetSize, Room, Half
      <4>2. Len(page.children) + 1 < internal_max_size
        <5>1. Len(children) < internal_max_size
          BY <1>20, <1>24, SizeAssumption DEF InternalOverflows
        <5>2. QED
          BY <1>20, <5>1
      <4>3. internal_min_size \in Int
        BY SizeAssumption DEF internal_min_size
      <4>4. QED
        BY <1>14, <1>16, <1>20, <1>21, <1>22, <2>2, <3>1, <4>1, <4>2, <4>3 DEF SizeFits
    <3>2. CASE x # q
      BY <1>3, <2>2, <3>2 DEF SizesFit
    <3>3. QED
      BY <3>1, <3>2
  <2>5. AtRest(pages', root_page_id', next_page', task', H, at)
    BY <1>3, <1>9, <2>1, <2>3, <2>4 DEF AtRest
  <2>6. Standing(pages', root_page_id', next_page', task')
    BY <2>5 DEF Standing
  <2>7. next_page' \in Nat /\ next_page' >= 1 /\ DOMAIN pages' \subseteq 1 .. next_page' - 1
    BY <1>15, <2>1, <2>2
  <2>8. QED
    BY <1>1, <2>1, <2>6, <2>7 DEF Sound
<1>25. CASE InternalOverflows(Len(children))
  <2>1. PICK halves, left, size : /\ halves = InternalHalves(keys, children) /\ size = Len(children)
                                  /\ left = LargerHalf(size)
    OBVIOUS
  <2>2. size \in Nat /\ size >= 3 /\ size = internal_max_size /\ Len(keys) = size - 1
    <3>1. size >= internal_max_size
      BY <1>25, <2>1 DEF InternalOverflows
    <3>2. size \in Nat /\ size = Len(page.children) + 1 /\ size = Len(keys) + 1
      BY <1>20, <2>1
    <3>3. Len(keys) \in Nat
      BY <1>20
    <3>4. QED
      BY <1>20, <1>23, <3>1, <3>2, <3>3, SizeAssumption
  <2>3. left \in 1 .. size - 1 /\ left < size /\ left >= internal_min_size
        /\ \A r \in Nat : size = left + r => r = internal_min_size /\ r < size
    <3>1. left \in 1 .. size - 1 /\ left < size /\ left >= size \div 2
          /\ \A r \in Nat : size = left + r => r = size \div 2 /\ r < size
      BY <2>1, <2>2, HalvesOf
    <3>2. QED
      BY <2>2, <3>1 DEF internal_min_size
  <2>4. PICK a, b : a = halves[1] /\ b = halves[2]
    OBVIOUS
  <2>5. CutAt(a, b, new, left)
    <3>1. halves = CutInternal(keys, children, left)
      BY <2>1 DEF InternalHalves
    <3>2. left \in 1 .. Len(keys)
      BY <2>2, <2>3
    <3>3. QED
      BY <1>11, <1>20, <2>4, <3>1, <3>2, CutInternalIs
  <2>6. PICK r \in Nat : CutChildrenAre(a, b, new, left, r)
    BY <2>5, CutChildren
  <2>7. Len(a.children) = left /\ Len(b.children) = r /\ size = left + r /\ 1 <= left
    BY <1>14, <2>1, <2>6 DEF CutChildrenAre
  <2>8. PICK sep2 : sep2 = keys[left]
    OBVIOUS
  <2>9. InnerFits(new, F, at[L])
    <3>1. InnersFit(pg, at[L + 1], at[L])
      BY <1>3, <1>6, <1>19 DEF Shape, LevelsFit
    <3>2. InnerFits(pg[at[L + 1][key]], Held(at[L + 1], at[L + 1][key]), at[L])
      BY <1>4, <3>1 DEF InnersFit
    <3>3. QED
      BY <1>7, <1>9, <1>18, <3>2
  <2>10. /\ sep2 \in Key /\ sep2 \in F
         /\ InnerFits(a, {k \in F : k < sep2}, at[L]) /\ InnerFits(b, {k \in F : sep2 <= k}, at[L])
    <3>1. sep2 = new.keys[left]
      BY <1>14, <2>8
    <3>2. QED
      BY <1>12, <2>5, <2>9, <3>1, CutFits
  <2>11. sep2 \in Int /\ at[L + 1][sep2] = q
    BY <1>9, <2>10 DEF Held
  <2>12. \E k \in Int : k < sep2 /\ at[L + 1][k] = q
    <3>1. 1 \in 1 .. Len(a.children)
      BY <2>3, <2>7
    <3>2. PICK k \in {j \in F : j < sep2} : ChildSlot(a, k) = 1
      BY <2>10, <3>1 DEF InnerFits
    <3>3. QED
      BY <1>9, <3>2 DEF Held
  <2>13. L + 1 \in 0 .. H /\ L \in Nat
    BY <1>3, <1>4, <1>6
  <2>14. HalvesFit(a, b, pg[q], at, L + 1, q, n, sep2)
    <3>1. L + 1 # 0 /\ \A l \in Nat : L + 1 = l + 1 => l = L
      BY <2>13
    <3>2. QED
      BY <1>9, <2>10, <3>1 DEF HalvesFit
  <2>15. /\ SplitOff(q, halves) /\ root_page_id' = root_page_id /\ answer' = answer
         /\ task' = Splitting(Front(task.path), key, keys[Len(halves[1].children)], n)
    BY <1>5, <1>8, <1>9, <1>11, <1>25, <2>1 DEF AddChild
  <2>16. /\ Write([x \in {q, n} |-> IF x = q THEN a ELSE b], {}) /\ next_page' = n + 1
         /\ task' = Splitting(Way(at, H, L + 1, key), key, sep2, n)
    BY <1>8, <1>9, <2>4, <2>7, <2>8, <2>15 DEF SplitOff
  <2>17. /\ DOMAIN pages' = DOMAIN pages \cup {n} /\ pages'[q] = a /\ pages'[n] = b
         /\ \A x \in DOMAIN pages : x # q => pages'[x] = pages[x]
    BY <1>8, <1>16, <2>16 DEF Write
  <2>18. PICK at2 : Shape(pages', root_page_id, H, at2, at) /\ Pending(at2, at, H, L + 1, q, n, sep2)
    <3>1. /\ DOMAIN pages' = DOMAIN pg \cup {n} /\ \A x \in DOMAIN pg : x # q => pages'[x] = pg[x]
      BY <1>18, <2>17
    <3>2. n \notin DOMAIN pg
      BY <1>16, <1>18
    <3>3. QED
      BY <1>16, <1>19, <2>11, <2>12, <2>13, <2>14, <2>17, <3>1, <3>2, CutShape
  <2>19. Way(at2, H, L + 1, key) = Way(at, H, L + 1, key)
    <3>1. \A l \in 0 .. H : L + 1 < l => at2[l] = at[l]
      BY <2>13, <2>18 DEF Pending
    <3>2. QED
      BY <1>4, <2>13, <3>1, SameWay
  <2>20. a.leaf = FALSE /\ b.leaf = FALSE
    BY <2>10 DEF InnerFits
  <2>21. /\ GetSize(a) = left /\ Room(a) = internal_max_size /\ Half(a) = internal_min_size
         /\ GetSize(b) = r /\ Room(b) = internal_max_size /\ Half(b) = internal_min_size
    BY <2>7, <2>20 DEF GetSize, Room, Half
  <2>22. /\ left \in Nat /\ left < internal_max_size /\ left >= internal_min_size /\ left >= 2
         /\ r < internal_max_size /\ r = internal_min_size
    <3>1. internal_min_size >= 2 /\ internal_min_size \in Nat
      BY SizeAssumption DEF internal_min_size
    <3>2. QED
      BY <2>2, <2>3, <2>7, <3>1
  <2>23. SizesFit(pages', root_page_id, INVALID_PAGE_ID)
    <3> SUFFICES ASSUME NEW x \in DOMAIN pages' PROVE SizeFits(pages'[x], x, root_page_id, INVALID_PAGE_ID)
      BY DEF SizesFit
    <3>1. CASE x = q
      BY <1>16, <2>17, <2>20, <2>21, <2>22, <3>1 DEF SizeFits
    <3>2. CASE x = n
      <4>1. root_page_id # n
        <5>1. root_page_id \in DOMAIN pages
          <6>1. Leads(pg, H, at, at, key)
            BY <1>4, <1>19, LevelFacts
          <6>2. at[H][key] \in DOMAIN pg /\ at[H][key] = root_page_id
            BY <1>4, <1>19, <6>1 DEF Leads, Shape
          <6>3. QED
            BY <1>18, <6>2
        <5>2. QED
          BY <1>16, <5>1
      <4>2. r \in Nat /\ r >= internal_min_size
        BY <2>22, SizeAssumption DEF internal_min_size
      <4>3. QED
        BY <1>16, <2>17, <2>20, <2>21, <2>22, <3>2, <4>1, <4>2 DEF SizeFits
    <3>3. CASE x # q /\ x # n
      BY <1>3, <2>17, <3>3 DEF SizesFit
    <3>4. QED
      BY <3>1, <3>2, <3>3
  <2>24. L + 1 = H => GetSize(pages'[root_page_id]) >= Half(pages'[root_page_id])
    <3>1. L + 1 = H => root_page_id = q
      BY <1>4, <1>7, <1>19 DEF Shape
    <3>2. QED
      BY <2>17, <2>21, <2>22, <3>1
  <2>25. H < n + 1
    BY <1>3, <1>4, <1>9, <1>15
  <2>26. q \in Int
    BY <1>8, <1>15
  <2>27. InSplit(pages', root_page_id', next_page', task', H, at2, at, L + 1, q, key, sep2, n)
    BY <1>3, <1>7, <1>16, <2>10, <2>13, <2>15, <2>16, <2>18, <2>19, <2>23, <2>24, <2>25, <2>26 DEF InSplit
  <2>28. Standing(pages', root_page_id', next_page', task')
    BY <2>27 DEF Standing
  <2>29. next_page' \in Nat /\ next_page' >= 1 /\ DOMAIN pages' \subseteq 1 .. next_page' - 1
    BY <1>15, <2>16, <2>17
  <2>30. QED
    BY <1>1, <2>15, <2>28, <2>29 DEF Sound
<1>26. QED
  BY <1>24, <1>25

\* The leaf for a key, when no command is under way.
LEMMA LeafOf ==
  ASSUME NEW H, NEW at, AtRest(pages, root_page_id, next_page, task, H, at), next_page \in Nat,
         NEW key \in Int, NEW p, p = at[0][key]
  PROVE  /\ FindPath(key) = Way(at, H, -1, key)
         /\ Last(FindPath(key)) = p /\ LeafFor(key) = p /\ Len(FindPath(key)) = H + 1
         /\ Front(FindPath(key)) = Way(at, H, 0, key)
         /\ p \in DOMAIN pages /\ LeafFits(pages[p], Held(at[0], p)) /\ key \in Held(at[0], p)
         /\ H \in Nat
<1>1. Shape(pages, root_page_id, H, at, at) /\ H < next_page
  BY DEF AtRest
<1>2. H \in Nat
  BY <1>1 DEF Shape, Rows
<1>3. FindPath(key) = Way(at, H, -1, key)
  BY <1>1, FindPathIs
<1>4. Leads(pages, H, at, at, key)
  BY <1>1, LevelFacts
<1>5. Leading(pages, H, at, key) /\ at[0][key] \in DOMAIN pages
  BY <1>2, <1>4 DEF Leads, Leading
<1>6. PICK L, path : L = -1 /\ path = FindPath(key)
  OBVIOUS
<1>7. path = Way(at, H, L, key) /\ L \in Int /\ -1 <= L /\ L < H /\ L + 1 = 0 /\ H - L = H + 1
  BY <1>2, <1>3, <1>6
<1>8. Len(path) = H - L /\ Last(path) = at[L + 1][key] /\ Front(path) = Way(at, H, L + 1, key)
  <2>1. Climbs(path, pages, H, at, L, key)
    BY <1>2, <1>5, <1>7, WayFacts
  <2>2. QED
    BY <2>1 DEF Climbs
<1>9. p \in DOMAIN pages
  BY <1>2, <1>5
<1>10. LeafFits(pages[p], Held(at[0], p))
  <2>1. LeavesFit(pages, at[0])
    BY <1>1 DEF Shape, LevelsFit
  <2>2. QED
    BY <2>1 DEF LeavesFit
<1>11. key \in Held(at[0], p)
  BY DEF Held
<1>12. QED
  BY <1>2, <1>3, <1>6, <1>7, <1>8, <1>9, <1>10, <1>11 DEF LeafFor

\* Insert keeps the tree sound, whether the leaf splits or not.
LEMMA InsertSound ==
  ASSUME Sound, NEW key \in Key, NEW value \in Value, Insert(key, value)
  PROVE  Sound'
<1>1. root_page_id # INVALID_PAGE_ID /\ task = Idle /\ root_page_id' = root_page_id
  BY DEF Insert
<1>2. PICK H, at : AtRest(pages, root_page_id, next_page, task, H, at)
  BY <1>1, StandingBy, TaskIs
<1>3. /\ H < next_page /\ Shape(pages, root_page_id, H, at, at) /\ SizesFit(pages, root_page_id, INVALID_PAGE_ID)
  BY <1>2 DEF AtRest
<1>4. PICK p, page, F, slot, n : /\ p = at[0][key] /\ page = pages[p] /\ F = Held(at[0], p)
                                 /\ slot = EntrySlot(page, key) /\ n = next_page
  OBVIOUS
<1>5. n \in Nat /\ n >= 1 /\ DOMAIN pages \subseteq 1 .. n - 1 /\ key \in Int
  BY <1>4, SizeAssumption DEF Sound
<1>6. PICK path : path = FindPath(key)
  OBVIOUS
<1>7. /\ Last(path) = p /\ Front(path) = Way(at, H, 0, key)
      /\ p \in DOMAIN pages /\ LeafFits(page, F) /\ key \in F /\ H \in Nat /\ F \in SUBSET Int
  <2>1. /\ Last(FindPath(key)) = p /\ Front(FindPath(key)) = Way(at, H, 0, key)
        /\ p \in DOMAIN pages /\ LeafFits(pages[p], Held(at[0], p)) /\ key \in Held(at[0], p) /\ H \in Nat
    BY <1>2, <1>4, <1>5, LeafOf
  <2>2. QED
    BY <1>4, <1>6, <2>1 DEF Held
<1>8. CASE HasKeyAt(page, slot, key)
  <2>1. pages' = pages /\ next_page' = next_page /\ task' = task /\ answer' = "exists"
    BY <1>4, <1>6, <1>7, <1>8 DEF Insert
  <2>2. QED
    BY <1>1, <2>1 DEF Sound
<1>9. CASE ~ HasKeyAt(page, slot, key)
  <2>1. InsertInLeaf(path, slot, key, value) /\ answer' = "inserted"
    BY <1>4, <1>6, <1>7, <1>9 DEF Insert
  <2>2. PICK entries, next, new : /\ entries = InsertAt(page.entries, slot, <<key, value>>)
                                  /\ next = page.next_page_id /\ new = Leaf(entries, next)
    OBVIOUS
  <2>3. new.leaf = TRUE /\ new.entries = entries /\ new.next_page_id = next
    BY <2>2 DEF Leaf
  <2>4. page.leaf = TRUE /\ page.entries \in Seq(Key \X Value)
        /\ \A i, j \in 1 .. Len(page.entries) : i < j => page.entries[i][1] < page.entries[j][1]
    BY <1>7 DEF LeafFits
  <2>5. slot \in 1 .. Len(page.entries) + 1
    BY <1>4, <1>5, <2>4, EntrySlotFacts
  <2>6. entries \in Seq(Key \X Value) /\ Inserted(entries, page.entries, slot, <<key, value>>)
    <3>1. <<key, value>> \in Key \X Value
      OBVIOUS
    <3>2. QED
      BY <2>2, <2>4, <2>5, <3>1, InsertedOne
  <2>7. LeafFits(new, F)
    BY <1>4, <1>7, <1>9, <2>3, <2>6, LeafInsertFits
  <2>8. n \in Int /\ n \notin DOMAIN pages /\ n # INVALID_PAGE_ID /\ p # n /\ p # INVALID_PAGE_ID
    BY <1>5, <1>7 DEF INVALID_PAGE_ID
  <2>9. PICK pg : pg = [x \in DOMAIN pages |-> IF x = p THEN new ELSE pages[x]]
    OBVIOUS
  <2>10. DOMAIN pg = DOMAIN pages /\ pg[p] = new /\ \A x \in DOMAIN pages : x # p => pg[x] = pages[x]
    BY <1>7, <2>9
  <2>11. Shape(pg, root_page_id, H, at, at)
    <3>1. LeafFits(new, Held(at[0], p)) /\ new.next_page_id = pages[p].next_page_id
      BY <1>4, <2>2, <2>3, <2>7
    <3>2. QED
      BY <1>3, <1>4, <1>5, <2>10, <3>1, ContentShape
  <2>12. PICK size \in Nat : size = Len(page.entries) /\ Len(entries) = size + 1
    <3>1. Len(page.entries) \in Nat
      BY <2>4
    <3>2. Len(entries) = Len(page.entries) + 1
      BY <2>6 DEF Inserted
    <3>3. QED
      BY <3>1, <3>2
  <2>13. SizeFits(page, p, root_page_id, INVALID_PAGE_ID) /\ GetSize(page) = size
         /\ Room(page) = leaf_max_size /\ Half(page) = leaf_min_size
    BY <1>3, <1>4, <1>7, <2>4, <2>12 DEF SizesFit, GetSize, Room, Half
  <2>14. CASE ~ LeafOverflows(Len(entries))
    <3>1. Write([x \in {p} |-> new], {}) /\ task' = Idle /\ next_page' = n
      BY <1>1, <1>4, <1>7, <2>1, <2>2, <2>14 DEF InsertInLeaf
    <3>2. pages' = pg
      BY <1>7, <2>9, <3>1 DEF Write
    <3>3. SizesFit(pages', root_page_id, INVALID_PAGE_ID)
      <4> SUFFICES ASSUME NEW x \in DOMAIN pages' PROVE SizeFits(pages'[x], x, root_page_id, INVALID_PAGE_ID)
        BY DEF SizesFit
      <4>1. CASE x = p
        <5>1. GetSize(new) = size + 1 /\ Room(new) = leaf_max_size /\ Half(new) = leaf_min_size
          BY <2>3, <2>12 DEF GetSize, Room, Half
        <5>2. size + 1 < leaf_max_size /\ leaf_min_size \in Int
          BY <2>12, <2>14, SizeAssumption DEF LeafOverflows, leaf_min_size
        <5>3. QED
          BY <2>3, <2>4, <2>8, <2>10, <2>13, <3>2, <4>1, <5>1, <5>2 DEF SizeFits
      <4>2. CASE x # p
        BY <1>3, <2>10, <3>2, <4>2 DEF SizesFit
      <4>3. QED
        BY <4>1, <4>2
    <3>4. AtRest(pages', root_page_id', next_page', task', H, at)
      BY <1>1, <1>3, <1>4, <2>11, <3>1, <3>2, <3>3 DEF AtRest
    <3>5. Standing(pages', root_page_id', next_page', task')
      BY <3>4 DEF Standing
    <3>6. next_page' \in Nat /\ next_page' >= 1 /\ DOMAIN pages' \subseteq 1 .. next_page' - 1
      BY <1>5, <2>10, <3>1, <3>2
    <3>7. QED
      BY <1>1, <2>1, <3>5, <3>6 DEF Sound
  <2>15. CASE LeafOverflows(Len(entries))
    <3>1. PICK halves, left : halves = LeafHalves(entries, next, n) /\ left = LargerHalf(size + 1)
      OBVIOUS
    <3>2. size + 1 = leaf_max_size /\ size + 1 >= 3
      BY <2>12, <2>13, <2>15, SizeAssumption DEF LeafOverflows, SizeFits
    <3>3. left \in 1 .. size /\ left < size + 1 /\ left >= leaf_min_size
          /\ \A r \in Nat : size + 1 = left + r => r = leaf_min_size /\ r < size + 1
      <4>1. PICK m \in Nat : m = size + 1
        OBVIOUS
      <4>2. left \in 1 .. m - 1 /\ left < m /\ left >= m \div 2
            /\ \A r \in Nat : m = left + r => r = m \div 2 /\ r < m
        BY <3>1, <3>2, <4>1, HalvesOf
      <4>3. m - 1 = size
        BY <4>1
      <4>4. QED
        BY <3>2, <4>1, <4>2, <4>3 DEF leaf_min_size
    <3>4. PICK a, b : a = halves[1] /\ b = halves[2]
      OBVIOUS
    <3>5. LeafCut(a, b, new, left) /\ a.next_page_id = n /\ b.next_page_id = next
      <4>1. halves = CutLeaf(entries, left, n, next)
        BY <2>12, <3>1 DEF LeafHalves
      <4>2. left \in 0 .. Len(entries)
        BY <2>12, <3>3
      <4>3. QED
        BY <2>2, <2>6, <3>4, <4>1, <4>2, CutLeafIs
    <3>6. PICK r \in Nat : LeafCutAre(a, b, new, left, r)
      BY <3>5, LeafCutParts
    <3>7. /\ Len(a.entries) = left /\ Len(b.entries) = r /\ size + 1 = left + r
          /\ \A i \in 1 .. left : a.entries[i] = entries[i]
          /\ \A i \in 1 .. r : b.entries[i] = entries[i + left]
      BY <2>3, <2>12, <3>6 DEF LeafCutAre
    <3>8. r = leaf_min_size /\ r < size + 1 /\ 1 <= r
      <4>1. r = leaf_min_size /\ r < size + 1
        BY <3>3, <3>7
      <4>2. QED
        BY <4>1, SizeAssumption DEF leaf_min_size
    <3>9. PICK sep : sep = b.entries[1][1]
      OBVIOUS
    <3>10. sep = new.entries[left + 1][1] /\ left < Len(new.entries)
      <4>1. 1 \in 1 .. r /\ 1 + left = left + 1
        BY <3>3, <3>8
      <4>2. b.entries[1] = entries[left + 1]
        BY <3>7, <4>1
      <4>3. left < Len(entries)
        BY <2>12, <3>3
      <4>4. QED
        BY <2>3, <3>9, <4>2, <4>3
    <3>11. /\ sep \in Key /\ sep \in F
           /\ LeafFits(a, {k \in F : k < sep}) /\ LeafFits(b, {k \in F : sep <= k})
      <4>1. F \in SUBSET Int /\ LeafFits(new, F) /\ LeafCut(a, b, new, left)
        BY <1>7, <2>7, <3>5
      <4>2. CutKey(new, left, sep)
        BY <3>10 DEF CutKey
      <4>3. LeafPartsFit(a, b, F, sep)
        BY <4>1, <4>2, LeafCutFits
      <4>4. QED
        BY <4>3 DEF LeafPartsFit
    <3>12. sep \in Int /\ at[0][sep] = p
      BY <1>4, <3>11 DEF Held
    <3>13. \E k \in Int : k < sep /\ at[0][k] = p
      <4>1. 1 \in 1 .. Len(a.entries)
        BY <3>3, <3>7
      <4>2. a.entries[1][1] \in {k \in F : k < sep}
        BY <3>11, <4>1 DEF LeafFits
      <4>3. QED
        BY <1>4, <4>2 DEF Held
    <3>14. PICK L : L = 0
      OBVIOUS
    <3>15. HalvesFit(a, b, pg[p], at, L, p, n, sep)
      <4>1. \A l \in Nat : ~ (L = l + 1)
        BY <3>14
      <4>2. QED
        BY <1>4, <2>3, <2>10, <3>5, <3>11, <3>14, <4>1 DEF HalvesFit
    <3>16. /\ SplitOff(p, halves)
           /\ task' = Splitting(Front(path), key, sep, n)
      BY <1>4, <1>7, <2>1, <2>2, <2>15, <3>1, <3>4, <3>9 DEF InsertInLeaf
    <3>17. /\ Write([x \in {p, n} |-> IF x = p THEN a ELSE b], {}) /\ next_page' = n + 1
           /\ task' = Splitting(Way(at, H, L, key), key, sep, n)
      BY <1>4, <1>7, <3>4, <3>14, <3>16 DEF SplitOff
    <3>18. /\ DOMAIN pages' = DOMAIN pages \cup {n} /\ pages'[p] = a /\ pages'[n] = b
           /\ \A x \in DOMAIN pages : x # p => pages'[x] = pages[x]
      BY <1>7, <2>8, <3>17 DEF Write
    <3>19. L \in 0 .. H /\ L \in Int /\ -1 <= L
      BY <1>7, <3>14
    <3>20. PICK at2 : Shape(pages', root_page_id, H, at2, at) /\ Pending(at2, at, H, L, p, n, sep)
      <4>1. /\ DOMAIN pages' = DOMAIN pg \cup {n} /\ \A x \in DOMAIN pg : x # p => pages'[x] = pg[x]
            /\ n \notin DOMAIN pg
        BY <2>8, <2>10, <3>18
      <4>2. at[L][sep] = p /\ \E k \in Int : k < sep /\ at[L][k] = p
        BY <3>12, <3>13, <3>14
      <4>3. QED
        BY <2>8, <2>11, <3>12, <3>15, <3>18, <3>19, <4>1, <4>2, CutShape
    <3>21. Way(at2, H, L, key) = Way(at, H, L, key)
      <4>1. \A l \in 0 .. H : L < l => at2[l] = at[l]
        BY <3>14, <3>20 DEF Pending
      <4>2. QED
        BY <1>7, <3>19, <4>1, SameWay
    <3>22. a.leaf = TRUE /\ b.leaf = TRUE
      BY <3>11 DEF LeafFits
    <3>23. /\ GetSize(a) = left /\ Room(a) = leaf_max_size /\ Half(a) = leaf_min_size
           /\ GetSize(b) = r /\ Room(b) = leaf_max_size /\ Half(b) = leaf_min_size
      BY <3>7, <3>22 DEF GetSize, Room, Half
    <3>24. /\ left \in Nat /\ left < leaf_max_size /\ left >= leaf_min_size /\ left >= 1
           /\ r < leaf_max_size /\ r >= leaf_min_size /\ r \in Nat
      BY <3>2, <3>3, <3>8, SizeAssumption DEF leaf_min_size
    <3>25. root_page_id \in DOMAIN pages /\ at[H][key] = root_page_id
      <4>1. Leads(pages, H, at, at, key)
        BY <1>3, <1>5, LevelFacts
      <4>2. at[H][key] \in DOMAIN pages /\ at[H][key] = root_page_id
        BY <1>3, <1>5, <1>7, <4>1 DEF Leads, Shape
      <4>3. QED
        BY <4>2
    <3>26. SizesFit(pages', root_page_id, INVALID_PAGE_ID)
      <4> SUFFICES ASSUME NEW x \in DOMAIN pages' PROVE SizeFits(pages'[x], x, root_page_id, INVALID_PAGE_ID)
        BY DEF SizesFit
      <4>1. CASE x = p
        BY <2>8, <3>18, <3>22, <3>23, <3>24, <4>1 DEF SizeFits
      <4>2. CASE x = n
        BY <2>8, <3>18, <3>22, <3>23, <3>24, <3>25, <4>2 DEF SizeFits
      <4>3. CASE x # p /\ x # n
        BY <1>3, <3>18, <4>3 DEF SizesFit
      <4>4. QED
        BY <4>1, <4>2, <4>3
    <3>27. L = H => GetSize(pages'[root_page_id]) >= Half(pages'[root_page_id])
      BY <1>4, <3>14, <3>18, <3>23, <3>24, <3>25
    <3>28. H < n + 1
      BY <1>3, <1>4, <1>5, <1>7
    <3>29. p \in Int
      BY <1>5, <1>7
    <3>30. at[L][key] = p
      BY <1>4, <3>14
    <3>31. InSplit(pages', root_page_id', next_page', task', H, at2, at, L, p, key, sep, n)
      BY <1>1, <2>8, <3>11, <3>17, <3>19, <3>20, <3>21, <3>26, <3>27, <3>28, <3>29, <3>30 DEF InSplit
    <3>32. Standing(pages', root_page_id', next_page', task')
      BY <3>31 DEF Standing
    <3>33. next_page' \in Nat /\ next_page' >= 1 /\ DOMAIN pages' \subseteq 1 .. next_page' - 1
      BY <1>5, <3>17, <3>18
    <3>34. QED
      BY <1>1, <2>1, <3>32, <3>33 DEF Sound
  <2>16. QED
    BY <2>14, <2>15
<1>10. QED
  BY <1>8, <1>9

\* No page is on two levels.
LEMMA LevelsApart ==
  ASSUME NEW pg, NEW root, NEW H, NEW at, NEW see, Shape(pg, root, H, at, see),
         NEW l \in 0 .. H, NEW m \in 0 .. H, l # m, NEW j \in Int, NEW k \in Int
  PROVE  at[l][j] # at[m][k]
  BY DEF Shape, Apart

\* The row of the root.
LEMMA RootRow ==
  ASSUME NEW pg, NEW root, NEW H, NEW at, Shape(pg, root, H, at, at), NEW key \in Int
  PROVE  H \in Nat /\ at[H][key] = root /\ root \in DOMAIN pg
<1>1. H \in Nat /\ at[H][key] = root
  BY DEF Shape, Rows
<1>2. Leads(pg, H, at, at, key)
  BY LevelFacts
<1>3. QED
  BY <1>1, <1>2 DEF Leads

\* The stored key that Remove found.
LEMMA FoundKey ==
  ASSUME NEW H, NEW at, AtRest(pages, root_page_id, next_page, task, H, at), next_page \in Nat,
         NEW key \in Int, GetValue(key) # {}, NEW p, p = at[0][key]
  PROVE  HasKeyAt(pages[p], EntrySlot(pages[p], key), key)
<1>1. LeafFor(key) = p
  BY LeafOf
<1>2. QED
  BY <1>1 DEF GetValue

\* RemoveKey keeps the tree sound, or leaves a page for Mend.
LEMMA RemoveKeySound ==
  ASSUME Sound, NEW key \in Key, RemoveKey(key)
  PROVE  Sound'
<1>1. task = Idle /\ next_page' = next_page /\ answer' = "none"
  BY DEF RemoveKey
<1>2. CASE GetValue(key) = {}
  <2>1. pages' = pages /\ root_page_id' = root_page_id /\ task' = task
    BY <1>2 DEF RemoveKey
  <2>2. QED
    BY <1>1, <2>1 DEF Sound
<1>3. CASE GetValue(key) # {}
  <2>1. root_page_id # INVALID_PAGE_ID
    BY <1>3 DEF GetValue
  <2>2. PICK H, at : AtRest(pages, root_page_id, next_page, task, H, at)
    BY <1>1, <2>1, StandingBy, TaskIs
  <2>3. H < next_page /\ Shape(pages, root_page_id, H, at, at) /\ SizesFit(pages, root_page_id, INVALID_PAGE_ID)
    BY <2>2 DEF AtRest
  <2>4. PICK p, page, F, slot, path : /\ p = at[0][key] /\ page = pages[p] /\ F = Held(at[0], p)
                                      /\ slot = EntrySlot(page, key) /\ path = FindPath(key)
    OBVIOUS
  <2>5. next_page \in Nat /\ next_page >= 1 /\ DOMAIN pages \subseteq 1 .. next_page - 1 /\ key \in Int
    BY SizeAssumption DEF Sound
  <2>6. /\ Last(path) = p /\ Front(path) = Way(at, H, 0, key) /\ Len(path) = H + 1
        /\ p \in DOMAIN pages /\ LeafFits(page, F) /\ H \in Nat /\ F \in SUBSET Int
    <3>1. /\ Last(FindPath(key)) = p /\ Front(FindPath(key)) = Way(at, H, 0, key) /\ Len(FindPath(key)) = H + 1
          /\ p \in DOMAIN pages /\ LeafFits(pages[p], Held(at[0], p)) /\ H \in Nat
      BY <2>2, <2>4, <2>5, LeafOf
    <3>2. QED
      BY <2>4, <3>1 DEF Held
  <2>7. slot <= Len(page.entries) /\ page.entries[slot][1] = key
    <3>1. HasKeyAt(pages[p], EntrySlot(pages[p], key), key)
      BY <1>3, <2>2, <2>4, <2>5, FoundKey
    <3>2. QED
      BY <2>4, <3>1 DEF HasKeyAt
  <2>8. page.leaf = TRUE /\ page.entries \in Seq(Key \X Value)
        /\ \A i, j \in 1 .. Len(page.entries) : i < j => page.entries[i][1] < page.entries[j][1]
    BY <2>6 DEF LeafFits
  <2>9. slot \in 1 .. Len(page.entries)
    <3>1. slot \in 1 .. Len(page.entries) + 1
      BY <2>4, <2>5, <2>8, EntrySlotFacts
    <3>2. Len(page.entries) \in Nat
      BY <2>8
    <3>3. QED
      BY <2>7, <3>1, <3>2
  <2>10. PICK entries, next, new : /\ entries = RemoveAt(page.entries, slot)
                                   /\ next = page.next_page_id /\ new = Leaf(entries, next)
    OBVIOUS
  <2>11. new.leaf = TRUE /\ new.entries = entries /\ new.next_page_id = next
    BY <2>10 DEF Leaf
  <2>12. entries \in Seq(Key \X Value) /\ Removed(entries, page.entries, slot)
    BY <2>8, <2>9, <2>10, RemovedOne
  <2>13. LeafFits(new, F)
    BY <2>6, <2>9, <2>11, <2>12, LeafRemoveFits
  <2>14. PICK size \in Nat : size = GetSize(new) /\ size + 1 = GetSize(page)
    <3>1. Len(entries) \in Nat
      BY <2>12
    <3>2. Len(entries) + 1 = Len(page.entries)
      BY <2>12 DEF Removed
    <3>3. QED
      BY <2>8, <2>11, <3>1, <3>2 DEF GetSize
  <2>15. RemoveFromLeaf(path, slot, key)
    BY <1>3, <2>4, <2>6 DEF RemoveKey
  <2>16. SizeFits(page, p, root_page_id, INVALID_PAGE_ID)
    BY <2>3, <2>4, <2>6 DEF SizesFit
  <2>17. H \in Nat /\ at[H][key] = root_page_id /\ root_page_id \in DOMAIN pages
    BY <2>3, <2>5, RootRow
  <2>18. H = 0 <=> p = root_page_id
    <3>1. H # 0 => at[0][key] # at[H][key]
      <4>1. 0 \in 0 .. H /\ H \in 0 .. H
        BY <2>17
      <4>2. QED
        BY <2>3, <2>5, <4>1, LevelsApart
    <3>2. QED
      BY <2>4, <2>17, <3>1
  <2>19. CASE Len(path) = 1 /\ GetSize(new) = 0
    <3>1. H = 0
      <4>1. H + 1 = 1 /\ H \in Nat
        BY <2>6, <2>19
      <4>2. QED
        BY <4>1
    <3>2. Write([x \in {} |-> {}], {p}) /\ root_page_id' = INVALID_PAGE_ID /\ task' = Idle
      BY <1>1, <2>4, <2>6, <2>10, <2>15, <2>19 DEF RemoveFromLeaf
    <3>3. DOMAIN pages' = DOMAIN pages \ {p}
      BY <3>2 DEF Write
    <3>4. ASSUME NEW x \in DOMAIN pages PROVE x = p
      <4>1. PICK l \in 0 .. H, k \in Int : at[l][k] = x
        BY <2>3 DEF Shape, Covered
      <4>2. at[0][k] = root_page_id /\ l = 0
        BY <2>3, <3>1 DEF Shape
      <4>3. QED
        BY <2>18, <3>1, <4>1, <4>2
    <3>5. DOMAIN pages' = {}
      BY <3>3, <3>4
    <3>6. QED
      BY <1>1, <2>5, <3>2, <3>5 DEF Sound
  <2>20. CASE ~ (Len(path) = 1 /\ GetSize(new) = 0)
    <3>1. /\ Write([x \in {p} |-> new], {}) /\ root_page_id' = root_page_id
          /\ task' = IF Len(path) = 1 \/ GetSize(new) >= leaf_min_size THEN Idle ELSE Mending(Front(path), key)
      BY <1>1, <2>4, <2>6, <2>10, <2>15, <2>20 DEF RemoveFromLeaf
    <3>2. /\ DOMAIN pages' = DOMAIN pages /\ pages'[p] = new
          /\ \A x \in DOMAIN pages : x # p => pages'[x] = pages[x]
      BY <2>6, <3>1 DEF Write
    <3>3. Shape(pages', root_page_id, H, at, at)
      <4>1. LeafFits(new, Held(at[0], p)) /\ new.next_page_id = pages[p].next_page_id
        BY <2>4, <2>10, <2>11, <2>13
      <4>2. QED
        BY <2>3, <2>4, <2>5, <3>2, <4>1, ContentShape
    <3>4. /\ new.leaf = TRUE /\ Room(new) = leaf_max_size /\ Half(new) = leaf_min_size
          /\ Room(page) = leaf_max_size /\ Half(page) = leaf_min_size
          /\ leaf_min_size \in Nat /\ leaf_max_size \in Nat
      BY <2>8, <2>11, SizeAssumption DEF Room, Half, leaf_min_size
    <3>5. p # INVALID_PAGE_ID
      BY <2>5, <2>6 DEF INVALID_PAGE_ID
    <3>6. ASSUME NEW low, low = INVALID_PAGE_ID \/ low = p,
                 SizeFits(new, p, root_page_id, low)
          PROVE  SizesFit(pages', root_page_id, low)
      <4> SUFFICES ASSUME NEW x \in DOMAIN pages' PROVE SizeFits(pages'[x], x, root_page_id, low)
        BY DEF SizesFit
      <4>1. CASE x = p
        BY <3>2, <3>6, <4>1
      <4>2. CASE x # p
        <5>1. SizeFits(pages[x], x, root_page_id, INVALID_PAGE_ID) /\ x # INVALID_PAGE_ID
          BY <2>3, <2>5, <3>2 DEF SizesFit, INVALID_PAGE_ID
        <5>2. x # low /\ pages'[x] = pages[x]
          BY <3>2, <3>6, <4>2, <5>1
        <5>3. QED
          BY <5>1, <5>2 DEF SizeFits
      <4>3. QED
        BY <4>1, <4>2
    <3>7. next_page' \in Nat /\ next_page' >= 1 /\ DOMAIN pages' \subseteq 1 .. next_page' - 1
      BY <1>1, <2>5, <3>2
    <3>8. CASE Len(path) = 1 \/ GetSize(new) >= leaf_min_size
      <4>1. SizeFits(new, p, root_page_id, INVALID_PAGE_ID)
        <5>1. size < leaf_max_size
          BY <2>14, <2>16, <3>4 DEF SizeFits
        <5>2. p = root_page_id => size >= 1
          BY <2>6, <2>14, <2>18, <2>20
        <5>3. p # root_page_id => size >= leaf_min_size
          BY <2>6, <2>14, <2>18, <3>8
        <5>4. QED
          BY <2>14, <3>4, <3>5, <5>1, <5>2, <5>3 DEF SizeFits
      <4>2. AtRest(pages', root_page_id', next_page', task', H, at)
        BY <1>1, <2>3, <3>1, <3>3, <3>6, <3>8, <4>1 DEF AtRest
      <4>3. Standing(pages', root_page_id', next_page', task')
        BY <4>2 DEF Standing
      <4>4. QED
        BY <1>1, <2>1, <3>1, <3>7, <4>3 DEF Sound
    <3>9. CASE ~ (Len(path) = 1 \/ GetSize(new) >= leaf_min_size)
      <4>1. H # 0 /\ p # root_page_id /\ size < leaf_min_size
        BY <2>6, <2>14, <2>18, <3>4, <3>9
      <4>2. size + 1 >= leaf_min_size
        BY <2>14, <2>16, <3>4, <3>5, <4>1 DEF SizeFits
      <4>3. size + 1 = leaf_min_size /\ size < leaf_max_size
        <5>1. size + 1 < leaf_max_size
          BY <2>14, <2>16, <3>4 DEF SizeFits
        <5>2. QED
          BY <3>4, <4>1, <4>2, <5>1
      <4>4. SizeFits(new, p, root_page_id, p)
        BY <2>14, <3>4, <4>1, <4>3 DEF SizeFits
      <4>5. SizesFit(pages', root_page_id, at[0][key])
        BY <2>4, <3>6, <4>4
      <4>6. 0 \in 0 .. H /\ 0 < H
        BY <2>6, <4>1
      <4>7. InMend(pages', root_page_id', next_page', task', H, at, 0, key)
        BY <1>1, <2>3, <2>6, <3>1, <3>3, <3>9, <4>5, <4>6 DEF InMend
      <4>8. Standing(pages', root_page_id', next_page', task')
        BY <4>7 DEF Standing
      <4>9. QED
        BY <1>1, <2>1, <3>1, <3>7, <4>8 DEF Sound
    <3>10. QED
      BY <3>8, <3>9
  <2>21. QED
    BY <2>19, <2>20
<1>4. QED
  BY <1>2, <1>3

-----------------------------------------------------------------------------
\* Mend, seen from the page whose child is too small.

\* Page q has its children at d and d + 1 evened out or merged; one of them has
\* too few elements, and left is how many the left one is to have.
AtPlace(H, at, L, key, q, d, left) ==
  /\ InMend(pages, root_page_id, next_page, task, H, at, L, key)
  /\ q = at[L + 1][key] /\ d \in 1 .. Len(pages[q].keys)
  /\ \/ left = GetSize(pages[pages[q].children[d]]) + 1 /\ pages[q].children[d] = at[L][key]
     \/ left = GetSize(pages[pages[q].children[d]]) - 1 /\ pages[q].children[d + 1] = at[L][key]

MendStep(q, d, left) ==
  LET a == pages[pages[q].children[d]]
      b == pages[pages[q].children[d + 1]]
      middle == pages[q].keys[d]
      size == GetSize(a) + GetSize(b)
  IN /\ next_page' = next_page /\ answer' = answer
     /\ a.leaf /\ LeafOverflows(size) => MoveOver(q, d, LeafLoan(a, b, left))
     /\ a.leaf /\ ~LeafOverflows(size) => DropChild(q, d, MergedLeaf(a, b))
     /\ ~a.leaf /\ InternalOverflows(size) => MoveOver(q, d, InternalLoan(a, middle, b, left))
     /\ ~a.leaf /\ ~InternalOverflows(size) => DropChild(q, d, MergedInternal(a, middle, b))

\* The page above level L, and the way to it.
Above(pg, H, at, see, L, key, q) ==
  /\ H \in Nat /\ L \in Nat /\ L + 1 \in 0 .. H
  /\ q \in DOMAIN pg /\ InnerFits(pg[q], Held(at[L + 1], q), see[L])
  /\ pg[q].leaf = FALSE /\ see[L][key] = pg[q].children[ChildSlot(pg[q], key)]
WayIs(way, at, H, L, key, q) ==
  Len(way) = H - L /\ Last(way) = q /\ Front(way) = Way(at, H, L + 1, key)

\* The page above fits with the levels, and the way ends at it.
LEMMA PageAbove ==
  ASSUME NEW pg, NEW root, NEW H, NEW at, NEW see, Shape(pg, root, H, at, see),
         NEW L, L \in 0 .. H, L < H, NEW key, key \in Int, NEW q, q = at[L + 1][key],
         NEW way, way = Way(at, H, L, key)
  PROVE  Above(pg, H, at, see, L, key, q) /\ WayIs(way, at, H, L, key, q)
<1>1. H \in Nat /\ L \in Nat /\ L + 1 \in 0 .. H
  BY DEF Shape, Rows
<1>2. Leads(pg, H, at, see, key)
  BY LevelFacts
<1>3. q \in DOMAIN pg
  BY <1>1, <1>2 DEF Leads
<1>4. pg[q].leaf = FALSE /\ see[L][key] = pg[q].children[ChildSlot(pg[q], key)]
  BY <1>1, <1>2 DEF Leads
<1>5. InnersFit(pg, at[L + 1], see[L])
  BY DEF Shape, LevelsFit
<1>6. InnerFits(pg[at[L + 1][key]], Held(at[L + 1], at[L + 1][key]), see[L])
  BY <1>5 DEF InnersFit
<1>7. Above(pg, H, at, see, L, key, q)
  BY <1>1, <1>3, <1>4, <1>6 DEF Above
<1>8. WayIs(way, at, H, L, key, q)
  <2>1. Leading(pg, H, at, key) /\ L \in Int /\ -1 <= L
    BY <1>1, <1>2 DEF Leads, Leading
  <2>2. Climbs(way, pg, H, at, L, key)
    BY <1>1, <2>1, WayFacts
  <2>3. QED
    BY <2>2 DEF Climbs, WayIs
<1>9. QED
  BY <1>7, <1>8

\* Mend finds a sibling.
LEMMA PlaceOfMend ==
  ASSUME Sound, Mend
  PROVE  root_page_id # INVALID_PAGE_ID /\ \E H, at, L, key, q, d, left : AtPlace(H, at, L, key, q, d, left) /\ MendStep(q, d, left)
<1>1. task.doing = "mend"
  BY DEF Mend
<1>2. root_page_id # INVALID_PAGE_ID
  BY <1>1, StandingBy
<1>3. PICK H, at, L, key : InMend(pages, root_page_id, next_page, task, H, at, L, key)
  BY <1>1, StandingBy
<1>4. /\ Shape(pages, root_page_id, H, at, at) /\ SizesFit(pages, root_page_id, at[L][key])
      /\ L \in 0 .. H /\ L < H /\ key \in Key /\ key \in Int
      /\ task = Mending(Way(at, H, L, key), key)
  BY <1>3, SizeAssumption DEF InMend
<1>5. PICK q, page, slot : q = at[L + 1][key] /\ page = pages[q] /\ slot = ChildSlot(page, key)
  OBVIOUS
<1>61. PICK way : way = Way(at, H, L, key) /\ Above(pages, H, at, at, L, key, q) /\ WayIs(way, at, H, L, key, q)
  BY <1>4, <1>5, PageAbove
<1>6. /\ H \in Nat /\ L \in Nat /\ L + 1 \in 0 .. H
      /\ q \in DOMAIN pages /\ InnerFits(page, Held(at[L + 1], q), at[L])
      /\ page.leaf = FALSE /\ at[L][key] = page.children[slot]
  BY <1>4, <1>5, <1>61 DEF Above
<1>7. task.path = Way(at, H, L, key) /\ task.key = key
  BY <1>4, TaskIs
<1>8. Last(task.path) = q
  BY <1>7, <1>61 DEF WayIs
<1>9. PICK n \in Nat : n = Len(page.keys) /\ Len(page.children) = n + 1
  BY <1>6 DEF InnerFits
<1>10. n >= 1
  <2>1. q # at[L][key]
    <3>1. L + 1 # L
      BY <1>6
    <3>2. QED
      BY <1>4, <1>5, <1>6, <3>1, LevelsApart
  <2>2. SizeFits(page, q, root_page_id, at[L][key])
    BY <1>4, <1>5, <1>6 DEF SizesFit
  <2>3. GetSize(page) = n + 1 /\ Half(page) = internal_min_size
    BY <1>6, <1>9 DEF GetSize, Half
  <2>4. internal_min_size >= 2 /\ internal_min_size \in Nat
    BY SizeAssumption DEF internal_min_size
  <2>5. n + 1 >= 2
    BY <1>6, <2>1, <2>2, <2>3, <2>4 DEF SizeFits
  <2>6. QED
    BY <2>5
<1>11. slot \in 1 .. n + 1
  BY <1>4, <1>5, <1>6, <1>9, SlotFacts
<1>12. CASE SiblingRight(page, slot)
  <2>1. slot \in 1 .. n
    BY <1>9, <1>10, <1>11, <1>12 DEF SiblingRight
  <2>2. PICK left : left = GetSize(pages[page.children[slot]]) + 1
    OBVIOUS
  <2>3. MendStep(q, slot, left)
    BY <1>5, <1>7, <1>8, <1>12, <2>2 DEF Mend, MendStep
  <2>4. AtPlace(H, at, L, key, q, slot, left)
    BY <1>3, <1>5, <1>6, <1>9, <2>1, <2>2 DEF AtPlace
  <2>5. QED
    BY <1>2, <2>3, <2>4
<1>13. CASE ~SiblingRight(page, slot)
  <2>1. slot # 1
    BY <1>13 DEF SiblingRight
  <2>2. PICK d \in 1 .. n : d = slot - 1 /\ d + 1 = slot
    <3>1. slot - 1 \in 1 .. n /\ (slot - 1) + 1 = slot
      BY <1>11, <2>1
    <3>2. QED
      BY <3>1
  <2>3. PICK left : left = GetSize(pages[page.children[d]]) - 1
    OBVIOUS
  <2>4. MendStep(q, d, left)
    <3>1. GetSize(pages[page.children[d]]) + (-1) = left
      <4>1. page.children[d] \in DOMAIN pages
        <5>1. d \in 1 .. Len(page.children)
          BY <1>9, <2>2
        <5>2. PICK k \in Held(at[L + 1], q) : ChildSlot(page, k) = d
          BY <1>6, <5>1 DEF InnerFits
        <5>3. at[L][k] = page.children[d] /\ k \in Int
          BY <1>6, <5>2 DEF InnerFits, Held
        <5>4. at[L][k] \in DOMAIN pages
          BY <1>4, <5>3, LevelFacts DEF Leads
        <5>5. QED
          BY <5>3, <5>4
      <4>2. GetSize(pages[page.children[d]]) \in Nat
        BY <1>4, <4>1 DEF SizesFit, SizeFits
      <4>3. QED
        BY <2>3, <4>2
    <3>2. QED
      BY <1>5, <1>7, <1>8, <1>13, <2>2, <3>1 DEF Mend, MendStep
  <2>5. AtPlace(H, at, L, key, q, d, left)
    BY <1>3, <1>5, <1>6, <1>9, <2>2, <2>3 DEF AtPlace
  <2>6. QED
    BY <1>2, <2>4, <2>5
<1>14. QED
  BY <1>12, <1>13

\* The children of q at d and d + 1, the separator between them, what they are
\* and what they would be together.
Pair(q, d, l, r, sep, a, b, m) ==
  /\ l = pages[q].children[d] /\ r = pages[q].children[d + 1] /\ sep = pages[q].keys[d]
  /\ a = pages[l] /\ b = pages[r] /\ m = MergeOf(a, sep, b)

\* Where the two stand.
PairIs(H, at, L, q, l, r, sep, m) ==
  /\ Abut(at[L], l, r, sep) /\ sep \in Key
  /\ MergeFits(m, r, at, L, Held(at[L], l) \cup Held(at[L], r), pages)
  /\ l \in DOMAIN pages /\ r \in DOMAIN pages /\ q \in DOMAIN pages
  /\ l # r /\ l # q /\ r # q /\ l # root_page_id /\ r # root_page_id

PairSizes(a, b, m, left, na, nb, half, room) ==
  /\ na \in Nat /\ nb \in Nat /\ na = GetSize(a) /\ nb = GetSize(b) /\ GetSize(m) = na + nb
  /\ half = Half(a) /\ half = Half(b) /\ half = Half(m)
  /\ room = Room(a) /\ room = Room(b) /\ room = Room(m)
  /\ half \in Nat /\ room \in Nat /\ half >= 1 /\ half + half <= room
  /\ na < room /\ nb < room
  /\ \/ left = na + 1 /\ na + 1 = half /\ nb >= half
     \/ left = na - 1 /\ nb + 1 = half /\ na >= half

\* The two pages that Mend evens out are neighbours, and their sizes are such
\* that merging or borrowing leaves both within their bounds.
LEMMA PairFacts ==
  ASSUME NEW H, NEW at, NEW L, NEW key, NEW q, NEW d, NEW left, AtPlace(H, at, L, key, q, d, left),
         NEW l, NEW r, NEW sep, NEW a, NEW b, NEW m, Pair(q, d, l, r, sep, a, b, m)
  PROVE  /\ PairIs(H, at, L, q, l, r, sep, m)
         /\ PairHolds(L, a, b, m, r, sep)
         /\ \E na, nb, half, room : PairSizes(a, b, m, left, na, nb, half, room)
<1>1. /\ Shape(pages, root_page_id, H, at, at) /\ SizesFit(pages, root_page_id, at[L][key])
      /\ L \in 0 .. H /\ L < H /\ key \in Key /\ key \in Int
      /\ q = at[L + 1][key] /\ d \in 1 .. Len(pages[q].keys)
  BY SizeAssumption DEF AtPlace, InMend
<1>0. /\ l = pages[q].children[d] /\ r = pages[q].children[d + 1] /\ sep = pages[q].keys[d]
      /\ a = pages[l] /\ b = pages[r] /\ m = MergeOf(a, sep, b)
  BY DEF Pair
<1>2. Above(pages, H, at, at, L, key, q)
  <2>1. PICK way : way = Way(at, H, L, key)
    OBVIOUS
  <2>2. QED
    BY <1>1, <2>1, PageAbove
<1>3. H \in Nat /\ L \in Nat /\ L + 1 \in 0 .. H /\ q \in DOMAIN pages
  BY <1>2 DEF Above
<1>4. Abut(at[L], l, r, sep) /\ sep \in Key
  BY <1>0, <1>1, Beside
<1>5. PICK low \in Int : at[L][low] = l
  BY <1>4 DEF Abut
<1>6. sep \in Int /\ at[L][sep] = r /\ l # r
  BY <1>4 DEF Abut
<1>7. l \in DOMAIN pages /\ r \in DOMAIN pages
  <2>1. Leads(pages, H, at, at, low)
    BY <1>1, LevelFacts
  <2>2. Leads(pages, H, at, at, sep)
    BY <1>1, <1>6, LevelFacts
  <2>3. QED
    BY <1>1, <1>5, <1>6, <2>1, <2>2 DEF Leads
<1>8. l # q /\ r # q
  <2>1. L + 1 # L
    BY <1>3
  <2>2. QED
    BY <1>1, <1>3, <1>5, <1>6, <2>1, LevelsApart
<1>9. l # root_page_id /\ r # root_page_id
  <2>1. at[H][key] = root_page_id
    BY <1>1, RootRow
  <2>2. H \in 0 .. H /\ H # L
    BY <1>1, <1>3
  <2>3. at[L][low] # at[H][key]
    BY <1>1, <2>2, LevelsApart
  <2>4. at[L][sep] # at[H][key]
    BY <1>1, <1>6, <2>2, LevelsApart
  <2>5. QED
    BY <1>5, <1>6, <2>1, <2>3, <2>4
<1>10. /\ MergeFits(m, r, at, L, Held(at[L], l) \cup Held(at[L], r), pages)
       /\ PairHolds(L, a, b, m, r, sep)
  BY <1>0, <1>1, <1>4, MergeFit
<1>11. PairIs(H, at, L, q, l, r, sep, m)
  BY <1>3, <1>4, <1>6, <1>7, <1>8, <1>9, <1>10 DEF PairIs
<1>12. PICK na, nb, half, room : na = GetSize(a) /\ nb = GetSize(b) /\ half = Half(a) /\ room = Room(a)
  OBVIOUS
<1>13. GetSize(m) = na + nb /\ na \in Nat /\ nb \in Nat
  <2>1. CASE L = 0
    <3>1. a.leaf = TRUE /\ b.leaf = TRUE /\ m.leaf = TRUE /\ LeafCut(a, b, m, Len(a.entries))
      BY <1>10, <2>1 DEF PairHolds
    <3>2. PICK i : i = Len(a.entries)
      OBVIOUS
    <3>3. PICK j \in Nat : LeafCutAre(a, b, m, i, j)
      BY <3>1, <3>2, LeafCutParts
    <3>4. QED
      BY <1>12, <3>1, <3>3 DEF GetSize, LeafCutAre
  <2>2. CASE L # 0
    <3>1. a.leaf = FALSE /\ b.leaf = FALSE /\ CutAt(a, b, m, Len(a.children))
      BY <1>10, <2>2 DEF PairHolds
    <3>2. PICK i : i = Len(a.children)
      OBVIOUS
    <3>3. PICK j \in Nat : CutChildrenAre(a, b, m, i, j)
      BY <3>1, <3>2, CutChildren
    <3>4. m.leaf = FALSE
      BY <3>1 DEF CutAt
    <3>5. QED
      BY <1>12, <3>1, <3>3, <3>4 DEF GetSize, CutChildrenAre
  <2>3. QED
    BY <2>1, <2>2
<1>14. /\ half = Half(a) /\ half = Half(b) /\ half = Half(m)
       /\ room = Room(a) /\ room = Room(b) /\ room = Room(m)
       /\ half \in Nat /\ room \in Nat /\ half >= 1 /\ half + half <= room
  <2>1. /\ leaf_min_size \in Nat /\ leaf_min_size >= 1 /\ leaf_min_size + leaf_min_size <= leaf_max_size
        /\ internal_min_size \in Nat /\ internal_min_size >= 1
        /\ internal_min_size + internal_min_size <= internal_max_size
    BY SizeAssumption DEF leaf_min_size, internal_min_size
  <2>2. CASE L = 0
    <3>1. a.leaf = TRUE /\ b.leaf = TRUE /\ m.leaf = TRUE
      BY <1>10, <2>2 DEF PairHolds
    <3>2. QED
      BY <1>12, <2>1, <3>1, SizeAssumption DEF Half, Room
  <2>3. CASE L # 0
    <3>1. a.leaf = FALSE /\ b.leaf = FALSE /\ m.leaf = FALSE
      BY <1>10, <2>3 DEF PairHolds, CutAt
    <3>2. QED
      BY <1>12, <2>1, <3>1, SizeAssumption DEF Half, Room
  <2>4. QED
    BY <2>2, <2>3
<1>15. /\ na < room /\ nb < room
       /\ \/ left = na + 1 /\ na + 1 = half /\ nb >= half
          \/ left = na - 1 /\ nb + 1 = half /\ na >= half
  <2>1. SizeFits(a, l, root_page_id, at[L][key]) /\ SizeFits(b, r, root_page_id, at[L][key])
    BY <1>0, <1>1, <1>7 DEF SizesFit
  <2>2. na < room /\ nb < room
    BY <1>12, <1>14, <2>1 DEF SizeFits
  <2>3. CASE left = GetSize(a) + 1 /\ l = at[L][key]
    BY <1>6, <1>9, <1>12, <1>14, <2>1, <2>2, <2>3 DEF SizeFits
  <2>4. CASE left = GetSize(a) - 1 /\ r = at[L][key]
    BY <1>6, <1>9, <1>12, <1>14, <2>1, <2>2, <2>4 DEF SizeFits
  <2>5. QED
    BY <1>0, <2>3, <2>4 DEF AtPlace
<1>16. PairSizes(a, b, m, left, na, nb, half, room)
  BY <1>12, <1>13, <1>14, <1>15 DEF PairSizes
<1>17. QED
  BY <1>10, <1>11, <1>16

-----------------------------------------------------------------------------
\* Mend merges two pages.

\* A merge keeps the shape of the tree.
LEMMA JoinedShape ==
  ASSUME NEW H, NEW at, NEW L, NEW key, NEW q, NEW d, NEW left, AtPlace(H, at, L, key, q, d, left),
         NEW l, l = pages[q].children[d], NEW r, r = pages[q].children[d + 1], NEW sep,
         NEW m, PairIs(H, at, L, q, l, r, sep, m),
         NEW new, Dropped(new, pages[q], d), NEW pg, JoinedPages(pg, pages, l, r, q, m, new)
  PROVE  \E at2 : Shape(pg, root_page_id, H, at2, at2) /\ JoinedRows(H, at, at2, L, l, r)
<1>1. /\ Shape(pages, root_page_id, H, at, at)
      /\ L \in 0 .. H /\ L < H /\ key \in Int
      /\ q = at[L + 1][key] /\ d \in 1 .. Len(pages[q].keys)
  BY SizeAssumption DEF AtPlace, InMend
<1>2. MergeFits(m, r, at, L, Held(at[L], l) \cup Held(at[L], r), pages)
  BY DEF PairIs
<1>3. Siblings(pages, H, at, L, q, d, l, r)
  BY <1>1 DEF Siblings
<1>4. QED
  BY <1>1, <1>2, <1>3, JoinShape

\* The pages other than q fit, and the root, when it is just above, is q.
OthersFit(pg, root, H, L, q) ==
  \A x \in DOMAIN pg : x # q =>
    /\ x # root \/ H # L + 1
    /\ x # INVALID_PAGE_ID
    /\ SizeFits(pg[x], x, root, INVALID_PAGE_ID)

\* The sizes of the pages other than the one that lost a child.
LEMMA JoinedSizes ==
  ASSUME Sound, NEW H, NEW at, NEW L, NEW key, NEW q, NEW d, NEW left, AtPlace(H, at, L, key, q, d, left),
         NEW l, l = pages[q].children[d], NEW r, r = pages[q].children[d + 1], NEW sep,
         NEW m, PairIs(H, at, L, q, l, r, sep, m), NEW a, NEW b,
         NEW na, NEW nb, NEW half, NEW room, PairSizes(a, b, m, left, na, nb, half, room), na + nb < room,
         NEW new, NEW pg, JoinedPages(pg, pages, l, r, q, m, new)
  PROVE  OthersFit(pg, root_page_id, H, L, q)
<1>1. /\ Shape(pages, root_page_id, H, at, at) /\ SizesFit(pages, root_page_id, at[L][key])
      /\ L \in 0 .. H /\ L < H /\ key \in Int /\ q = at[L + 1][key]
      /\ at[L][key] = l \/ at[L][key] = r
  BY SizeAssumption DEF AtPlace, InMend
<1>2. ASSUME NEW x \in DOMAIN pg, x # q
      PROVE  /\ x # root_page_id \/ H # L + 1
             /\ x # INVALID_PAGE_ID
             /\ SizeFits(pg[x], x, root_page_id, INVALID_PAGE_ID)
  <2>1. x \in DOMAIN pages /\ x # r
    BY DEF JoinedPages
  <2>2. x # INVALID_PAGE_ID
    BY <2>1 DEF Sound, INVALID_PAGE_ID
  <2>3. x # root_page_id \/ H # L + 1
    <3>1. at[H][key] = root_page_id
      BY <1>1, RootRow
    <3>2. QED
      BY <1>1, <1>2, <3>1
  <2>4. CASE x = l
    <3>1. pg[x] = m /\ x # root_page_id
      BY <2>4 DEF JoinedPages, PairIs
    <3>2. PICK i \in Nat, j \in Nat : i = na /\ j = nb
      BY DEF PairSizes
    <3>3. i + j \in Nat /\ i + j < room /\ i + j >= half
      <4>1. half \in Nat /\ half >= 1 /\ ((na + 1 = half /\ nb >= half) \/ (nb + 1 = half /\ na >= half))
        BY DEF PairSizes
      <4>2. i + j >= half
        BY <3>2, <4>1
      <4>3. QED
        BY <3>2, <4>2
    <3>4. GetSize(m) = i + j /\ Half(m) = half /\ Room(m) = room
      BY <3>2 DEF PairSizes
    <3>5. QED
      BY <2>2, <2>3, <3>1, <3>3, <3>4 DEF SizeFits
  <2>5. CASE x # l
    <3>1. pg[x] = pages[x]
      BY <1>2, <2>1, <2>5 DEF JoinedPages
    <3>2. SizeFits(pages[x], x, root_page_id, at[L][key]) /\ x # at[L][key]
      BY <1>1, <2>1, <2>5 DEF SizesFit
    <3>3. QED
      BY <2>2, <2>3, <3>1, <3>2 DEF SizeFits
  <2>6. QED
    BY <2>4, <2>5
<1>3. QED
  BY <1>2 DEF OthersFit

\* The sizes of the whole tree, once the page that lost a child is known to fit.
LEMMA AllSizes ==
  ASSUME NEW pg, NEW root, NEW q, NEW low, low = q \/ low = INVALID_PAGE_ID,
         \A x \in DOMAIN pg : x # q => x # INVALID_PAGE_ID /\ SizeFits(pg[x], x, root, INVALID_PAGE_ID),
         q \in DOMAIN pg => SizeFits(pg[q], q, root, low)
  PROVE  SizesFit(pg, root, low)
<1> SUFFICES ASSUME NEW x \in DOMAIN pg PROVE SizeFits(pg[x], x, root, low)
  BY DEF SizesFit
<1>1. CASE x = q
  BY <1>1
<1>2. CASE x # q
  <2>1. x # INVALID_PAGE_ID /\ SizeFits(pg[x], x, root, INVALID_PAGE_ID) /\ x # low
    BY <1>2
  <2>2. QED
    BY <2>1 DEF SizeFits
<1>3. QED
  BY <1>1, <1>2

\* The page that loses a child, with n children left.
LostOne(page, new, n) ==
  /\ new.leaf = FALSE /\ page.leaf = FALSE
  /\ n \in Nat /\ n >= 1 /\ GetSize(new) = n /\ GetSize(page) = n + 1
  /\ Len(new.children) = n /\ new.children \in Seq(Int)

\* The parent loses one child.
LEMMA DropLosesOne ==
  ASSUME NEW page, NEW F, NEW see, InnerFits(page, F, see), NEW d \in 1 .. Len(page.keys),
         NEW new, Dropped(new, page, d)
  PROVE  \E n : LostOne(page, new, n)
<1>1. page.leaf = FALSE /\ page.keys \in Seq(Key) /\ page.children \in Seq(Int)
      /\ Len(page.children) = Len(page.keys) + 1
  BY DEF InnerFits
<1>2. new.leaf = FALSE /\ new.children \in Seq(Int) /\ Len(new.children) + 1 = Len(page.children)
  BY DEF Dropped, Removed
<1>3. PICK n \in Nat : n = Len(new.children)
  BY <1>2
<1>4. n >= 1
  <2>1. Len(page.keys) \in Nat /\ Len(page.keys) >= 1
    BY <1>1
  <2>2. n + 1 = Len(page.keys) + 1
    BY <1>1, <1>2, <1>3
  <2>3. QED
    BY <2>1, <2>2
<1>5. LostOne(page, new, n)
  BY <1>1, <1>2, <1>3, <1>4 DEF LostOne, GetSize
<1>6. QED
  BY <1>5

SameAbove(H, at, at2, L, key) ==
  Way(at2, H, L + 1, key) = Way(at, H, L + 1, key) /\ at2[L + 1] = at[L + 1]

\* The task after a merge, when there is a level above.
LEMMA DropUp ==
  ASSUME NEW H, NEW at, NEW at2, NEW L, NEW key, key \in Key, NEW l, NEW r,
         H \in Nat, L \in Nat, L < H, JoinedRows(H, at, at2, L, l, r)
  PROVE  SameAbove(H, at, at2, L, key)
<1>1. L + 1 \in Int /\ -1 <= L + 1 /\ L + 1 \in 0 .. H /\ L + 1 # L
  OBVIOUS
<1>2. \A i \in 0 .. H : L + 1 < i => at2[i] = at[i]
  BY DEF JoinedRows
<1>3. Way(at2, H, L + 1, key) = Way(at, H, L + 1, key)
  BY <1>1, <1>2, SameWay
<1>4. QED
  BY <1>1, <1>3 DEF JoinedRows, SameAbove

\* Mend merges the two children: the page above them has too few in its turn,
\* or the tree is whole again, perhaps one level lower.
LEMMA DropSound ==
  ASSUME Sound, root_page_id # INVALID_PAGE_ID,
         NEW H, NEW at, NEW L, NEW key, NEW q, NEW d, NEW left, AtPlace(H, at, L, key, q, d, left),
         NEW l, l = pages[q].children[d], NEW r, r = pages[q].children[d + 1], NEW sep,
         NEW m, PairIs(H, at, L, q, l, r, sep, m), NEW a, NEW b,
         NEW na, NEW nb, NEW half, NEW room, PairSizes(a, b, m, left, na, nb, half, room), na + nb < room,
         DropChild(q, d, m), next_page' = next_page, answer' = answer
  PROVE  Sound'
<1>1. /\ H < next_page /\ Shape(pages, root_page_id, H, at, at)
      /\ SizesFit(pages, root_page_id, at[L][key])
      /\ L \in 0 .. H /\ L < H /\ key \in Key /\ key \in Int
      /\ task = Mending(Way(at, H, L, key), key)
      /\ q = at[L + 1][key] /\ d \in 1 .. Len(pages[q].keys)
      /\ at[L][key] = l \/ at[L][key] = r
  BY SizeAssumption DEF AtPlace, InMend
<1>2. PICK way : way = Way(at, H, L, key) /\ Above(pages, H, at, at, L, key, q) /\ WayIs(way, at, H, L, key, q)
  BY <1>1, PageAbove
<1>3. PICK page, F : page = pages[q] /\ F = Held(at[L + 1], q)
  OBVIOUS
<1>4. /\ H \in Nat /\ L \in Nat /\ L + 1 \in 0 .. H /\ q \in DOMAIN pages
      /\ InnerFits(page, F, at[L]) /\ page.leaf = FALSE
  BY <1>2, <1>3 DEF Above
<1>5. task.path = way /\ task.key = key /\ Len(way) = H - L /\ Front(way) = Way(at, H, L + 1, key)
  BY <1>1, <1>2, TaskIs DEF WayIs
<1>6. PICK new : new = Internal(RemoveAt(page.keys, d), RemoveAt(page.children, d + 1))
  OBVIOUS
<1>7. d \in 1 .. Len(page.keys)
  BY <1>1, <1>3
<1>8. Dropped(new, page, d)
  BY <1>4, <1>6, <1>7, DropAtSlot
<1>9. PICK n : LostOne(page, new, n)
  BY <1>4, <1>7, <1>8, DropLosesOne
<1>10. /\ l \in DOMAIN pages /\ r \in DOMAIN pages
       /\ l # r /\ l # q /\ r # q /\ l # root_page_id /\ r # root_page_id
  BY DEF PairIs
<1>11. PICK pg : pg = [x \in DOMAIN pages \ {r} |-> IF x = l THEN m ELSE IF x = q THEN new ELSE pages[x]]
  OBVIOUS
<1>12. JoinedPages(pg, pages, l, r, q, m, new)
  BY <1>4, <1>10, <1>11 DEF JoinedPages
<1>13. PICK at2 : Shape(pg, root_page_id, H, at2, at2) /\ JoinedRows(H, at, at2, L, l, r)
  BY <1>3, <1>8, <1>12, JoinedShape
<1>14. \A x \in DOMAIN pg : x # q =>
         /\ x # root_page_id \/ H # L + 1
         /\ x # INVALID_PAGE_ID
         /\ SizeFits(pg[x], x, root_page_id, INVALID_PAGE_ID)
  <2>1. OthersFit(pg, root_page_id, H, L, q)
    BY <1>12, JoinedSizes
  <2>2. QED
    BY <2>1 DEF OthersFit
<1>15. next_page \in Nat /\ next_page >= 1 /\ DOMAIN pages \subseteq 1 .. next_page - 1
       /\ answer \in {"none", "inserted", "exists"}
  BY DEF Sound
<1>16. DOMAIN pg = DOMAIN pages \ {r} /\ q \in DOMAIN pg /\ pg[q] = new /\ q # INVALID_PAGE_ID
  BY <1>4, <1>10, <1>12, <1>15 DEF JoinedPages, INVALID_PAGE_ID
<1>17. SizeFits(page, q, root_page_id, at[L][key]) /\ q # at[L][key]
  BY <1>1, <1>3, <1>4, <1>10 DEF SizesFit
<1>18. /\ n \in Nat /\ n >= 1 /\ GetSize(new) = n /\ GetSize(page) = n + 1 /\ Len(new.children) = n
       /\ Room(new) = internal_max_size /\ Half(new) = internal_min_size
       /\ Room(page) = internal_max_size /\ Half(page) = internal_min_size
       /\ internal_min_size \in Nat /\ internal_max_size \in Nat
       /\ new.leaf = FALSE /\ page.leaf = FALSE
  BY <1>9, SizeAssumption DEF LostOne, Room, Half, internal_min_size
<1>19. n < internal_max_size
  <2>1. n + 1 < internal_max_size
    BY <1>17, <1>18 DEF SizeFits
  <2>2. QED
    BY <1>18, <2>1
<1>20. ASSUME NEW low, low = q \/ low = INVALID_PAGE_ID, SizeFits(new, q, root_page_id, low)
       PROVE  SizesFit(pg, root_page_id, low)
  <2>1. \A x \in DOMAIN pg : x # q => x # INVALID_PAGE_ID /\ SizeFits(pg[x], x, root_page_id, INVALID_PAGE_ID)
    BY <1>14
  <2>2. SizeFits(pg[q], q, root_page_id, low)
    BY <1>16, <1>20
  <2>3. QED
    BY <1>20, <2>1, <2>2, AllSizes
<1>21. Write([x \in {l, q} |-> IF x = l THEN m ELSE new], {r}) => pages' = pg
  BY <1>4, <1>10, <1>11 DEF Write
<1>22. CASE L + 1 < H
  <2>1. Len(task.path) > 1
    BY <1>4, <1>5, <1>22
  <2>2. /\ Write([x \in {l, q} |-> IF x = l THEN m ELSE new], {r})
        /\ task' = IF GetSize(new) < internal_min_size THEN Mending(Front(task.path), task.key) ELSE Idle
        /\ root_page_id' = root_page_id
    BY <1>3, <1>6, <2>1 DEF DropChild
  <2>3. pages' = pg
    BY <1>21, <2>2
  <2>4. q # root_page_id
    <3>1. at[H][key] = root_page_id
      BY <1>1, RootRow
    <3>2. H \in 0 .. H /\ L + 1 # H
      BY <1>4, <1>22
    <3>3. at[L + 1][key] # at[H][key]
      BY <1>1, <1>4, <3>2, LevelsApart
    <3>4. QED
      BY <1>1, <3>1, <3>3
  <2>5. n + 1 >= internal_min_size
    BY <1>17, <1>18, <2>4 DEF SizeFits
  <2>6. next_page' \in Nat /\ next_page' >= 1 /\ DOMAIN pages' \subseteq 1 .. next_page' - 1
    BY <1>15, <1>16, <2>3
  <2>7. CASE n < internal_min_size
    <3>1. task' = Mending(Way(at, H, L + 1, key), key)
      BY <1>5, <1>18, <2>2, <2>7
    <3>2. Way(at2, H, L + 1, key) = Way(at, H, L + 1, key) /\ at2[L + 1] = at[L + 1]
      <4>1. SameAbove(H, at, at2, L, key)
        BY <1>1, <1>4, <1>13, DropUp
      <4>2. QED
        BY <4>1 DEF SameAbove
    <3>3. SizeFits(new, q, root_page_id, q)
      <4>1. n + 1 = internal_min_size
        BY <1>18, <2>5, <2>7
      <4>2. QED
        BY <1>18, <1>19, <2>4, <4>1 DEF SizeFits
    <3>4. SizesFit(pg, root_page_id, q)
      BY <1>20, <3>3
    <3>5. at2[L + 1][key] = q
      BY <1>1, <3>2
    <3>6. InMend(pages', root_page_id', next_page', task', H, at2, L + 1, key)
      BY <1>1, <1>4, <1>13, <1>22, <2>2, <2>3, <3>1, <3>2, <3>4, <3>5 DEF InMend
    <3>7. Standing(pages', root_page_id', next_page', task')
      BY <3>6 DEF Standing
    <3>8. QED
      BY <1>15, <2>2, <2>6, <3>7 DEF Sound
  <2>8. CASE ~(n < internal_min_size)
    <3>1. task' = Idle
      BY <1>18, <2>2, <2>8
    <3>2. SizeFits(new, q, root_page_id, INVALID_PAGE_ID)
      <4>1. n >= internal_min_size
        BY <1>18, <2>8
      <4>2. QED
        BY <1>16, <1>18, <1>19, <2>4, <4>1 DEF SizeFits
    <3>3. SizesFit(pg, root_page_id, INVALID_PAGE_ID)
      BY <1>20, <3>2
    <3>4. AtRest(pages', root_page_id', next_page', task', H, at2)
      BY <1>1, <1>13, <2>2, <2>3, <3>1, <3>3 DEF AtRest
    <3>5. Standing(pages', root_page_id', next_page', task')
      BY <3>4 DEF Standing
    <3>6. QED
      BY <1>15, <2>2, <2>6, <3>5 DEF Sound
  <2>9. QED
    BY <2>7, <2>8
<1>23. CASE ~(L + 1 < H)
  <2>1. L + 1 = H
    BY <1>1, <1>4, <1>23
  <2>2. q = root_page_id
    <3>1. at[H][key] = root_page_id
      BY <1>1, RootRow
    <3>2. QED
      BY <1>1, <2>1, <3>1
  <2>3. ~(Len(task.path) > 1)
    BY <1>4, <1>5, <2>1
  <2>4. /\ task' = Idle
        /\ IF GetSize(new) = 1
           THEN /\ Write([x \in {l, q} |-> IF x = l THEN m ELSE new], {r, q})
                /\ root_page_id' = new.children[1]
           ELSE /\ Write([x \in {l, q} |-> IF x = l THEN m ELSE new], {r})
                /\ root_page_id' = root_page_id
    BY <1>3, <1>6, <2>3 DEF DropChild
  <2>5. CASE n # 1
    <3>1. pages' = pg /\ root_page_id' = root_page_id
      BY <1>18, <1>21, <2>4, <2>5
    <3>2. SizeFits(new, q, root_page_id, INVALID_PAGE_ID)
      <4>1. n >= 2
        BY <1>18, <2>5
      <4>2. QED
        BY <1>16, <1>18, <1>19, <2>2, <4>1 DEF SizeFits
    <3>3. SizesFit(pg, root_page_id, INVALID_PAGE_ID)
      BY <1>20, <3>2
    <3>4. AtRest(pages', root_page_id', next_page', task', H, at2)
      BY <1>1, <1>13, <2>4, <3>1, <3>3 DEF AtRest
    <3>5. Standing(pages', root_page_id', next_page', task')
      BY <3>4 DEF Standing
    <3>6. next_page' \in Nat /\ next_page' >= 1 /\ DOMAIN pages' \subseteq 1 .. next_page' - 1
      BY <1>15, <1>16, <3>1
    <3>7. QED
      BY <1>15, <3>1, <3>5, <3>6 DEF Sound
  <2>6. CASE n = 1
    <3>1. PICK x : x = new.children[1]
      OBVIOUS
    <3>2. Write([y \in {l, q} |-> IF y = l THEN m ELSE new], {r, q}) /\ root_page_id' = x /\ task' = Idle
      BY <1>18, <2>4, <2>6, <3>1
    <3>3. DOMAIN pages' = DOMAIN pg \ {root_page_id} /\ \A y \in DOMAIN pages' : pages'[y] = pg[y]
      <4>1. DOMAIN pages' = DOMAIN pages \ {r, q}
        BY <1>4, <1>10, <3>2 DEF Write
      <4>2. \A y \in DOMAIN pages' : pages'[y] = IF y = l THEN m ELSE pages[y]
        BY <1>4, <1>10, <3>2 DEF Write
      <4>3. QED
        BY <1>10, <1>11, <1>16, <2>2, <4>1, <4>2
    <3>4. ASSUME NEW k \in Int PROVE at2[L][k] = x
      <4>1. PICK y : y = at2[L + 1][k]
        OBVIOUS
      <4>2. Above(pg, H, at2, at2, L, k, y)
        <5>1. PICK way2 : way2 = Way(at2, H, L, k)
          OBVIOUS
        <5>2. QED
          BY <1>1, <1>13, <4>1, <5>1, PageAbove
      <4>3. y = q
        BY <1>13, <2>1, <2>2, <3>4, <4>1, RootRow
      <4>4. InnerFits(new, Held(at2[L + 1], q), at2[L]) /\ at2[L][k] = new.children[ChildSlot(new, k)]
        BY <1>16, <4>2, <4>3 DEF Above
      <4>5. ChildSlot(new, k) \in 1 .. Len(new.children)
        BY <3>4, <4>4, SlotFacts
      <4>6. ChildSlot(new, k) = 1
        BY <1>18, <2>6, <4>5
      <4>7. QED
        BY <3>1, <4>4, <4>6
    <3>5. PICK h \in Nat : h = L /\ H = h + 1 /\ h < next_page
      <4>1. L < next_page
        BY <1>1, <1>4, <1>15
      <4>2. QED
        BY <1>4, <2>1, <4>1
    <3>6. \A k \in Int : at2[h][k] = x
      BY <3>4, <3>5
    <3>7. Shape(pg, root_page_id, h + 1, at2, at2)
      BY <1>13, <3>5
    <3>8. PICK at3 : Shape(pages', x, h, at3, at3)
      BY <3>3, <3>6, <3>7, ShrinkShape
    <3>9. x \in DOMAIN pages' /\ x # INVALID_PAGE_ID
      <4>1. x \in DOMAIN pages'
        BY <1>1, <3>8, RootRow
      <4>2. QED
        BY <1>14, <1>16, <2>2, <3>3, <4>1
    <3>10. SizesFit(pages', x, INVALID_PAGE_ID)
      <4> SUFFICES ASSUME NEW y \in DOMAIN pages' PROVE SizeFits(pages'[y], y, x, INVALID_PAGE_ID)
        BY DEF SizesFit
      <4>1. y \in DOMAIN pg /\ y # q /\ pages'[y] = pg[y]
        BY <2>2, <3>3
      <4>2. SizeFits(pg[y], y, root_page_id, INVALID_PAGE_ID) /\ y # INVALID_PAGE_ID /\ y # root_page_id
        BY <1>14, <2>1, <4>1
      <4>3. GetSize(pg[y]) >= Half(pg[y])
        BY <4>2 DEF SizeFits
      <4>4. GetSize(pg[y]) \in Nat
        BY <4>2 DEF SizeFits
      <4>5. GetSize(pg[y]) >= IF pg[y].leaf THEN 1 ELSE 2
        <5>1. leaf_min_size \in Nat /\ leaf_min_size >= 1 /\ internal_min_size >= 2
          BY SizeAssumption DEF leaf_min_size, internal_min_size
        <5>2. QED
          BY <1>18, <4>3, <4>4, <5>1 DEF Half
      <4>6. QED
        BY <4>1, <4>2, <4>5 DEF SizeFits
    <3>11. AtRest(pages', root_page_id', next_page', task', h, at3)
      BY <3>2, <3>5, <3>8, <3>10 DEF AtRest
    <3>12. Standing(pages', root_page_id', next_page', task')
      BY <3>11 DEF Standing
    <3>13. next_page' \in Nat /\ next_page' >= 1 /\ DOMAIN pages' \subseteq 1 .. next_page' - 1
      BY <1>15, <1>16, <3>3
    <3>14. QED
      BY <1>15, <3>2, <3>9, <3>12, <3>13 DEF Sound
  <2>7. QED
    BY <2>5, <2>6
<1>24. QED
  BY <1>22, <1>23

-----------------------------------------------------------------------------
\* Mend moves an element over.

\* The loan on level L cuts what the two pages hold after left elements.
Loaned(L, loan, m, left, r) ==
  /\ L = 0 => /\ LeafCut(loan.left, loan.right, m, left) /\ CutKey(m, left, loan.sep)
              /\ loan.left.next_page_id = r /\ loan.right.next_page_id = m.next_page_id
  /\ L # 0 => CutAt(loan.left, loan.right, m, left) /\ loan.sep = m.keys[left]

LoanOf(a, middle, b, left) == IF a.leaf THEN LeafLoan(a, b, left) ELSE InternalLoan(a, middle, b, left)

\* BorrowFromPage makes two pages that a merge could have been cut into: two
\* leaves ...
LEMMA LeafLoanCuts ==
  ASSUME NEW a, NEW b, NEW m, m = MergedLeaf(a, b), NEW left,
         a.entries \in Seq(Key \X Value), b.entries \in Seq(Key \X Value),
         left \in Nat, 1 <= left, left < Len(m.entries), NEW loan, loan = LeafLoan(a, b, left)
  PROVE  /\ LeafCut(loan.left, loan.right, m, left) /\ CutKey(m, left, loan.sep)
         /\ loan.left.next_page_id = a.next_page_id /\ loan.right.next_page_id = m.next_page_id
<1>1. PICK entries, link, next, halves :
        /\ entries = a.entries \o b.entries /\ link = a.next_page_id /\ next = b.next_page_id
        /\ halves = CutLeaf(entries, left, link, next)
  OBVIOUS
<1>2. entries \in Seq(Key \X Value)
  BY <1>1
<1>3. m = Leaf(entries, next) /\ m.entries = entries /\ m.next_page_id = next
  BY <1>1 DEF MergedLeaf, Leaf
<1>4. loan.left = halves[1] /\ loan.right = halves[2] /\ loan.sep = entries[left + 1][1]
  BY <1>1 DEF LeafLoan
<1>5. left \in 0 .. Len(entries)
  BY <1>2, <1>3
<1>6. LeafCut(halves[1], halves[2], Leaf(entries, next), left)
  BY <1>1, <1>2, <1>5, CutLeafIs
<1>7. halves[1].next_page_id = link /\ halves[2].next_page_id = next
  BY <1>1 DEF CutLeaf, Leaf
<1>8. CutKey(m, left, loan.sep)
  BY <1>3, <1>4 DEF CutKey
<1>9. QED
  BY <1>1, <1>3, <1>4, <1>6, <1>7, <1>8

\* ... or two internal pages.
LEMMA InternalLoanCuts ==
  ASSUME NEW a, NEW b, NEW sep, sep \in Key, NEW m, m = MergedInternal(a, sep, b), NEW left, IsInner(a), IsInner(b),
         left \in Nat, 1 <= left, left < Len(m.children), Len(m.children) = Len(m.keys) + 1,
         NEW loan, loan = InternalLoan(a, sep, b, left)
  PROVE  CutAt(loan.left, loan.right, m, left) /\ loan.sep = m.keys[left]
<1>1. PICK keys, children, halves :
        /\ keys = a.keys \o <<sep>> \o b.keys /\ children = a.children \o b.children
        /\ halves = CutInternal(keys, children, left)
  OBVIOUS
<1>2. keys \in Seq(Key) /\ children \in Seq(Int)
  <2>1. a.keys \in Seq(Key) /\ b.keys \in Seq(Key) /\ a.children \in Seq(Int) /\ b.children \in Seq(Int)
        /\ <<sep>> \in Seq(Key)
    BY DEF IsInner
  <2>2. QED
    BY <1>1, <2>1
<1>3. m = Internal(keys, children) /\ m.keys = keys /\ m.children = children
  BY <1>1 DEF MergedInternal, Internal
<1>4. loan.left = halves[1] /\ loan.right = halves[2] /\ loan.sep = keys[left]
  BY <1>1 DEF InternalLoan
<1>5. left \in 1 .. Len(keys) /\ Len(children) = Len(keys) + 1
  <2>1. Len(keys) \in Nat
    BY <1>2
  <2>2. left < Len(keys) + 1
    BY <1>3
  <2>3. QED
    BY <1>3, <2>1, <2>2
<1>6. CutAt(halves[1], halves[2], Internal(keys, children), left)
  BY <1>1, <1>2, <1>5, CutInternalIs
<1>7. QED
  BY <1>3, <1>4, <1>6

\* Either way.
LEMMA LoanIs ==
  ASSUME NEW L, NEW a, NEW b, NEW r, NEW sep, sep \in Key, NEW m, m = MergeOf(a, sep, b), PairHolds(L, a, b, m, r, sep),
         NEW left, left \in Nat, 1 <= left, left < GetSize(m), NEW loan, loan = LoanOf(a, sep, b, left)
  PROVE  Loaned(L, loan, m, left, r)
<1>1. CASE L = 0
  <2>1. a.leaf = TRUE /\ m.leaf = TRUE /\ LeafCut(a, b, m, Len(a.entries)) /\ a.next_page_id = r
    BY <1>1 DEF PairHolds
  <2>2. a.entries \in Seq(Key \X Value) /\ b.entries \in Seq(Key \X Value)
    BY <2>1 DEF LeafCut
  <2>3. m = MergedLeaf(a, b) /\ loan = LeafLoan(a, b, left) /\ left < Len(m.entries)
    BY <2>1 DEF MergeOf, LoanOf, GetSize
  <2>4. /\ LeafCut(loan.left, loan.right, m, left) /\ CutKey(m, left, loan.sep)
        /\ loan.left.next_page_id = a.next_page_id /\ loan.right.next_page_id = m.next_page_id
    BY <2>2, <2>3, LeafLoanCuts
  <2>5. QED
    BY <1>1, <2>1, <2>4 DEF Loaned
<1>2. CASE L # 0
  <2>1. a.leaf = FALSE /\ CutAt(a, b, m, Len(a.children))
    BY <1>2 DEF PairHolds
  <2>2. m.leaf = FALSE /\ Len(m.children) = Len(m.keys) + 1
    BY <2>1 DEF CutAt
  <2>3. PICK i : i = Len(a.children)
    OBVIOUS
  <2>4. PICK j \in Nat : CutChildrenAre(a, b, m, i, j)
    BY <2>1, <2>3, CutChildren
  <2>5. Len(a.children) = i /\ Len(b.children) = j /\ Len(a.keys) + 1 = i /\ Len(b.keys) + 1 = j
    BY <2>4 DEF CutChildrenAre
  <2>6. IsInner(a) /\ IsInner(b)
    BY <2>1, <2>5 DEF CutAt, IsInner
  <2>7. m = MergedInternal(a, sep, b) /\ loan = InternalLoan(a, sep, b, left) /\ left < Len(m.children)
    BY <2>1, <2>2 DEF MergeOf, LoanOf, GetSize
  <2>8. CutAt(loan.left, loan.right, m, left) /\ loan.sep = m.keys[left]
    BY <2>2, <2>6, <2>7, InternalLoanCuts
  <2>9. QED
    BY <1>2, <2>8 DEF Loaned
<1>3. QED
  BY <1>1, <1>2

\* Where the loan cuts, and what the two pages get.
LoanFits(H, at2, L, l, r, loan, m, left) ==
  /\ loan.sep \in Key /\ at2[L][loan.sep] = l
  /\ \E k \in Int : k < loan.sep /\ at2[L][k] = l
  /\ HalvesFit(loan.left, loan.right, m, at2, L, l, r, loan.sep)
  /\ loan.left.leaf = m.leaf /\ loan.right.leaf = m.leaf
  /\ GetSize(loan.left) = left /\ GetSize(loan.right) + left = GetSize(m)
  /\ GetSize(loan.right) \in Nat

\* After the merge, l stands for what the two pages stood for.
LEMMA HeldBoth ==
  ASSUME NEW row2, NEW row, NEW l, NEW r, Given(row2, row, l, r), l # r
  PROVE  Held(row2, l) = Held(row, l) \cup Held(row, r)
BY DEF Given, Held

\* The leaves that have borrowed fit ...
LEMMA LoanFitsLeaf ==
  ASSUME NEW m, NEW F \in SUBSET Int, LeafFits(m, F), NEW loan, NEW left, left \in Nat, 1 <= left,
         LeafCut(loan.left, loan.right, m, left), CutKey(m, left, loan.sep)
  PROVE  /\ LeafPartsFit(loan.left, loan.right, F, loan.sep)
         /\ \E k \in F : k < loan.sep
         /\ loan.left.leaf = m.leaf /\ loan.right.leaf = m.leaf
         /\ GetSize(loan.left) = left /\ GetSize(loan.right) + left = GetSize(m)
         /\ GetSize(loan.right) \in Nat
<1>1. PICK x, y, sep : x = loan.left /\ y = loan.right /\ sep = loan.sep
  OBVIOUS
<1>2. LeafCut(x, y, m, left) /\ CutKey(m, left, sep)
  BY <1>1
<1>3. LeafPartsFit(x, y, F, sep)
  BY <1>2, LeafCutFits
<1>4. PICK j \in Nat : LeafCutAre(x, y, m, left, j)
  BY <1>2, LeafCutParts
<1>5. x.leaf = TRUE /\ y.leaf = TRUE /\ m.leaf = TRUE
  BY <1>2 DEF LeafCut
<1>6. Len(x.entries) = left /\ Len(y.entries) = j /\ Len(m.entries) = left + j
  BY <1>4 DEF LeafCutAre
<1>7. j + left = left + j
  OBVIOUS
<1>8. \E k \in F : k < sep
  <2>1. 1 \in 1 .. Len(x.entries)
    BY <1>6
  <2>2. x.entries[1][1] \in {k \in F : k < sep}
    BY <1>3, <2>1 DEF LeafPartsFit, LeafFits
  <2>3. QED
    BY <2>2
<1>9. QED
  BY <1>1, <1>3, <1>5, <1>6, <1>7, <1>8 DEF GetSize

\* ... and so do the internal pages ...
LEMMA LoanFitsInner ==
  ASSUME NEW m, NEW F \in SUBSET Int, NEW below, InnerFits(m, F, below), NEW loan, NEW left,
         CutAt(loan.left, loan.right, m, left), loan.sep = m.keys[left]
  PROVE  /\ loan.sep \in Key /\ loan.sep \in F
         /\ InnerFits(loan.left, {k \in F : k < loan.sep}, below)
         /\ InnerFits(loan.right, {k \in F : loan.sep <= k}, below)
         /\ \E k \in F : k < loan.sep
         /\ loan.left.leaf = m.leaf /\ loan.right.leaf = m.leaf
         /\ GetSize(loan.left) = left /\ GetSize(loan.right) + left = GetSize(m)
         /\ GetSize(loan.right) \in Nat
<1>1. PICK x, y, sep : x = loan.left /\ y = loan.right /\ sep = loan.sep
  OBVIOUS
<1>2. CutAt(x, y, m, left) /\ sep = m.keys[left]
  BY <1>1
<1>3. /\ sep \in Key /\ sep \in F
      /\ InnerFits(x, {k \in F : k < sep}, below)
      /\ InnerFits(y, {k \in F : sep <= k}, below)
  BY <1>2, CutFits
<1>4. PICK j \in Nat : CutChildrenAre(x, y, m, left, j)
  BY <1>2, CutChildren
<1>5. x.leaf = FALSE /\ y.leaf = FALSE /\ m.leaf = FALSE
  BY <1>2 DEF CutAt
<1>6. /\ left \in Nat /\ 1 <= left
      /\ Len(x.children) = left /\ Len(y.children) = j /\ Len(m.children) = left + j
  BY <1>4 DEF CutChildrenAre
<1>7. j + left = left + j
  BY <1>6
<1>8. \E k \in F : k < sep
  <2>1. 1 \in 1 .. Len(x.children)
    BY <1>6
  <2>2. PICK k \in {j_ \in F : j_ < sep} : ChildSlot(x, k) = 1
    BY <1>3, <2>1 DEF InnerFits
  <2>3. QED
    BY <2>2
<1>9. QED
  BY <1>1, <1>3, <1>5, <1>6, <1>7, <1>8 DEF GetSize

\* ... as halves of what a merge would have made of the two.
LEMMA LoanHalves ==
  ASSUME NEW H \in Nat, NEW at, NEW at2, NEW L, L \in 0 .. H, NEW q, NEW l, NEW r, NEW sep, NEW m,
         PairIs(H, at, L, q, l, r, sep, m), JoinedRows(H, at, at2, L, l, r),
         NEW loan, NEW left, left \in Nat, 1 <= left, Loaned(L, loan, m, left, r)
  PROVE  LoanFits(H, at2, L, l, r, loan, m, left)
<1>1. PICK F : F = Held(at2[L], l)
  OBVIOUS
<1>2. F = Held(at[L], l) \cup Held(at[L], r)
  BY <1>1, HeldBoth DEF PairIs, JoinedRows
<1>3. F \in SUBSET Int /\ \A k \in F : k \in Int /\ at2[L][k] = l
  BY <1>1 DEF Held
<1>4. MergeFits(m, r, at, L, F, pages)
  BY <1>2 DEF PairIs
<1>5. CASE L = 0
  <2>1. LeafFits(m, F)
    BY <1>4, <1>5 DEF MergeFits
  <2>2. /\ LeafCut(loan.left, loan.right, m, left) /\ CutKey(m, left, loan.sep)
        /\ loan.left.next_page_id = r /\ loan.right.next_page_id = m.next_page_id
    BY <1>5 DEF Loaned
  <2>3. /\ LeafPartsFit(loan.left, loan.right, F, loan.sep)
        /\ \E k \in F : k < loan.sep
        /\ loan.left.leaf = m.leaf /\ loan.right.leaf = m.leaf
        /\ GetSize(loan.left) = left /\ GetSize(loan.right) + left = GetSize(m)
        /\ GetSize(loan.right) \in Nat
    BY <1>3, <2>1, <2>2, LoanFitsLeaf
  <2>4. HalvesFit(loan.left, loan.right, m, at2, L, l, r, loan.sep)
    <3>1. \A i \in Nat : ~(L = i + 1)
      BY <1>5
    <3>2. F = Held(at2[0], l)
      BY <1>1, <1>5
    <3>3. /\ LeafFits(loan.left, {k \in F : k < loan.sep})
          /\ LeafFits(loan.right, {k \in F : loan.sep <= k})
      BY <2>3 DEF LeafPartsFit
    <3>4. QED
      BY <2>2, <3>1, <3>2, <3>3 DEF HalvesFit
  <2>5. loan.sep \in Key /\ loan.sep \in F
    BY <2>3 DEF LeafPartsFit
  <2>6. at2[L][loan.sep] = l /\ \E k \in Int : k < loan.sep /\ at2[L][k] = l
    BY <1>3, <2>3, <2>5
  <2>7. QED
    BY <2>3, <2>4, <2>5, <2>6 DEF LoanFits
<1>6. CASE L # 0
  <2>1. PICK i \in Nat : L = i + 1 /\ i \in 0 .. H
    <3>1. L - 1 \in Nat /\ L = (L - 1) + 1 /\ L - 1 \in 0 .. H
      BY <1>6
    <3>2. QED
      BY <3>1
  <2>2. InnerFits(m, F, at[i]) /\ at2[i] = at[i]
    <3>1. i # L
      BY <2>1
    <3>2. QED
      BY <1>4, <2>1, <3>1 DEF MergeFits, JoinedRows
  <2>3. CutAt(loan.left, loan.right, m, left) /\ loan.sep = m.keys[left]
    BY <1>6 DEF Loaned
  <2>4. /\ loan.sep \in Key /\ loan.sep \in F
        /\ InnerFits(loan.left, {k \in F : k < loan.sep}, at[i])
        /\ InnerFits(loan.right, {k \in F : loan.sep <= k}, at[i])
        /\ \E k \in F : k < loan.sep
        /\ loan.left.leaf = m.leaf /\ loan.right.leaf = m.leaf
        /\ GetSize(loan.left) = left /\ GetSize(loan.right) + left = GetSize(m)
        /\ GetSize(loan.right) \in Nat
    BY <1>3, <2>2, <2>3, LoanFitsInner
  <2>5. HalvesFit(loan.left, loan.right, m, at2, L, l, r, loan.sep)
    <3>1. \A j \in Nat : L = j + 1 => j = i
      BY <2>1
    <3>2. QED
      BY <1>1, <1>6, <2>2, <2>4, <3>1 DEF HalvesFit
  <2>6. at2[L][loan.sep] = l /\ \E k \in Int : k < loan.sep /\ at2[L][k] = l
    BY <1>3, <2>4
  <2>7. QED
    BY <2>4, <2>5, <2>6 DEF LoanFits
<1>7. QED
  BY <1>5, <1>6

\* pg2 is pg with new for page q.
Replaced(pg2, pg, q, new) ==
  DOMAIN pg2 = DOMAIN pg /\ pg2[q] = new /\ \A x \in DOMAIN pg : x # q => pg2[x] = pg[x]

\* The tree has its shape again when the page above knows of the right half.
LEMMA HangAnew ==
  ASSUME NEW pg, NEW root, NEW H, NEW at, NEW see, Shape(pg, root, H, at, see),
         NEW L, L \in 0 .. H, L < H, NEW p, p \in Int, NEW c, c \in Int, NEW sep, sep \in Key,
         Pending(at, see, H, L, p, c, sep), NEW q, q = at[L + 1][sep],
         NEW page, page = pg[q], NEW new, Hung(new, page, ChildSlot(page, sep), sep, c),
         NEW pg2, Replaced(pg2, pg, q, new)
  PROVE  Shape(pg2, root, H, at, at)
<1>1. DOMAIN pg2 = DOMAIN pg /\ pg2[q] = new /\ \A x \in DOMAIN pg : x # q => pg2[x] = pg[x]
  BY DEF Replaced
<1>2. Hung(new, pg[q], ChildSlot(pg[q], sep), sep, c)
  OBVIOUS
<1>3. QED
  BY <1>1, <1>2, HangShape

\* pg3 is pg with what loan says for l and r, and new for q.
LoanedPages(pg3, pg, l, r, q, loan, new) ==
  /\ DOMAIN pg3 = DOMAIN pg /\ pg3[l] = loan.left /\ pg3[r] = loan.right /\ pg3[q] = new
  /\ \A x \in DOMAIN pg : x # l /\ x # q /\ x # r => pg3[x] = pg[x]

LoanLeaves(pg3, H, L, l, r, loan, m, left) ==
  /\ \E at3 : Shape(pg3, root_page_id, H, at3, at3)
  /\ \E at2 : LoanFits(H, at2, L, l, r, loan, m, left)

\* The tree after the loan: as if the two pages were merged, and what they hold
\* then cut in two and hung anew.
LEMMA LoanShape ==
  ASSUME NEW H, NEW at, NEW L, NEW key, NEW q, NEW d, NEW n, AtPlace(H, at, L, key, q, d, n),
         DOMAIN pages \subseteq Int,
         NEW l, l = pages[q].children[d], NEW r, r = pages[q].children[d + 1], NEW sep,
         NEW m, PairIs(H, at, L, q, l, r, sep, m),
         NEW loan, NEW left, left \in Nat, 1 <= left, Loaned(L, loan, m, left, r),
         NEW new, new = Internal([pages[q].keys EXCEPT ![d] = loan.sep], pages[q].children),
         NEW pg3, LoanedPages(pg3, pages, l, r, q, loan, new)
  PROVE  LoanLeaves(pg3, H, L, l, r, loan, m, left)
<1> SUFFICES ASSUME DOMAIN pg3 = DOMAIN pages, pg3[l] = loan.left, pg3[r] = loan.right, pg3[q] = new,
                    \A x \in DOMAIN pages : x # l /\ x # q /\ x # r => pg3[x] = pages[x]
             PROVE  LoanLeaves(pg3, H, L, l, r, loan, m, left)
  BY DEF LoanedPages
<1>1. /\ Shape(pages, root_page_id, H, at, at)
      /\ L \in 0 .. H /\ L < H /\ key \in Int
      /\ q = at[L + 1][key] /\ d \in 1 .. Len(pages[q].keys)
  BY SizeAssumption DEF AtPlace, InMend
<1>2. PICK page, F : page = pages[q] /\ F = Held(at[L + 1], q)
  OBVIOUS
<1>3. H \in Nat /\ L \in Nat /\ L + 1 \in 0 .. H /\ InnerFits(page, F, at[L]) /\ F \in SUBSET Int
  <2>1. PICK way : way = Way(at, H, L, key)
    OBVIOUS
  <2>2. Above(pages, H, at, at, L, key, q)
    BY <1>1, <2>1, PageAbove
  <2>3. QED
    BY <1>2, <2>2 DEF Above, Held
<1>4. PICK small : small = Internal(RemoveAt(page.keys, d), RemoveAt(page.children, d + 1))
  OBVIOUS
<1>5. d \in 1 .. Len(page.keys) /\ l = page.children[d] /\ r = page.children[d + 1]
  BY <1>1, <1>2
<1>6. Dropped(small, page, d)
  BY <1>3, <1>4, <1>5, DropAtSlot
<1>7. /\ l \in DOMAIN pages /\ r \in DOMAIN pages /\ q \in DOMAIN pages
      /\ l # r /\ l # q /\ r # q /\ l \in Int /\ r \in Int
  BY DEF PairIs
<1>8. PICK pg : pg = [x \in DOMAIN pages \ {r} |-> IF x = l THEN m ELSE IF x = q THEN small ELSE pages[x]]
  OBVIOUS
<1>9. JoinedPages(pg, pages, l, r, q, m, small)
  BY <1>7, <1>8 DEF JoinedPages
<1>10. PICK at2 : Shape(pg, root_page_id, H, at2, at2) /\ JoinedRows(H, at, at2, L, l, r)
  BY <1>2, <1>6, <1>9, JoinedShape
<1>11. LoanFits(H, at2, L, l, r, loan, m, left)
  BY <1>1, <1>3, <1>10, LoanHalves
<1>12. PICK cut : cut = loan.sep
  OBVIOUS
<1>13. PICK a, b : a = loan.left /\ b = loan.right
  OBVIOUS
<1>14. /\ cut \in Key /\ cut \in Int /\ at2[L][cut] = l
       /\ \E k \in Int : k < cut /\ at2[L][k] = l
       /\ HalvesFit(a, b, m, at2, L, l, r, cut)
  BY <1>11, <1>12, <1>13, SizeAssumption DEF LoanFits
<1>15. PICK pg2 : pg2 = [x \in DOMAIN pages |-> IF x = q THEN small ELSE pg3[x]]
  OBVIOUS
<1>16. /\ DOMAIN pg2 = DOMAIN pg \cup {r} /\ r \notin DOMAIN pg /\ pg[l] = m /\ pg[q] = small /\ q \in DOMAIN pg
       /\ pg2[l] = a /\ pg2[r] = b /\ pg2[q] = small
       /\ \A x \in DOMAIN pg : x # l => pg2[x] = pg[x]
  BY <1>7, <1>8, <1>13, <1>15
<1>17. PICK at3 : Shape(pg2, root_page_id, H, at3, at2) /\ Pending(at3, at2, H, L, l, r, cut)
  <2>1. HalvesFit(a, b, pg[l], at2, L, l, r, cut)
    BY <1>14, <1>16
  <2>2. QED
    BY <1>1, <1>7, <1>10, <1>14, <1>16, <2>1, CutShape
<1>18. at2[L + 1] = at[L + 1] /\ at3[L + 1] = at2[L + 1]
  <2>1. L + 1 # L
    BY <1>3
  <2>2. QED
    BY <1>3, <1>10, <1>17, <2>1 DEF JoinedRows, Pending
<1>19. at[L + 1][cut] = q
  <2>1. at[L][cut] = l \/ at[L][cut] = r
    BY <1>10, <1>14 DEF JoinedRows, Given
  <2>2. BothBelow(at, L, l, r, q)
    <3>1. PICK sep2 : sep2 = pages[q].keys[d]
      OBVIOUS
    <3>2. QED
      BY <1>1, <3>1, Beside
  <2>3. QED
    BY <1>14, <2>1, <2>2 DEF BothBelow
<1>20. InnerFits(small, F, at2[L])
  <2>1. PICK way : way = Way(at2, H, L, cut)
    OBVIOUS
  <2>2. PICK p : p = at2[L + 1][cut]
    OBVIOUS
  <2>3. Above(pg, H, at2, at2, L, cut, p)
    BY <1>1, <1>10, <1>14, <2>1, <2>2, PageAbove
  <2>4. p = q
    BY <1>18, <1>19, <2>2
  <2>5. QED
    BY <1>2, <1>16, <1>18, <2>3, <2>4 DEF Above
<1>21. Hung(new, small, ChildSlot(small, cut), cut, r)
  <2>1. new = Internal([page.keys EXCEPT ![d] = cut], page.children)
    BY <1>2, <1>12
  <2>2. QED
    BY <1>3, <1>5, <1>6, <1>7, <1>14, <1>20, <2>1, Rehung
<1>22. Shape(pg3, root_page_id, H, at3, at3)
  <2>1. q = at3[L + 1][cut] /\ small = pg2[q]
    BY <1>16, <1>18, <1>19
  <2>2. Replaced(pg3, pg2, q, new)
    BY <1>15 DEF Replaced
  <2>3. QED
    BY <1>1, <1>7, <1>14, <1>17, <1>21, <2>1, <2>2, HangAnew
<1>23. QED
  BY <1>11, <1>22 DEF LoanLeaves

\* An element is moved only when the two pages hold too many for one, so that
\* both are at least half full then.
LEMMA LoanNumbers ==
  ASSUME NEW na \in Nat, NEW nb \in Nat, NEW half \in Nat, NEW room \in Nat, half >= 1, half + half <= room,
         na < room, nb < room, na + nb >= room, NEW left,
         \/ left = na + 1 /\ na + 1 = half /\ nb >= half
         \/ left = na - 1 /\ nb + 1 = half /\ na >= half
  PROVE  /\ left \in Nat /\ 1 <= left /\ left < na + nb /\ left >= half /\ left < room
         /\ \A rest \in Nat : rest + left = na + nb => rest >= half /\ rest < room
<1>1. CASE left = na + 1 /\ na + 1 = half /\ nb >= half
  BY <1>1
<1>2. CASE left = na - 1 /\ nb + 1 = half /\ na >= half
  BY <1>2
<1>3. QED
  BY <1>1, <1>2

\* A loan keeps the tree sound.
LEMMA MoveOverSound ==
  ASSUME Sound, root_page_id # INVALID_PAGE_ID,
         NEW H, NEW at, NEW L, NEW key, NEW q, NEW d, NEW left, AtPlace(H, at, L, key, q, d, left),
         NEW l, l = pages[q].children[d], NEW r, r = pages[q].children[d + 1], NEW sep,
         NEW m, PairIs(H, at, L, q, l, r, sep, m), NEW a, NEW b,
         NEW na, NEW nb, NEW half, NEW room, PairSizes(a, b, m, left, na, nb, half, room), na + nb >= room,
         m.leaf \in BOOLEAN,
         NEW loan, Loaned(L, loan, m, left, r),
         MoveOver(q, d, loan), next_page' = next_page, answer' = answer
  PROVE  Sound'
<1>1. /\ H < next_page /\ SizesFit(pages, root_page_id, at[L][key])
      /\ at[L][key] = l \/ at[L][key] = r
  BY DEF AtPlace, InMend
<1>2. /\ l \in DOMAIN pages /\ r \in DOMAIN pages /\ q \in DOMAIN pages
      /\ l # r /\ l # q /\ r # q /\ l # root_page_id /\ r # root_page_id
  BY DEF PairIs
<1>3. next_page \in Nat /\ next_page >= 1 /\ DOMAIN pages \subseteq 1 .. next_page - 1
      /\ answer \in {"none", "inserted", "exists"}
  BY DEF Sound
<1>4. PICK page, new : page = pages[q] /\ new = Internal([page.keys EXCEPT ![d] = loan.sep], page.children)
  OBVIOUS
<1>5. new.leaf = FALSE /\ new.children = page.children
  BY <1>4 DEF Internal
<1>6. /\ Write([x \in {l, r, q} |-> IF x = l THEN loan.left ELSE IF x = r THEN loan.right ELSE new], {})
      /\ task' = Idle /\ root_page_id' = root_page_id
  BY <1>4 DEF MoveOver
<1>7. DOMAIN pages' = DOMAIN pages
  BY <1>2, <1>6 DEF Write
<1>8. pages'[l] = loan.left /\ pages'[r] = loan.right /\ pages'[q] = new
  BY <1>2, <1>6 DEF Write
<1>9. \A x \in DOMAIN pages : x # l /\ x # q /\ x # r => pages'[x] = pages[x]
  BY <1>6 DEF Write
<1>10. PICK i \in Nat, j \in Nat : i = na /\ j = nb
  BY DEF PairSizes
<1>11. /\ GetSize(m) = i + j /\ half = Half(m) /\ room = Room(m)
       /\ half \in Nat /\ room \in Nat /\ half >= 1 /\ half + half <= room
       /\ i < room /\ j < room /\ i + j >= room
       /\ \/ left = i + 1 /\ i + 1 = half /\ j >= half
          \/ left = i - 1 /\ j + 1 = half /\ i >= half
  BY <1>10 DEF PairSizes
<1>12. /\ left \in Nat /\ 1 <= left /\ left < i + j /\ left >= half /\ left < room
       /\ \A rest \in Nat : rest + left = i + j => rest >= half /\ rest < room
  BY <1>11, LoanNumbers
<1>13. PICK pg3 : pg3 = pages'
  OBVIOUS
<1>14. /\ \E at3 : Shape(pg3, root_page_id, H, at3, at3)
       /\ \E at2 : LoanFits(H, at2, L, l, r, loan, m, left)
  <2>1. DOMAIN pages \subseteq Int
    BY <1>3
  <2>2. new = Internal([pages[q].keys EXCEPT ![d] = loan.sep], pages[q].children)
    BY <1>4
  <2>3. LoanedPages(pg3, pages, l, r, q, loan, new)
    BY <1>7, <1>8, <1>9, <1>13 DEF LoanedPages
  <2>4. LoanLeaves(pg3, H, L, l, r, loan, m, left)
    BY <1>12, <2>1, <2>2, <2>3, LoanShape
  <2>5. QED
    BY <2>4 DEF LoanLeaves
<1>15. PICK at3 : Shape(pages', root_page_id, H, at3, at3)
  BY <1>13, <1>14
<1>16. PICK at2 : LoanFits(H, at2, L, l, r, loan, m, left)
  BY <1>14
<1>17. PICK rest \in Nat : rest = GetSize(loan.right)
  BY <1>16 DEF LoanFits
<1>18. /\ GetSize(loan.left) = left /\ rest + left = i + j
       /\ loan.left.leaf = m.leaf /\ loan.right.leaf = m.leaf
  BY <1>11, <1>16, <1>17 DEF LoanFits
<1>19. rest >= half /\ rest < room
  BY <1>12, <1>17, <1>18
<1>20. /\ Half(loan.left) = half /\ Half(loan.right) = half /\ Room(loan.left) = room /\ Room(loan.right) = room
  BY <1>11, <1>18 DEF Half, Room
<1>21. SizesFit(pages', root_page_id, INVALID_PAGE_ID)
  <2> SUFFICES ASSUME NEW x \in DOMAIN pages' PROVE SizeFits(pages'[x], x, root_page_id, INVALID_PAGE_ID)
    BY DEF SizesFit
  <2>1. x \in DOMAIN pages /\ x # INVALID_PAGE_ID
    BY <1>3, <1>7 DEF INVALID_PAGE_ID
  <2>2. CASE x = l
    BY <1>2, <1>8, <1>12, <1>18, <1>20, <2>1, <2>2 DEF SizeFits
  <2>3. CASE x = r
    BY <1>2, <1>8, <1>17, <1>19, <1>20, <2>1, <2>3 DEF SizeFits
  <2>4. CASE x = q
    <3>1. SizeFits(page, x, root_page_id, at[L][key]) /\ x # at[L][key]
      BY <1>1, <1>2, <1>4, <2>1, <2>4 DEF SizesFit
    <3>2. page.leaf = FALSE
      <4>1. PICK way : way = Way(at, H, L, key)
        OBVIOUS
      <4>2. Above(pages, H, at, at, L, key, q)
        <5>1. Shape(pages, root_page_id, H, at, at) /\ L \in 0 .. H /\ L < H /\ key \in Int /\ q = at[L + 1][key]
          BY SizeAssumption DEF AtPlace, InMend
        <5>2. QED
          BY <4>1, <5>1, PageAbove
      <4>3. QED
        BY <1>4, <4>2 DEF Above
    <3>3. GetSize(new) = GetSize(page) /\ Half(new) = Half(page) /\ Room(new) = Room(page)
      BY <1>5, <3>2 DEF GetSize, Half, Room
    <3>4. QED
      BY <1>5, <1>8, <2>1, <2>4, <3>1, <3>2, <3>3 DEF SizeFits
  <2>5. CASE x # l /\ x # r /\ x # q
    <3>1. SizeFits(pages[x], x, root_page_id, at[L][key]) /\ x # at[L][key]
      BY <1>1, <2>1, <2>5 DEF SizesFit
    <3>2. pages'[x] = pages[x]
      BY <1>9, <2>1, <2>5
    <3>3. QED
      BY <2>1, <3>1, <3>2 DEF SizeFits
  <2>6. QED
    BY <2>2, <2>3, <2>4, <2>5
<1>22. AtRest(pages', root_page_id', next_page', task', H, at3)
  BY <1>1, <1>6, <1>15, <1>21 DEF AtRest
<1>23. Standing(pages', root_page_id', next_page', task')
  BY <1>22 DEF Standing
<1>24. QED
  BY <1>3, <1>6, <1>7, <1>23 DEF Sound

\* Mend keeps the tree sound, or leaves a page for the next Mend.
LEMMA MendSound ==
  ASSUME Sound, Mend
  PROVE  Sound'
<1>1. root_page_id # INVALID_PAGE_ID
  BY PlaceOfMend
<1>2. PICK H, at, L, key, q, d, left : AtPlace(H, at, L, key, q, d, left) /\ MendStep(q, d, left)
  BY PlaceOfMend
<1>3. PICK l, r, sep : l = pages[q].children[d] /\ r = pages[q].children[d + 1] /\ sep = pages[q].keys[d]
  OBVIOUS
<1>4. PICK a, b, m : a = pages[l] /\ b = pages[r] /\ m = MergeOf(a, sep, b)
  OBVIOUS
<1>4a. Pair(q, d, l, r, sep, a, b, m)
  BY <1>3, <1>4 DEF Pair
<1>5. PairIs(H, at, L, q, l, r, sep, m)
  BY <1>2, <1>4a, PairFacts
<1>6. PairHolds(L, a, b, m, r, sep)
  BY <1>2, <1>4a, PairFacts
<1>7. PICK na, nb, half, room : PairSizes(a, b, m, left, na, nb, half, room)
  BY <1>2, <1>4a, PairFacts
<1>8. /\ next_page' = next_page /\ answer' = answer
      /\ a.leaf /\ LeafOverflows(GetSize(a) + GetSize(b)) => MoveOver(q, d, LeafLoan(a, b, left))
      /\ a.leaf /\ ~LeafOverflows(GetSize(a) + GetSize(b)) => DropChild(q, d, MergedLeaf(a, b))
      /\ ~a.leaf /\ InternalOverflows(GetSize(a) + GetSize(b)) => MoveOver(q, d, InternalLoan(a, sep, b, left))
      /\ ~a.leaf /\ ~InternalOverflows(GetSize(a) + GetSize(b)) => DropChild(q, d, MergedInternal(a, sep, b))
  BY <1>2, <1>3, <1>4 DEF MendStep
<1>9. PICK i \in Nat, j \in Nat : i = na /\ j = nb
  BY <1>7 DEF PairSizes
<1>10. /\ i = GetSize(a) /\ j = GetSize(b) /\ GetSize(m) = i + j /\ room = Room(a) /\ room \in Nat
       /\ half \in Nat /\ half >= 1 /\ half + half <= room /\ i < room /\ j < room
       /\ \/ left = i + 1 /\ i + 1 = half /\ j >= half
          \/ left = i - 1 /\ j + 1 = half /\ i >= half
  BY <1>7, <1>9 DEF PairSizes
<1>11. (a.leaf = TRUE /\ m.leaf = TRUE) \/ (a.leaf = FALSE /\ m.leaf = FALSE)
  BY <1>6 DEF PairHolds, CutAt
<1>12. PICK loan : loan = LoanOf(a, sep, b, left)
  OBVIOUS
<1>13. CASE i + j >= room
  <2>1. MoveOver(q, d, loan)
    <3>1. CASE a.leaf = TRUE
      BY <1>8, <1>10, <1>12, <1>13, <3>1 DEF LoanOf, Room, LeafOverflows
    <3>2. CASE a.leaf = FALSE
      BY <1>8, <1>10, <1>12, <1>13, <3>2 DEF LoanOf, Room, InternalOverflows
    <3>3. QED
      BY <1>11, <3>1, <3>2
  <2>2. left \in Nat /\ 1 <= left /\ left < i + j
    BY <1>10, <1>13, LoanNumbers
  <2>3. sep \in Key /\ left < GetSize(m)
    BY <1>5, <1>10, <2>2 DEF PairIs
  <2>4. Loaned(L, loan, m, left, r)
    BY <1>4, <1>6, <1>12, <2>2, <2>3, LoanIs
  <2>5. m.leaf \in BOOLEAN
    BY <1>11
  <2>6. na + nb >= room
    BY <1>9, <1>13
  <2>7. next_page' = next_page /\ answer' = answer
    BY <1>8
  <2>8. QED
    BY <1>1, <1>2, <1>3, <1>5, <1>7, <2>1, <2>4, <2>5, <2>6, <2>7, MoveOverSound
<1>14. CASE ~(i + j >= room)
  <2>1. DropChild(q, d, m)
    <3>1. CASE a.leaf = TRUE
      BY <1>4, <1>8, <1>10, <1>14, <3>1 DEF MergeOf, Room, LeafOverflows
    <3>2. CASE a.leaf = FALSE
      BY <1>4, <1>8, <1>10, <1>14, <3>2 DEF MergeOf, Room, InternalOverflows
    <3>3. QED
      BY <1>11, <3>1, <3>2
  <2>2. na + nb < room
    BY <1>9, <1>10, <1>14
  <2>3. next_page' = next_page /\ answer' = answer
    BY <1>8
  <2>4. QED
    BY <1>1, <1>2, <1>3, <1>5, <1>7, <2>1, <2>2, <2>3, DropSound
<1>15. QED
  BY <1>13, <1>14

-----------------------------------------------------------------------------
\* What holds wherever a sound tree stands.

\* Every step keeps the tree sound.
LEMMA SoundNext == Sound /\ [Next]_vars => Sound'
<1> SUFFICES ASSUME Sound, [Next]_vars PROVE Sound'
  OBVIOUS
<1>1. ASSUME NEW key \in Key, NEW value \in Value, InsertFirst(key, value) PROVE Sound'
  BY <1>1, InsertFirstSound
<1>2. ASSUME NEW key \in Key, NEW value \in Value, Insert(key, value) PROVE Sound'
  BY <1>2, InsertSound
<1>3. ASSUME NEW key \in Key, RemoveKey(key) PROVE Sound'
  BY <1>3, RemoveKeySound
<1>4. CASE AddChild
  BY <1>4, AddChildSound
<1>5. CASE AddRoot
  BY <1>5, AddRootSound
<1>6. CASE Mend
  BY <1>6, MendSound
<1>7. CASE Reopen
  BY <1>7, ReopenSound
<1>8. CASE UNCHANGED vars
  BY <1>8 DEF vars, Sound, Standing, AtRest, InSplit, InMend
<1>9. QED
  BY <1>1, <1>2, <1>3, <1>4, <1>5, <1>6, <1>7, <1>8 DEF Next

\* Page low is the one that waits for Mend, and child the one that waits for
\* AddChild; each is none when no command is under way.
Waiting(H, at, see, low, child) ==
  /\ Shape(pages, root_page_id, H, at, see) /\ SizesFit(pages, root_page_id, low)
  /\ H \in Nat /\ H < next_page
  /\ task.doing = "nothing" => task = Idle /\ see = at /\ low = INVALID_PAGE_ID /\ child = INVALID_PAGE_ID
  /\ task.doing = "split" => low = INVALID_PAGE_ID /\ task.child = child /\ child \in DOMAIN pages
  /\ task.doing = "mend" =>
       /\ see = at /\ child = INVALID_PAGE_ID
       /\ low = Turn(Last(task.path), task.key) /\ low # root_page_id
  /\ task.doing \in {"nothing", "split", "mend"}

\* What the levels hold and what the levels above believe, page by page: they
\* differ only in child, which nobody believes in yet.
Believed(H, at, see, child) ==
  /\ \A l \in 0 .. H, k \in Int : \E j \in Int : see[l][k] = at[l][j]
  /\ \A l \in 0 .. H, k \in Int : see[l][k] # child
  /\ \A l \in 0 .. H, k \in Int : at[l][k] # child => see[l][k] = at[l][k]

\* What the task names.
TaskTyped(pg, job) ==
  /\ job.doing \in {"split", "mend"} => job.path \in Seq(DOMAIN pg) /\ job.key \in Key
  /\ job.doing = "split" => job.sep \in Key /\ job.child \in DOMAIN pg

Located(H, at, see, low, child) ==
  Waiting(H, at, see, low, child) /\ Believed(H, at, see, child) /\ TaskTyped(pages, task)

\* A way goes through pages of the tree.
LEMMA WayTyped ==
  ASSUME NEW pg, NEW root, NEW H, NEW at, NEW see, Shape(pg, root, H, at, see),
         NEW L, L \in 0 .. H, NEW key, key \in Int
  PROVE  Way(at, H, L, key) \in Seq(DOMAIN pg)
<1>1. H \in Nat /\ L \in Int
  BY DEF Shape, Rows
<1>2. CASE L = H
  <2>1. Way(at, H, L, key) = <<>>
    BY <1>1, <1>2, WayEnds
  <2>2. QED
    BY <2>1
<1>3. CASE L # H
  <2>1. Leading(pg, H, at, key)
    BY LevelFacts DEF Leads, Leading
  <2>2. -1 <= L /\ L < H
    BY <1>1, <1>3
  <2>3. Climbs(Way(at, H, L, key), pg, H, at, L, key)
    BY <1>1, <2>1, <2>2, WayFacts
  <2>4. QED
    BY <2>3 DEF Climbs
<1>4. QED
  BY <1>2, <1>3

\* No page has the number that means none.
LEMMA PagesNumbered ==
  ASSUME Sound, NEW root, NEW H, NEW at, NEW see, Shape(pages, root, H, at, see)
  PROVE  \A l \in 0 .. H, k \in Int : at[l][k] # INVALID_PAGE_ID
<1>1. INVALID_PAGE_ID \notin DOMAIN pages
  BY DEF Sound, INVALID_PAGE_ID
<1>2. \A l \in 0 .. H, k \in Int : at[l][k] \in DOMAIN pages
  BY DEF Shape, Rows
<1>3. QED
  BY <1>1, <1>2

\* Where a sound tree stands with no command under way, ...
LEMMA LocatedRest ==
  ASSUME Sound, NEW H, NEW at, AtRest(pages, root_page_id, next_page, task, H, at)
  PROVE  Located(H, at, at, INVALID_PAGE_ID, INVALID_PAGE_ID)
<1>1. Rows(pages, H, at) /\ H \in Nat
  BY DEF AtRest, Shape, Rows
<1>2. task.doing = "nothing"
  BY TaskIs DEF AtRest
<1>3. Waiting(H, at, at, INVALID_PAGE_ID, INVALID_PAGE_ID)
  BY <1>1, <1>2 DEF AtRest, Waiting
<1>4. \A l \in 0 .. H, k \in Int : at[l][k] # INVALID_PAGE_ID
  BY PagesNumbered DEF AtRest
<1>5. Believed(H, at, at, INVALID_PAGE_ID)
  BY <1>4 DEF Believed
<1>6. TaskTyped(pages, task)
  BY <1>2 DEF TaskTyped
<1>7. QED
  BY <1>3, <1>5, <1>6 DEF Located

\* ... before AddChild or AddRoot ...
LEMMA LocatedSplit ==
  ASSUME Sound, NEW H, NEW at, NEW see, NEW L, NEW p, NEW key, NEW sep, NEW child,
         InSplit(pages, root_page_id, next_page, task, H, at, see, L, p, key, sep, child)
  PROVE  Located(H, at, see, INVALID_PAGE_ID, child)
<1>1. Rows(pages, H, at) /\ H \in Nat /\ L \in 0 .. H /\ sep \in Int /\ key \in Int
  BY SizeAssumption DEF InSplit, Shape, Rows
<1>2. task.doing = "split" /\ task.child = child /\ task.key = key /\ task.sep = sep
      /\ task.path = Way(at, H, L, key)
  BY TaskIs DEF InSplit
<1>3. PICK row, old : row = at[L] /\ old = see[L]
  OBVIOUS
<1>4. Parted(row, old, p, child, sep) /\ (\A l \in 0 .. H : l # L => at[l] = see[l])
  BY <1>3 DEF InSplit, Pending
<1>5. child \in DOMAIN pages
  BY <1>1, <1>3, <1>4 DEF Parted, Rows
<1>6. \A k \in Int : old[k] # child /\ (row[k] # child => old[k] = row[k])
  BY <1>4 DEF Parted
<1>7. \A k \in Int : \E j \in Int : old[k] = row[j]
  <2> TAKE k \in Int
  <2>1. CASE row[k] = child
    BY <1>4, <2>1 DEF Parted
  <2>2. CASE row[k] # child
    BY <1>6, <2>2
  <2>3. QED
    BY <2>1, <2>2
<1>8. Waiting(H, at, see, INVALID_PAGE_ID, child)
  BY <1>1, <1>2, <1>5 DEF InSplit, Waiting
<1>9. \A l \in 0 .. H, k \in Int : l # L => at[l][k] # child
  <2> SUFFICES ASSUME NEW l \in 0 .. H, NEW k \in Int, l # L, at[l][k] = child PROVE FALSE
    OBVIOUS
  <2>1. at[L][sep] = child
    BY <1>3, <1>4 DEF Parted
  <2>2. Shape(pages, root_page_id, H, at, see)
    BY DEF InSplit
  <2>3. at[l][k] # at[L][sep]
    BY <1>1, <2>2, LevelsApart
  <2>4. QED
    BY <2>1, <2>3
<1>10. Believed(H, at, see, child)
  <2>1. \A l \in 0 .. H, k \in Int : \E j \in Int : see[l][k] = at[l][j]
    BY <1>3, <1>4, <1>7
  <2>2. \A l \in 0 .. H, k \in Int : see[l][k] # child
    BY <1>3, <1>4, <1>6, <1>9
  <2>3. \A l \in 0 .. H, k \in Int : at[l][k] # child => see[l][k] = at[l][k]
    BY <1>3, <1>4, <1>6
  <2>4. QED
    BY <2>1, <2>2, <2>3 DEF Believed
<1>11. TaskTyped(pages, task)
  <2>1. Shape(pages, root_page_id, H, at, see) /\ key \in Key /\ sep \in Key
    BY DEF InSplit
  <2>2. task.path \in Seq(DOMAIN pages)
    BY <1>1, <1>2, <2>1, WayTyped
  <2>3. QED
    BY <1>2, <1>5, <2>1, <2>2 DEF TaskTyped
<1>12. QED
  BY <1>8, <1>10, <1>11 DEF Located

\* ... and before Mend.
LEMMA LocatedMend ==
  ASSUME Sound, NEW H, NEW at, NEW L, NEW key, InMend(pages, root_page_id, next_page, task, H, at, L, key)
  PROVE  Located(H, at, at, at[L][key], INVALID_PAGE_ID)
<1>1. /\ Rows(pages, H, at) /\ H \in Nat /\ L \in 0 .. H /\ L < H /\ key \in Int /\ key \in Key
      /\ Shape(pages, root_page_id, H, at, at) /\ H < next_page
      /\ SizesFit(pages, root_page_id, at[L][key])
  BY SizeAssumption DEF InMend, Shape, Rows
<1>2. task.doing = "mend" /\ task.key = key /\ task.path = Way(at, H, L, key)
  BY TaskIs DEF InMend
<1>3. PICK way, q : way = Way(at, H, L, key) /\ q = at[L + 1][key]
  OBVIOUS
<1>4. Above(pages, H, at, at, L, key, q) /\ WayIs(way, at, H, L, key, q)
  BY <1>1, <1>3, PageAbove
<1>5. at[L][key] = Turn(Last(task.path), task.key)
  BY <1>2, <1>3, <1>4 DEF Above, WayIs, Turn
<1>6. at[L][key] # root_page_id
  <2>1. at[H][key] = root_page_id /\ H \in 0 .. H /\ L # H
    BY <1>1, RootRow
  <2>2. at[L][key] # at[H][key]
    BY <1>1, <2>1, LevelsApart
  <2>3. QED
    BY <2>1, <2>2
<1>7. Waiting(H, at, at, at[L][key], INVALID_PAGE_ID)
  BY <1>1, <1>2, <1>5, <1>6 DEF Waiting
<1>8. \A l \in 0 .. H, k \in Int : at[l][k] # INVALID_PAGE_ID
  BY <1>1, PagesNumbered
<1>9. Believed(H, at, at, INVALID_PAGE_ID)
  BY <1>8 DEF Believed
<1>10. TaskTyped(pages, task)
  BY <1>1, <1>2, WayTyped DEF TaskTyped
<1>11. QED
  BY <1>7, <1>9, <1>10 DEF Located

\* It stands at one of them.
LEMMA WhereItStands ==
  ASSUME Sound, root_page_id # INVALID_PAGE_ID
  PROVE  \E H, at, see, low, child : Located(H, at, see, low, child)
<1>1. Standing(pages, root_page_id, next_page, task)
  BY DEF Sound
<1>2. CASE \E H, at : AtRest(pages, root_page_id, next_page, task, H, at)
  BY <1>2, LocatedRest
<1>3. CASE \E H, at, see, L, p, key, sep, child :
              InSplit(pages, root_page_id, next_page, task, H, at, see, L, p, key, sep, child)
  <2> PICK H, at, see, L, p, key, sep, child :
              InSplit(pages, root_page_id, next_page, task, H, at, see, L, p, key, sep, child)
    BY <1>3
  <2>1. Located(H, at, see, INVALID_PAGE_ID, child)
    BY LocatedSplit
  <2>2. QED
    BY <2>1
<1>4. CASE \E H, at, L, key : InMend(pages, root_page_id, next_page, task, H, at, L, key)
  <2> PICK H, at, L, key : InMend(pages, root_page_id, next_page, task, H, at, L, key)
    BY <1>4
  <2>1. Located(H, at, at, at[L][key], INVALID_PAGE_ID)
    BY LocatedMend
  <2>2. QED
    BY <2>1
<1>5. QED
  BY <1>1, <1>2, <1>3, <1>4 DEF Standing

-----------------------------------------------------------------------------
\* Types.

PageTyped(pg, page) ==
  IF page.leaf
  THEN /\ page.entries \in Seq(Key \X Value)
       /\ page.next_page_id \in DOMAIN pg \cup {INVALID_PAGE_ID}
  ELSE /\ page.keys \in Seq(Key)
       /\ page.children \in Seq(DOMAIN pg)
       /\ Len(page.keys) + 1 = Len(page.children)

\* On which level a page is, and what it is there.
LEMMA LevelOf ==
  ASSUME NEW pg, NEW root, NEW H, NEW at, NEW see, Shape(pg, root, H, at, see), NEW p, p \in DOMAIN pg
  PROVE  \E l \in 0 .. H, k \in Int :
           /\ at[l][k] = p
           /\ l = 0 => pg[p].leaf = TRUE /\ LeafFits(pg[p], Held(at[0], p))
           /\ \A i \in Nat : l = i + 1 => pg[p].leaf = FALSE /\ InnerFits(pg[p], Held(at[l], p), see[i])
<1>1. /\ H \in Nat /\ LeavesFit(pg, at[0])
      /\ \A l \in 0 .. H : l < H => InnersFit(pg, at[l + 1], see[l])
  BY DEF Shape, Rows, LevelsFit
<1>2. PICK l \in 0 .. H, k \in Int : at[l][k] = p
  BY DEF Shape, Covered
<1>3. ASSUME l = 0 PROVE pg[p].leaf = TRUE /\ LeafFits(pg[p], Held(at[0], p))
  <2>1. LeafFits(pg[p], Held(at[0], p))
    BY <1>1, <1>2, <1>3 DEF LeavesFit
  <2>2. QED
    BY <2>1 DEF LeafFits
<1>4. ASSUME NEW i \in Nat, l = i + 1
      PROVE  pg[p].leaf = FALSE /\ InnerFits(pg[p], Held(at[l], p), see[i])
  <2>1. i \in 0 .. H /\ i < H
    BY <1>1, <1>4
  <2>2. InnersFit(pg, at[l], see[i])
    BY <1>1, <1>4, <2>1
  <2>3. InnerFits(pg[p], Held(at[l], p), see[i])
    BY <1>2, <2>2 DEF InnersFit
  <2>4. QED
    BY <2>3 DEF InnerFits
<1>5. QED
  BY <1>2, <1>3, <1>4

\* A link leads to a page or nowhere.
LEMMA LinkTyped ==
  ASSUME NEW pg, NEW row, row \in [Int -> DOMAIN pg], Chained(pg, row), NEW k \in Int
  PROVE  pg[row[k]].next_page_id \in DOMAIN pg \cup {INVALID_PAGE_ID}
<1>1. CASE pg[row[k]].next_page_id # INVALID_PAGE_ID
  <2>1. PICK j \in Int : row[j] = row[k] /\ row[j + 1] # row[k]
    BY <1>1 DEF Chained
  <2>2. j + 1 \in Int
    OBVIOUS
  <2>3. pg[row[j]].next_page_id = row[j + 1]
    BY <2>1 DEF Chained
  <2>4. row[j + 1] \in DOMAIN pg
    BY <2>2
  <2>5. QED
    BY <2>1, <2>3, <2>4
<1>2. QED
  BY <1>1

\* Children are pages of the level below.
LEMMA ChildrenTyped ==
  ASSUME NEW page, NEW F, NEW below, InnerFits(page, F, below), NEW S,
         F \in SUBSET Int, \A k \in Int : below[k] \in S
  PROVE  page.children \in Seq(S)
<1>1. page.children \in Seq(Int)
  BY DEF InnerFits
<1>2. \A i \in 1 .. Len(page.children) : page.children[i] \in S
  <2> TAKE i \in 1 .. Len(page.children)
  <2>1. PICK k \in F : ChildSlot(page, k) = i
    BY DEF InnerFits
  <2>2. below[k] = page.children[i]
    BY <2>1 DEF InnerFits
  <2>3. QED
    BY <2>2
<1>3. QED
  BY <1>1, <1>2

\* Every page has its type.
LEMMA PagesTyped ==
  ASSUME NEW H, NEW at, NEW see, NEW low, NEW child, Located(H, at, see, low, child), NEW p, p \in DOMAIN pages
  PROVE  PageTyped(pages, pages[p])
<1>1. Shape(pages, root_page_id, H, at, see)
  BY DEF Located, Waiting
<1>2. H \in Nat /\ Rows(pages, H, at) /\ Chained(pages, at[0])
  BY <1>1 DEF Shape, Rows
<1>3. PICK l \in 0 .. H, k \in Int :
           /\ at[l][k] = p
           /\ l = 0 => pages[p].leaf = TRUE /\ LeafFits(pages[p], Held(at[0], p))
           /\ \A i \in Nat : l = i + 1 => pages[p].leaf = FALSE /\ InnerFits(pages[p], Held(at[l], p), see[i])
  BY <1>1, LevelOf
<1>4. CASE l = 0
  <2>1. at[0] \in [Int -> DOMAIN pages]
    BY <1>2 DEF Rows
  <2>2. pages[p].next_page_id \in DOMAIN pages \cup {INVALID_PAGE_ID}
    BY <1>2, <1>3, <1>4, <2>1, LinkTyped
  <2>3. pages[p].leaf = TRUE /\ pages[p].entries \in Seq(Key \X Value)
    BY <1>3, <1>4 DEF LeafFits
  <2>4. QED
    BY <2>2, <2>3 DEF PageTyped
<1>5. CASE l # 0
  <2>1. PICK i \in Nat : l = i + 1
    <3>1. l - 1 \in Nat /\ l = (l - 1) + 1
      BY <1>2, <1>5
    <3>2. QED
      BY <3>1
  <2>2. pages[p].leaf = FALSE /\ InnerFits(pages[p], Held(at[l], p), see[i])
    BY <1>3, <2>1
  <2>3. \A m \in Int : see[i][m] \in DOMAIN pages
    <3>1. i \in 0 .. H
      BY <1>2, <2>1
    <3>2. \A m \in Int : \E j \in Int : see[i][m] = at[i][j]
      BY <3>1 DEF Located, Believed
    <3>3. \A j \in Int : at[i][j] \in DOMAIN pages
      BY <1>2, <3>1 DEF Rows
    <3>4. QED
      BY <3>2, <3>3
  <2>4. Held(at[l], p) \in SUBSET Int
    BY DEF Held
  <2>5. pages[p].children \in Seq(DOMAIN pages)
    BY <2>2, <2>3, <2>4, ChildrenTyped
  <2>6. pages[p].keys \in Seq(Key) /\ Len(pages[p].keys) + 1 = Len(pages[p].children)
    BY <2>2 DEF InnerFits
  <2>7. QED
    BY <2>2, <2>5, <2>6 DEF PageTyped
<1>6. QED
  BY <1>4, <1>5

\* The root is the page of the highest level.
LEMMA RootSeen ==
  ASSUME NEW H, NEW at, NEW see, NEW low, NEW child, Located(H, at, see, low, child)
  PROVE  \E j \in Int : at[H][j] = root_page_id /\ root_page_id \in DOMAIN pages
<1>1. Shape(pages, root_page_id, H, at, see) /\ H \in Nat /\ H \in 0 .. H
  BY DEF Located, Waiting
<1>2. see[H][0] = root_page_id
  BY <1>1 DEF Shape
<1>3. PICK j \in Int : see[H][0] = at[H][j]
  <2>1. \A l \in 0 .. H, k \in Int : \E j \in Int : see[l][k] = at[l][j]
    BY DEF Located, Believed
  <2>2. 0 \in Int
    OBVIOUS
  <2>3. QED
    BY <1>1, <2>1, <2>2
<1>4. at[H][j] \in DOMAIN pages
  BY <1>1 DEF Shape, Rows
<1>5. QED
  BY <1>2, <1>3, <1>4

\* A sound tree has its types.
LEMMA SoundTypes ==
  ASSUME Sound
  PROVE  TypeOK
<1>1. DOMAIN pages \subseteq 1 .. next_page - 1 /\ answer \in {"none", "inserted", "exists"}
  BY DEF Sound
<1>2. CASE root_page_id = INVALID_PAGE_ID
  <2>1. DOMAIN pages = {} /\ task = Idle
    BY <1>2 DEF Sound
  <2>2. task.doing = "nothing"
    BY <2>1, TaskIs
  <2>3. QED
    BY <1>1, <1>2, <2>1, <2>2 DEF TypeOK
<1>3. CASE root_page_id # INVALID_PAGE_ID
  <2>1. PICK H, at, see, low, child : Located(H, at, see, low, child)
    BY <1>3, WhereItStands
  <2>2. root_page_id \in DOMAIN pages
    BY <2>1, RootSeen
  <2>3. task.doing \in {"nothing", "split", "mend"}
    BY <2>1 DEF Located, Waiting
  <2>4. TaskTyped(pages, task)
    BY <2>1 DEF Located
  <2>5. \A p \in DOMAIN pages : PageTyped(pages, pages[p])
    BY <2>1, PagesTyped
  <2>6. QED
    BY <1>1, <2>2, <2>3, <2>4, <2>5 DEF TypeOK, TaskTyped, PageTyped
<1>4. QED
  BY <1>2, <1>3

\* Every variable of the tree always holds a value of its type: entries and
\* separators are keys that were stored, and the pages that children, links and
\* the task name are there.
THEOREM TreeTypeCorrect == Spec => []TypeOK
<1>1. Init => Sound
  BY SoundInit
<1>2. Sound /\ [Next]_vars => Sound'
  BY SoundNext
<1>3. Sound => TypeOK
  BY SoundTypes
<1>4. QED
  BY <1>1, <1>2, <1>3, PTL DEF Spec

-----------------------------------------------------------------------------
\* Balance.

\* The pages of a sound tree are between half full and full.
LEMMA SoundSizes ==
  ASSUME Sound, NEW p \in DOMAIN pages
  PROVE  GetSize(pages[p]) \in
           Fewest(p) .. (IF pages[p].leaf THEN leaf_max_size ELSE internal_max_size) - 1
<1>1. root_page_id # INVALID_PAGE_ID /\ p # INVALID_PAGE_ID
  BY DEF Sound, INVALID_PAGE_ID
<1>2. PICK H, at, see, low, child : Located(H, at, see, low, child)
  BY <1>1, WhereItStands
<1>3. SizeFits(pages[p], p, root_page_id, low)
  BY <1>2 DEF Located, Waiting, SizesFit
<1>4. PICK n \in Nat : n = GetSize(pages[p])
  BY <1>3 DEF SizeFits
<1>5. pages[p].leaf \in BOOLEAN
  <2>1. Shape(pages, root_page_id, H, at, see) /\ H \in Nat
    BY <1>2 DEF Located, Waiting
  <2>2. PICK l \in 0 .. H, k \in Int :
           /\ at[l][k] = p
           /\ l = 0 => pages[p].leaf = TRUE /\ LeafFits(pages[p], Held(at[0], p))
           /\ \A i \in Nat : l = i + 1 => pages[p].leaf = FALSE /\ InnerFits(pages[p], Held(at[l], p), see[i])
    BY <2>1, LevelOf
  <2>3. l = 0 \/ (l - 1 \in Nat /\ l = (l - 1) + 1)
    BY <2>1
  <2>4. QED
    BY <2>2, <2>3
<1>6. PICK room \in Nat, half \in Nat, few \in Nat :
        /\ room = (IF pages[p].leaf THEN leaf_max_size ELSE internal_max_size)
        /\ half = (IF pages[p].leaf THEN leaf_min_size ELSE internal_min_size)
        /\ few = (IF pages[p].leaf THEN 1 ELSE 2)
        /\ half >= 1
  BY <1>5, SizeAssumption DEF leaf_min_size, internal_min_size
<1>7. n < room
  BY <1>3, <1>4, <1>6 DEF SizeFits, Room
<1>8. PICK least : least = Fewest(p)
  OBVIOUS
<1>9. least \in Int /\ least <= n
  <2>1. CASE p = root_page_id
    <3>1. least = few
      BY <1>6, <1>8, <2>1 DEF Fewest
    <3>2. n >= few
      BY <1>3, <1>4, <1>6, <2>1 DEF SizeFits
    <3>3. QED
      BY <1>6, <3>1, <3>2
  <2>2. CASE p # root_page_id /\ p = low
    <3>1. task.doing = "mend" /\ p = Turn(Last(task.path), task.key)
      BY <1>1, <1>2, <2>2 DEF Located, Waiting
    <3>2. least = half - 1
      BY <1>6, <1>8, <2>2, <3>1 DEF Fewest
    <3>3. n + 1 = half
      BY <1>3, <1>4, <1>6, <2>2 DEF SizeFits, Half
    <3>4. least + 1 = half /\ half \in Nat
      BY <1>6, <3>2
    <3>5. QED
      BY <3>2, <3>3, <3>4
  <2>3. CASE p # root_page_id /\ p # low
    <3>1. least = half
      <4>1. ~(task.doing = "mend" /\ p = Turn(Last(task.path), task.key))
        BY <1>2, <2>3 DEF Located, Waiting
      <4>2. QED
        BY <1>6, <1>8, <2>3, <4>1 DEF Fewest
    <3>2. n >= half
      BY <1>3, <1>4, <1>6, <2>3 DEF SizeFits, Half
    <3>3. QED
      BY <1>6, <3>1, <3>2
  <2>4. QED
    BY <2>1, <2>2, <2>3
<1>10. n \in least .. room - 1
  BY <1>6, <1>7, <1>9
<1>11. QED
  BY <1>4, <1>6, <1>8, <1>10

\* All paths of a sound tree are as long.
LEMMA SoundPaths ==
  ASSUME Sound, task = Idle, root_page_id # INVALID_PAGE_ID, NEW j \in Key, NEW k \in Key
  PROVE  Len(FindPath(j)) = Len(FindPath(k))
<1>1. task.doing = "nothing" /\ next_page \in Nat
  BY TaskIs DEF Sound
<1>2. PICK H, at : AtRest(pages, root_page_id, next_page, task, H, at)
  BY <1>1, StandingBy
<1>3. j \in Int /\ k \in Int
  BY SizeAssumption
<1>4. PICK p, q : p = at[0][j] /\ q = at[0][k]
  OBVIOUS
<1>5. Len(FindPath(j)) = H + 1
  BY <1>1, <1>2, <1>3, <1>4, LeafOf
<1>6. Len(FindPath(k)) = H + 1
  BY <1>1, <1>2, <1>3, <1>4, LeafOf
<1>7. QED
  BY <1>5, <1>6

\* So a sound tree is balanced and filled.
LEMMA SoundBalanced == Sound => BalancedAndFilled
BY SoundSizes, SoundPaths DEF BalancedAndFilled

\* However many levels a split or a merge reaches, every page stays between
\* half full and full, and every leaf is as deep as the others.
THEOREM StaysBalancedAndFilled == Spec => []BalancedAndFilled
<1>1. Init => Sound
  BY SoundInit
<1>2. Sound /\ [Next]_vars => Sound'
  BY SoundNext
<1>3. Sound => BalancedAndFilled
  BY SoundBalanced
<1>4. QED
  BY <1>1, <1>2, <1>3, PTL DEF Spec

-----------------------------------------------------------------------------
\* Where pages hang.

HangsAt(p, s) ==
  /\ ~pages[s[1]].leaf
  /\ s[2] \in DOMAIN pages[s[1]].children
  /\ pages[s[1]].children[s[2]] = p
Hooks(p) == {s \in (DOMAIN pages) \X (1 .. internal_max_size) : HangsAt(p, s)}

\* Page q with p at slot i, level by level: some key leads from q to p.
HookOn(at, see, p, q, i, l, k) ==
  at[l + 1][k] = q /\ see[l][k] = p /\ ChildSlot(pages[q], k) = i

\* A place where p hangs is one that some key is led by.
LEMMA HookKeys ==
  ASSUME NEW H, NEW at, NEW see, NEW low, NEW child, Located(H, at, see, low, child),
         NEW p, NEW s, s \in Hooks(p)
  PROVE  \E l \in 0 .. H, k \in Int : l < H /\ HookOn(at, see, p, s[1], s[2], l, k)
<1>1. PICK q, i : q = s[1] /\ i = s[2]
  OBVIOUS
<1>2. q \in DOMAIN pages /\ i \in Int /\ ~pages[q].leaf
      /\ i \in DOMAIN pages[q].children /\ pages[q].children[i] = p
  BY <1>1 DEF Hooks, HangsAt
<1>3. Shape(pages, root_page_id, H, at, see) /\ H \in Nat
  BY DEF Located, Waiting
<1>4. PICK m \in 0 .. H, j \in Int :
           /\ at[m][j] = q
           /\ m = 0 => pages[q].leaf = TRUE /\ LeafFits(pages[q], Held(at[0], q))
           /\ \A n \in Nat : m = n + 1 => pages[q].leaf = FALSE /\ InnerFits(pages[q], Held(at[m], q), see[n])
  BY <1>2, <1>3, LevelOf
<1>5. PICK l \in Nat : m = l + 1
  <2>1. m # 0
    BY <1>2, <1>4
  <2>2. m - 1 \in Nat /\ m = (m - 1) + 1
    BY <1>3, <2>1
  <2>3. QED
    BY <2>2
<1>6. InnerFits(pages[q], Held(at[m], q), see[l])
  BY <1>4, <1>5
<1>7. i \in 1 .. Len(pages[q].children)
  BY <1>2, <1>6 DEF InnerFits
<1>8. PICK k \in Held(at[m], q) : ChildSlot(pages[q], k) = i
  BY <1>6, <1>7 DEF InnerFits
<1>9. see[l][k] = p
  BY <1>2, <1>6, <1>8 DEF InnerFits
<1>10. k \in Int /\ at[m][k] = q
  BY <1>8 DEF Held
<1>11. l \in 0 .. H /\ l < H
  BY <1>3, <1>5
<1>12. HookOn(at, see, p, q, i, l, k)
  BY <1>5, <1>8, <1>9, <1>10 DEF HookOn
<1>13. QED
  BY <1>1, <1>10, <1>11, <1>12

\* Nothing leads down to the root or to the page that waits.
LEMMA NoHook ==
  ASSUME NEW H, NEW at, NEW see, NEW low, NEW child, Located(H, at, see, low, child),
         NEW p, p = root_page_id \/ p = child
  PROVE  Hooks(p) = {}
<1> SUFFICES ASSUME NEW s \in Hooks(p) PROVE FALSE
  OBVIOUS
<1>1. PICK l \in 0 .. H, k \in Int : l < H /\ HookOn(at, see, p, s[1], s[2], l, k)
  BY HookKeys
<1>2. see[l][k] = p
  BY <1>1 DEF HookOn
<1>3. p = root_page_id
  BY <1>2 DEF Located, Believed
<1>4. PICK j \in Int : at[H][j] = root_page_id
  BY RootSeen
<1>5. PICK m \in Int : see[l][k] = at[l][m]
  BY DEF Located, Believed
<1>6. Shape(pages, root_page_id, H, at, see) /\ H \in 0 .. H /\ l # H
  BY <1>1 DEF Located, Waiting
<1>7. at[l][m] # at[H][j]
  BY <1>6, LevelsApart
<1>8. QED
  BY <1>2, <1>3, <1>4, <1>5, <1>7

\* A page that nobody waits for hangs somewhere.
LEMMA SomeHook ==
  ASSUME Sound, NEW H, NEW at, NEW see, NEW low, NEW child, Located(H, at, see, low, child),
         NEW p \in DOMAIN pages, p # root_page_id, p # child
  PROVE  Hooks(p) # {}
<1>1. Shape(pages, root_page_id, H, at, see) /\ H \in Nat
  BY DEF Located, Waiting
<1>2. PICK l \in 0 .. H, k \in Int : at[l][k] = p
  BY <1>1 DEF Shape, Covered
<1>3. see[l][k] = p
  BY <1>2 DEF Located, Believed
<1>4. l # H
  BY <1>1, <1>3 DEF Shape
<1>5. l < H /\ l + 1 \in 0 .. H /\ l \in Nat
  BY <1>1, <1>4
<1>6. PICK q, page, i : q = at[l + 1][k] /\ page = pages[q] /\ i = ChildSlot(page, k)
  OBVIOUS
<1>7. q \in DOMAIN pages
  BY <1>1, <1>5, <1>6 DEF Shape, Rows
<1>8. InnerFits(page, Held(at[l + 1], q), see[l])
  <2>1. InnersFit(pages, at[l + 1], see[l])
    BY <1>1, <1>5 DEF Shape, LevelsFit
  <2>2. QED
    BY <1>6, <2>1 DEF InnersFit
<1>9. k \in Held(at[l + 1], q)
  BY <1>6 DEF Held
<1>10. i \in 1 .. Len(page.children) /\ page.children[i] = p
  <2>1. i \in 1 .. Len(page.children)
    BY <1>6, <1>8, SlotFacts
  <2>2. page.children[i] = see[l][k]
    BY <1>6, <1>8, <1>9 DEF InnerFits
  <2>3. QED
    BY <1>3, <2>1, <2>2
<1>11. page.leaf = FALSE /\ DOMAIN page.children = 1 .. Len(page.children)
  BY <1>8 DEF InnerFits
<1>12. i \in 1 .. internal_max_size
  <2>1. SizeFits(page, q, root_page_id, low)
    BY <1>6, <1>7 DEF Located, Waiting, SizesFit
  <2>2. Len(page.children) < internal_max_size /\ Len(page.children) \in Nat
    BY <1>11, <2>1 DEF SizeFits, GetSize, Room
  <2>3. QED
    BY <1>10, <2>2, SizeAssumption
<1>13. <<q, i>> \in Hooks(p)
  BY <1>6, <1>7, <1>10, <1>11, <1>12 DEF Hooks, HangsAt
<1>14. QED
  BY <1>13

\* And at one place only.
LEMMA OneHook ==
  ASSUME NEW H, NEW at, NEW see, NEW low, NEW child, Located(H, at, see, low, child),
         NEW p, NEW s, s \in Hooks(p), NEW t, t \in Hooks(p)
  PROVE  s = t
<1>1. PICK l \in 0 .. H, k \in Int : l < H /\ HookOn(at, see, p, s[1], s[2], l, k)
  BY HookKeys
<1>2. PICK m \in 0 .. H, j \in Int : m < H /\ HookOn(at, see, p, t[1], t[2], m, j)
  BY HookKeys
<1>3. /\ at[l + 1][k] = s[1] /\ see[l][k] = p /\ ChildSlot(pages[s[1]], k) = s[2]
      /\ at[m + 1][j] = t[1] /\ see[m][j] = p /\ ChildSlot(pages[t[1]], j) = t[2]
  BY <1>1, <1>2 DEF HookOn
<1>4. Shape(pages, root_page_id, H, at, see) /\ H \in Nat
  BY DEF Located, Waiting
<1>5. l = m
  <2>1. PICK a \in Int : see[l][k] = at[l][a]
    BY DEF Located, Believed
  <2>2. PICK b \in Int : see[m][j] = at[m][b]
    BY DEF Located, Believed
  <2>3. at[l][a] = at[m][b]
    BY <1>3, <2>1, <2>2
  <2>4. QED
    BY <1>4, <2>3, LevelsApart
<1>6. PICK q, page, F : q = s[1] /\ page = pages[q] /\ F = Held(at[l + 1], q)
  OBVIOUS
<1>7. InnerFits(page, F, see[l])
  <2>1. l \in 0 .. H /\ l < H
    BY <1>1
  <2>2. InnersFit(pages, at[l + 1], see[l])
    BY <1>4, <2>1 DEF Shape, LevelsFit
  <2>3. QED
    BY <1>3, <1>6, <2>2 DEF InnersFit
<1>8. k \in F
  BY <1>3, <1>6 DEF Held
<1>9. j \in F /\ ChildSlot(page, k) = ChildSlot(page, j)
  BY <1>3, <1>5, <1>7, <1>8 DEF InnerFits
<1>10. t[1] = q
  BY <1>3, <1>5, <1>6, <1>9 DEF Held
<1>11. s[1] = t[1] /\ s[2] = t[2]
  BY <1>3, <1>6, <1>9, <1>10
<1>12. QED
  BY <1>11 DEF Hooks

\* Each page of a sound tree hangs at one place.
LEMMA SoundHooks ==
  ASSUME Sound, NEW p \in DOMAIN pages
  PROVE  Cardinality(Hooks(p))
           = IF p = root_page_id \/ (task.doing = "split" /\ p = task.child) THEN 0 ELSE 1
<1>1. root_page_id # INVALID_PAGE_ID /\ p # INVALID_PAGE_ID
  BY DEF Sound, INVALID_PAGE_ID
<1>2. PICK H, at, see, low, child : Located(H, at, see, low, child)
  BY <1>1, WhereItStands
<1>3. p = child <=> task.doing = "split" /\ p = task.child
  BY <1>1, <1>2 DEF Located, Waiting
<1>4. CASE p = root_page_id \/ p = child
  <2>1. Hooks(p) = {}
    BY <1>2, <1>4, NoHook
  <2>2. Cardinality(Hooks(p)) = 0
    BY <2>1, FS_EmptySet
  <2>3. QED
    BY <1>3, <1>4, <2>2
<1>5. CASE p # root_page_id /\ p # child
  <2>1. PICK s : s \in Hooks(p)
    BY <1>2, <1>5, SomeHook
  <2>2. \A t \in Hooks(p) : t = s
    BY <1>2, <2>1, OneHook
  <2>3. Hooks(p) = {s}
    BY <2>1, <2>2
  <2>4. Cardinality(Hooks(p)) = 1
    BY <2>3, FS_Singleton
  <2>5. QED
    BY <1>3, <1>5, <2>4
<1>6. QED
  BY <1>4, <1>5

\* That is what EachPageHangsOnce says.
LEMMA SoundlyHung == Sound => EachPageHangsOnce
<1> SUFFICES ASSUME Sound, NEW p \in DOMAIN pages
             PROVE  Cardinality({s \in (DOMAIN pages) \X (1 .. internal_max_size) :
                                  /\ ~pages[s[1]].leaf
                                  /\ s[2] \in DOMAIN pages[s[1]].children
                                  /\ pages[s[1]].children[s[2]] = p})
                      = IF p = root_page_id \/ (task.doing = "split" /\ p = task.child) THEN 0 ELSE 1
  BY DEF EachPageHangsOnce
<1>1. QED
  BY SoundHooks DEF Hooks, HangsAt

\* Every page hangs below exactly one other at exactly one place, but for the
\* root and a page that was just split off.
THEOREM PagesHangOnce == Spec => []EachPageHangsOnce
<1>1. Init => Sound
  BY SoundInit
<1>2. Sound /\ [Next]_vars => Sound'
  BY SoundNext
<1>3. Sound => EachPageHangsOnce
  BY SoundlyHung
<1>4. QED
  BY <1>1, <1>2, <1>3, PTL DEF Spec

-----------------------------------------------------------------------------
\* What the leaves hold.

\* An entry and the leaf it is in, between commands.
EntryIn(at, e, p, i) ==
  /\ p \in DOMAIN pages /\ pages[p].leaf = TRUE
  /\ i \in 1 .. Len(pages[p].entries) /\ e = pages[p].entries[i]
  /\ e \in Key \X Value /\ e[1] \in Int /\ at[0][e[1]] = p

\* Every entry is in the leaf that its key leads to.
LEMMA EntryPlace ==
  ASSUME NEW H, NEW at, NEW see, Shape(pages, root_page_id, H, at, see), NEW e, e \in Entries
  PROVE  \E p, i : EntryIn(at, e, p, i)
<1>1. PICK p \in DOMAIN pages : pages[p].leaf /\ e \in ToSet(pages[p].entries)
  BY DEF Entries
<1>2. PICK l \in 0 .. H, k \in Int :
           /\ at[l][k] = p
           /\ l = 0 => pages[p].leaf = TRUE /\ LeafFits(pages[p], Held(at[0], p))
           /\ \A i \in Nat : l = i + 1 => pages[p].leaf = FALSE /\ InnerFits(pages[p], Held(at[l], p), see[i])
  BY LevelOf
<1>3. l = 0
  <2>1. H \in Nat
    BY DEF Shape, Rows
  <2>2. l = 0 \/ (l - 1 \in Nat /\ l = (l - 1) + 1)
    BY <2>1
  <2>3. QED
    BY <1>1, <1>2, <2>2
<1>4. pages[p].leaf = TRUE /\ LeafFits(pages[p], Held(at[0], p))
  BY <1>2, <1>3
<1>5. PICK entries : entries = pages[p].entries
  OBVIOUS
<1>6. entries \in Seq(Key \X Value) /\ e \in ToSet(entries)
  BY <1>1, <1>4, <1>5 DEF LeafFits
<1>7. PICK i \in 1 .. Len(entries) : e = entries[i]
  BY <1>6 DEF ToSet
<1>8. e \in Key \X Value /\ e[1] \in Int
  BY <1>6, <1>7, EntryFacts
<1>9. e[1] \in Held(at[0], p)
  BY <1>4, <1>5, <1>7 DEF LeafFits
<1>10. EntryIn(at, e, p, i)
  BY <1>4, <1>5, <1>7, <1>8, <1>9 DEF EntryIn, Held
<1>11. QED
  BY <1>10

\* What a leaf holds is stored.
LEMMA EntryOfLeaf ==
  ASSUME NEW p \in DOMAIN pages, NEW F, LeafFits(pages[p], F), NEW i \in 1 .. Len(pages[p].entries)
  PROVE  pages[p].entries[i] \in Entries
<1>1. pages[p].leaf = TRUE /\ pages[p].entries \in Seq(Key \X Value)
  BY DEF LeafFits
<1>2. PICK entries : entries = pages[p].entries
  OBVIOUS
<1>3. entries[i] \in ToSet(entries)
  BY <1>1, <1>2 DEF ToSet
<1>4. QED
  BY <1>1, <1>2, <1>3 DEF Entries

\* An entry with the key is nowhere but at slot.
OnlySlot(page, slot, key) ==
  \A i \in 1 .. Len(page.entries) : page.entries[i][1] = key <=> i = slot /\ HasKeyAt(page, slot, key)

\* The slots of a leaf.
LEMMA LeafSlots ==
  ASSUME NEW page, NEW F, LeafFits(page, F), NEW key \in Int, NEW slot, slot = EntrySlot(page, key)
  PROVE  /\ slot \in 1 .. Len(page.entries) + 1
         /\ \A i \in 1 .. Len(page.entries) : page.entries[i][1] < key <=> i < slot
         /\ OnlySlot(page, slot, key)
<1>1. page.entries \in Seq(Key \X Value)
      /\ \A i, j \in 1 .. Len(page.entries) : i < j => page.entries[i][1] < page.entries[j][1]
  BY DEF LeafFits
<1>2. slot \in 1 .. Len(page.entries) + 1
      /\ \A i \in 1 .. Len(page.entries) : page.entries[i][1] < key <=> i < slot
  BY <1>1, EntrySlotFacts
<1>3. ASSUME NEW i \in 1 .. Len(page.entries)
      PROVE  page.entries[i][1] = key <=> i = slot /\ HasKeyAt(page, slot, key)
  <2>1. page.entries[i][1] \in Int
    BY <1>1, EntryFacts
  <2>2. ASSUME page.entries[i][1] = key PROVE i = slot /\ HasKeyAt(page, slot, key)
    <3>1. ~(i < slot)
      BY <1>2, <2>1, <2>2
    <3>2. ~(slot < i)
      <4> SUFFICES ASSUME slot < i PROVE FALSE
        OBVIOUS
      <4>1. slot \in 1 .. Len(page.entries) /\ slot \in Int
        BY <1>1, <1>2
      <4>2. page.entries[slot][1] < page.entries[i][1]
        BY <1>1, <4>1
      <4>3. slot < slot
        BY <1>2, <2>2, <4>1, <4>2
      <4>4. QED
        BY <4>1, <4>3
    <3>3. i = slot
      BY <1>1, <1>2, <3>1, <3>2
    <3>4. QED
      BY <1>1, <2>2, <3>3 DEF HasKeyAt
  <2>3. ASSUME i = slot, HasKeyAt(page, slot, key) PROVE page.entries[i][1] = key
    BY <2>3 DEF HasKeyAt
  <2>4. QED
    BY <2>2, <2>3
<1>4. OnlySlot(page, slot, key)
  BY <1>3 DEF OnlySlot
<1>5. QED
  BY <1>2, <1>4

\* Nothing is stored without a tree.
LEMMA NoRootNoEntries ==
  ASSUME Sound, root_page_id = INVALID_PAGE_ID
  PROVE  Entries = {}
BY DEF Sound, Entries

\* GetValue finds what is stored under a key.
LEMMA SoundLookup ==
  ASSUME Sound, task = Idle, NEW key \in Key
  PROVE  GetValue(key) = {e[2] : e \in {d \in Entries : d[1] = key}}
<1>1. CASE root_page_id = INVALID_PAGE_ID
  <2>1. GetValue(key) = {}
    BY <1>1 DEF GetValue
  <2>2. Entries = {}
    BY <1>1, NoRootNoEntries
  <2>3. QED
    BY <2>1, <2>2
<1>2. CASE root_page_id # INVALID_PAGE_ID
  <2>1. task.doing = "nothing" /\ next_page \in Nat /\ key \in Int
    BY TaskIs, SizeAssumption DEF Sound
  <2>2. PICK H, at : AtRest(pages, root_page_id, next_page, task, H, at)
    BY <1>2, <2>1, StandingBy
  <2>3. PICK p, page : p = at[0][key] /\ page = pages[p]
    OBVIOUS
  <2>4. LeafFor(key) = p /\ p \in DOMAIN pages /\ LeafFits(page, Held(at[0], p))
    BY <2>1, <2>2, <2>3, LeafOf
  <2>5. PICK slot : slot = EntrySlot(page, key)
    OBVIOUS
  <2>6. GetValue(key) = IF HasKeyAt(page, slot, key) THEN {page.entries[slot][2]} ELSE {}
    BY <1>2, <2>3, <2>4, <2>5 DEF GetValue
  <2>7. slot \in 1 .. Len(page.entries) + 1 /\ OnlySlot(page, slot, key)
    BY <2>1, <2>4, <2>5, LeafSlots
  <2>8. ASSUME NEW e \in Entries, e[1] = key PROVE HasKeyAt(page, slot, key) /\ e = page.entries[slot]
    <3>1. Shape(pages, root_page_id, H, at, at)
      BY <2>2 DEF AtRest
    <3>2. PICK q, i : EntryIn(at, e, q, i)
      BY <3>1, EntryPlace
    <3>3. q = p
      BY <2>3, <2>8, <3>2 DEF EntryIn
    <3>4. i \in 1 .. Len(page.entries) /\ e = page.entries[i]
      BY <2>3, <3>2, <3>3 DEF EntryIn
    <3>5. i = slot /\ HasKeyAt(page, slot, key)
      BY <2>7, <2>8, <3>4 DEF OnlySlot
    <3>6. QED
      BY <3>4, <3>5
  <2>9. ASSUME HasKeyAt(page, slot, key) PROVE page.entries[slot] \in Entries /\ page.entries[slot][1] = key
    <3>1. slot \in 1 .. Len(page.entries)
      <4>1. slot <= Len(page.entries) /\ page.entries \in Seq(Key \X Value)
        BY <2>4, <2>9 DEF HasKeyAt, LeafFits
      <4>2. QED
        BY <2>7, <4>1
    <3>2. QED
      BY <2>3, <2>4, <2>9, <3>1, EntryOfLeaf DEF HasKeyAt
  <2>10. CASE HasKeyAt(page, slot, key)
    <3>1. {d \in Entries : d[1] = key} = {page.entries[slot]}
      BY <2>8, <2>9, <2>10
    <3>2. QED
      BY <2>6, <2>10, <3>1
  <2>11. CASE ~HasKeyAt(page, slot, key)
    <3>1. {d \in Entries : d[1] = key} = {}
      BY <2>8, <2>11
    <3>2. QED
      BY <2>6, <2>11, <3>1
  <2>12. QED
    BY <2>10, <2>11
<1>3. QED
  BY <1>1, <1>2

\* So lookups find what is stored.
LEMMA SoundLookups == Sound => LookupsFind
BY SoundLookup DEF LookupsFind

\* A lookup finds what is stored for its key and nothing else.
THEOREM LookupsAreExact == Spec => []LookupsFind
<1>1. Init => Sound
  BY SoundInit
<1>2. Sound /\ [Next]_vars => Sound'
  BY SoundNext
<1>3. Sound => LookupsFind
  BY SoundLookups
<1>4. QED
  BY <1>1, <1>2, <1>3, PTL DEF Spec

-----------------------------------------------------------------------------
\* Scans.

\* A place in a leaf p that has key m: from key low on, which is m or the key
\* after it.
From(at, p, m, low) ==
  /\ m \in Int /\ low \in Int /\ m <= low /\ low <= m + 1 /\ at[0][m] = p

\* Slot is the first one of page from key low on.
FirstSlot(page, slot, low) ==
  /\ slot \in 1 .. Len(page.entries) /\ page.entries[slot][1] >= low
  /\ \A i \in 1 .. Len(page.entries) : i < slot => page.entries[i][1] < low
NoSlot(page, low) == \A i \in 1 .. Len(page.entries) : page.entries[i][1] < low

\* The leaf that a key leads to has an entry at least.
LEMMA RestFacts ==
  ASSUME Sound, NEW H, NEW at, AtRest(pages, root_page_id, next_page, task, H, at), NEW k \in Int,
         NEW p, p = at[0][k]
  PROVE  /\ p \in DOMAIN pages /\ LeafFits(pages[p], Held(at[0], p)) /\ p # INVALID_PAGE_ID
         /\ Len(pages[p].entries) \in 1 .. leaf_max_size - 1
<1>1. next_page \in Nat
  BY DEF Sound
<1>2. p \in DOMAIN pages /\ LeafFits(pages[p], Held(at[0], p))
  BY <1>1, LeafOf
<1>3. p # INVALID_PAGE_ID
  BY <1>2 DEF Sound, INVALID_PAGE_ID
<1>4. SizeFits(pages[p], p, root_page_id, INVALID_PAGE_ID)
  BY <1>2 DEF AtRest, SizesFit
<1>5. pages[p].leaf = TRUE
  BY <1>2 DEF LeafFits
<1>6. PICK n : n = Len(pages[p].entries)
  OBVIOUS
<1>7. n \in Nat /\ n < leaf_max_size /\ (n >= leaf_min_size \/ n >= 1)
  BY <1>3, <1>4, <1>5, <1>6 DEF SizeFits, GetSize, Room, Half
<1>8. leaf_min_size \in Nat /\ leaf_min_size >= 1 /\ leaf_max_size \in Nat
  BY SizeAssumption DEF leaf_min_size
<1>9. n \in 1 .. leaf_max_size - 1
  BY <1>7, <1>8
<1>10. QED
  BY <1>2, <1>3, <1>6, <1>9

\* Leaves stand for intervals and are chained in order.
LEMMA RestConvex ==
  ASSUME NEW H, NEW at, AtRest(pages, root_page_id, next_page, task, H, at)
  PROVE  RowConvex(at[0]) /\ Chained(pages, at[0]) /\ Shape(pages, root_page_id, H, at, at)
<1>1. Shape(pages, root_page_id, H, at, at)
  BY DEF AtRest
<1>2. H \in Nat /\ 0 \in 0 .. H
  BY <1>1 DEF Shape, Rows
<1>3. RowConvex(at[0])
  BY <1>1, <1>2, RowsConvex
<1>4. QED
  BY <1>1, <1>3 DEF Shape

\* The first slot of a leaf from low on is the first of all.
LEMMA FirstInLeaf ==
  ASSUME Sound, NEW H, NEW at, AtRest(pages, root_page_id, next_page, task, H, at),
         NEW p, NEW m, NEW low, From(at, p, m, low), NEW slot, FirstSlot(pages[p], slot, low)
  PROVE  IsFirstFrom(<<p, slot>>, low)
<1>1. m \in Int /\ low \in Int /\ m <= low /\ at[0][m] = p
  BY DEF From
<1>2. /\ p \in DOMAIN pages /\ LeafFits(pages[p], Held(at[0], p))
      /\ Len(pages[p].entries) \in 1 .. leaf_max_size - 1
  BY <1>1, RestFacts
<1>3. PICK page, row : page = pages[p] /\ row = at[0]
  OBVIOUS
<1>4. /\ page.leaf = TRUE /\ page.entries \in Seq(Key \X Value)
      /\ \A i, j \in 1 .. Len(page.entries) : i < j => page.entries[i][1] < page.entries[j][1]
      /\ \A i \in 1 .. Len(page.entries) : page.entries[i][1] \in Held(row, p)
  BY <1>2, <1>3 DEF LeafFits
<1>5. /\ slot \in 1 .. Len(page.entries) /\ page.entries[slot][1] >= low
      /\ \A i \in 1 .. Len(page.entries) : i < slot => page.entries[i][1] < low
  BY <1>3 DEF FirstSlot
<1>6. PICK t : t = page.entries[slot][1]
  OBVIOUS
<1>7. t \in Int /\ row[t] = p /\ t >= low
  BY <1>4, <1>5, <1>6 DEF Held
<1>8. page.entries[slot] \in Entries
  BY <1>2, <1>3, <1>5, EntryOfLeaf
<1>9. <<p, slot>> \in Places
  <2>1. slot \in 1 .. leaf_max_size
    BY <1>2, <1>3, <1>5, SizeAssumption
  <2>2. DOMAIN page.entries = 1 .. Len(page.entries)
    BY <1>4
  <2>3. QED
    BY <1>2, <1>3, <1>4, <1>5, <2>1, <2>2 DEF Places
<1>10. EntryAt(<<p, slot>>) = page.entries[slot]
  BY <1>3 DEF EntryAt
<1>11. ASSUME NEW e \in Entries, e[1] >= low PROVE t <= e[1]
  <2>1. Shape(pages, root_page_id, H, at, at) /\ RowConvex(row)
    BY <1>3, RestConvex
  <2>2. PICK q, i : EntryIn(at, e, q, i)
    BY <2>1, EntryPlace
  <2>3. e[1] \in Int /\ row[e[1]] = q /\ i \in 1 .. Len(pages[q].entries) /\ e = pages[q].entries[i]
    BY <1>3, <2>2 DEF EntryIn
  <2>4. CASE q = p
    <3>1. i \in 1 .. Len(page.entries) /\ e[1] = page.entries[i][1]
      BY <1>3, <2>3, <2>4
    <3>2. ~(i < slot)
      BY <1>1, <1>5, <1>11, <2>3, <3>1
    <3>3. i = slot \/ slot < i
      BY <1>5, <3>1, <3>2
    <3>4. t = e[1] \/ t < e[1]
      BY <1>4, <1>5, <1>6, <3>1, <3>3
    <3>5. QED
      BY <1>7, <2>3, <3>4
  <2>5. CASE q # p
    <3> SUFFICES ASSUME e[1] < t PROVE FALSE
      BY <1>7, <2>3
    <3>1. m # e[1]
      BY <1>1, <1>3, <2>3, <2>5
    <3>2. m < e[1]
      BY <1>1, <1>11, <2>3, <3>1
    <3>3. row[m] = row[t]
      BY <1>1, <1>3, <1>7
    <3>4. row[e[1]] = row[m]
      BY <1>1, <1>7, <2>1, <2>3, <3>2, <3>3 DEF RowConvex
    <3>5. QED
      BY <1>1, <1>3, <2>3, <2>5, <3>4
  <2>6. QED
    BY <2>4, <2>5
<1>12. \E e \in Entries : e[1] >= low
  BY <1>6, <1>7, <1>8
<1>13. QED
  BY <1>6, <1>7, <1>9, <1>10, <1>11, <1>12 DEF IsFirstFrom

\* Beyond its last key the row of leaf p goes on with another one, or never.
LEMMA RowGoesOn ==
  ASSUME NEW row, NEW p, NEW m \in Int, row[m] = p, \A k \in Int : row[k] = p => row[k + 1] = p
  PROVE  \A k \in Int : m <= k => row[k] = p
<1> SUFFICES ASSUME NEW k \in Int, m <= k, row[k] # p PROVE FALSE
  OBVIOUS
<1>1. PICK S : S = {n \in Nat : row[m + n] # p}
  OBVIOUS
<1>2. k - m \in Nat /\ m + (k - m) = k
  OBVIOUS
<1>3. k - m \in S
  BY <1>1, <1>2
<1>4. PICK n \in S : \A i \in S : n <= i
  <2>1. S \subseteq Nat /\ S # {}
    BY <1>1, <1>3
  <2>2. QED
    BY <2>1, LeastNumber
<1>5. n \in Nat /\ row[m + n] # p
  BY <1>1, <1>4
<1>6. n # 0
  BY <1>5
<1>7. PICK i \in Nat : n = i + 1
  <2>1. n - 1 \in Nat /\ n = (n - 1) + 1
    BY <1>5, <1>6
  <2>2. QED
    BY <2>1
<1>8. i \notin S
  BY <1>4, <1>7
<1>9. row[m + i] = p
  BY <1>1, <1>8
<1>10. m + i \in Int /\ (m + i) + 1 = m + n
  BY <1>7
<1>11. QED
  BY <1>5, <1>9, <1>10

\* Where a leaf has no slot from low on, the next leaf begins with the first.
LEMMA FirstInNext ==
  ASSUME Sound, NEW H, NEW at, AtRest(pages, root_page_id, next_page, task, H, at),
         NEW p, NEW m, NEW low, From(at, p, m, low), NoSlot(pages[p], low)
  PROVE  IsFirstFrom(<<pages[p].next_page_id, 1>>, low)
<1>1. m \in Int /\ low \in Int /\ m <= low /\ low <= m + 1 /\ at[0][m] = p
  BY DEF From
<1>2. PICK page, row : page = pages[p] /\ row = at[0]
  OBVIOUS
<1>3. RowConvex(row) /\ Chained(pages, row) /\ Shape(pages, root_page_id, H, at, at)
  BY <1>2, RestConvex
<1>4. ASSUME NEW e, NEW q, NEW i, EntryIn(at, e, q, i), e[1] >= low
      PROVE  q # p /\ e[1] \in Int /\ row[e[1]] = q /\ m < e[1]
  <2>1. /\ e[1] \in Int /\ row[e[1]] = q
        /\ i \in 1 .. Len(pages[q].entries) /\ e = pages[q].entries[i]
    BY <1>2, <1>4 DEF EntryIn
  <2>2. q # p
    <3> SUFFICES ASSUME q = p PROVE FALSE
      OBVIOUS
    <3>1. e[1] < low
      BY <2>1 DEF NoSlot
    <3>2. QED
      BY <1>1, <1>4, <2>1, <3>1
  <2>3. m # e[1]
    BY <1>1, <1>2, <2>1, <2>2
  <2>4. m < e[1]
    BY <1>1, <1>4, <2>1, <2>3
  <2>5. QED
    BY <2>1, <2>2, <2>4
<1>5. CASE page.next_page_id = INVALID_PAGE_ID
  <2>1. \A k \in Int : row[k] = p => row[k + 1] = p
    <3> SUFFICES ASSUME NEW k \in Int, row[k] = p, row[k + 1] # p PROVE FALSE
      OBVIOUS
    <3>1. pages[row[k]].next_page_id = row[k + 1]
      BY <1>3 DEF Chained
    <3>2. PICK next, j : j = k + 1 /\ next = at[0][j]
      OBVIOUS
    <3>3. j \in Int
      BY <3>2
    <3>4. next # INVALID_PAGE_ID
      BY <3>2, <3>3, RestFacts
    <3>5. QED
      BY <1>2, <1>5, <3>1, <3>2, <3>4
  <2>2. row[m] = p
    BY <1>1, <1>2
  <2>3. \A k \in Int : m <= k => row[k] = p
    BY <1>1, <2>1, <2>2, RowGoesOn
  <2>4. ~ \E e \in Entries : e[1] >= low
    <3> SUFFICES ASSUME NEW e \in Entries, e[1] >= low PROVE FALSE
      OBVIOUS
    <3>1. PICK q, i : EntryIn(at, e, q, i)
      BY <1>3, EntryPlace
    <3>2. q # p /\ e[1] \in Int /\ row[e[1]] = q /\ m < e[1]
      BY <1>4, <3>1
    <3>3. m <= e[1]
      BY <1>1, <3>2
    <3>4. QED
      BY <2>3, <3>2, <3>3
  <2>5. QED
    BY <1>2, <1>5, <2>4 DEF IsFirstFrom, End
<1>6. CASE page.next_page_id # INVALID_PAGE_ID
  <2>1. PICK j \in Int : row[j] = p /\ row[j + 1] # p
    <3>1. pages[row[m]].next_page_id # INVALID_PAGE_ID
      BY <1>1, <1>2, <1>6
    <3>2. PICK j \in Int : row[j] = row[m] /\ row[j + 1] # row[m]
      BY <1>1, <1>3, <3>1 DEF Chained
    <3>3. QED
      BY <1>1, <1>2, <3>2
  <2>2. PICK r, s : s = j + 1 /\ r = row[s]
    OBVIOUS
  <2>3. s \in Int /\ j < s /\ r # p
    BY <2>1, <2>2
  <2>4. page.next_page_id = r
    <3>1. row[j] # row[j + 1]
      BY <2>1
    <3>2. pages[row[j]].next_page_id = row[j + 1]
      BY <1>3, <3>1 DEF Chained
    <3>3. QED
      BY <1>2, <2>1, <2>2, <3>2
  <2>5. m < s
    <3> SUFFICES ASSUME s <= m PROVE FALSE
      BY <1>1, <2>3
    <3>1. s # m
      BY <1>1, <1>2, <2>2, <2>3
    <3>2. s < m
      BY <1>1, <2>3, <3>1
    <3>3. row[s] = row[j]
      BY <1>1, <1>2, <1>3, <2>1, <2>3, <3>2 DEF RowConvex
    <3>4. QED
      BY <2>1, <2>2, <2>3, <3>3
  <2>6. \A k \in Int : m < k /\ row[k] # p => s <= k
    <3> SUFFICES ASSUME NEW k \in Int, m < k, row[k] # p, k < s PROVE FALSE
      BY <2>3
    <3>1. k # j /\ k <= j
      BY <2>1, <2>2
    <3>2. k < j
      BY <3>1
    <3>3. row[k] = row[m]
      BY <1>1, <1>2, <1>3, <2>1, <3>2 DEF RowConvex
    <3>4. QED
      BY <1>1, <1>2, <3>3
  <2>7. /\ r \in DOMAIN pages /\ LeafFits(pages[r], Held(at[0], r))
        /\ Len(pages[r].entries) \in 1 .. leaf_max_size - 1
    <3>1. r = at[0][s]
      BY <1>2, <2>2
    <3>2. QED
      BY <2>3, <3>1, RestFacts
  <2>8. PICK entries, t : entries = pages[r].entries /\ t = entries[1][1]
    OBVIOUS
  <2>9. 1 \in 1 .. Len(entries) /\ entries \in Seq(Key \X Value)
    BY <2>7, <2>8, SizeAssumption DEF LeafFits
  <2>10. t \in Int /\ row[t] = r
    <3>1. entries[1][1] \in Held(at[0], r)
      BY <2>7, <2>8, <2>9 DEF LeafFits
    <3>2. QED
      BY <1>2, <2>8, <3>1 DEF Held
  <2>11. m < t
    <3> SUFFICES ASSUME t <= m PROVE FALSE
      BY <1>1, <2>10
    <3>1. t # m
      BY <1>1, <1>2, <2>3, <2>10
    <3>2. t < m /\ m < s
      BY <1>1, <2>5, <2>10, <3>1
    <3>3. row[m] = row[t]
      BY <1>1, <1>3, <2>2, <2>3, <2>10, <3>2 DEF RowConvex
    <3>4. QED
      BY <1>1, <1>2, <2>3, <2>10, <3>3
  <2>12. s <= t
    BY <2>3, <2>6, <2>10, <2>11
  <2>13. t >= low
    BY <1>1, <2>5, <2>3, <2>10, <2>12
  <2>14. entries[1] \in Entries
    BY <2>7, <2>8, <2>9, EntryOfLeaf
  <2>15. <<r, 1>> \in Places
    <3>1. 1 \in 1 .. leaf_max_size
      BY SizeAssumption
    <3>2. DOMAIN entries = 1 .. Len(entries)
      BY <2>9
    <3>3. pages[r].leaf = TRUE
      BY <2>7 DEF LeafFits
    <3>4. QED
      BY <2>7, <2>8, <2>9, <3>1, <3>2, <3>3 DEF Places
  <2>16. EntryAt(<<r, 1>>) = entries[1]
    BY <2>8 DEF EntryAt
  <2>17. ASSUME NEW e \in Entries, e[1] >= low PROVE t <= e[1]
    <3>1. PICK q, i : EntryIn(at, e, q, i)
      BY <1>3, EntryPlace
    <3>2. q # p /\ e[1] \in Int /\ row[e[1]] = q /\ m < e[1]
      BY <1>4, <2>17, <3>1
    <3>3. s <= e[1]
      BY <2>6, <3>2
    <3>4. CASE q = r
      <4>1. i \in 1 .. Len(entries) /\ e = entries[i]
        BY <2>8, <3>1, <3>4 DEF EntryIn
      <4>2. i = 1 \/ 1 < i
        BY <2>9, <4>1
      <4>3. 1 < i => entries[1][1] < entries[i][1]
        BY <2>7, <2>8, <2>9, <4>1 DEF LeafFits
      <4>4. t = e[1] \/ t < e[1]
        BY <2>8, <4>1, <4>2, <4>3
      <4>5. QED
        BY <2>10, <3>2, <4>4
    <3>5. CASE q # r
      <4> SUFFICES ASSUME e[1] < t PROVE FALSE
        BY <2>10, <3>2
      <4>1. s # e[1]
        BY <2>2, <3>2, <3>5
      <4>2. s < e[1]
        BY <2>3, <3>2, <3>3, <4>1
      <4>3. row[e[1]] = row[s]
        BY <1>3, <2>2, <2>3, <2>10, <3>2, <4>2 DEF RowConvex
      <4>4. QED
        BY <2>2, <3>2, <3>5, <4>3
    <3>6. QED
      BY <3>4, <3>5
  <2>18. \E e \in Entries : e[1] >= low
    BY <2>8, <2>13, <2>14
  <2>19. QED
    BY <1>2, <2>4, <2>8, <2>13, <2>15, <2>16, <2>17, <2>18 DEF IsFirstFrom
<1>7. QED
  BY <1>5, <1>6

\* Where a scan begins.
LEMMA BeginInOrder ==
  ASSUME Sound, NEW H, NEW at, AtRest(pages, root_page_id, next_page, task, H, at),
         root_page_id # INVALID_PAGE_ID, NEW key \in Key
  PROVE  IsFirstFrom(KeyBegin(key), key)
<1>1. next_page \in Nat /\ key \in Int
  BY SizeAssumption DEF Sound
<1>2. PICK p, page : p = at[0][key] /\ page = pages[p]
  OBVIOUS
<1>3. LeafFor(key) = p /\ LeafFits(page, Held(at[0], p))
  BY <1>1, <1>2, LeafOf
<1>4. PICK slot : slot = EntrySlot(page, key)
  OBVIOUS
<1>5. KeyBegin(key) = IF slot > Len(page.entries) THEN Advance(<<p, slot>>) ELSE <<p, slot>>
  BY <1>2, <1>3, <1>4 DEF KeyBegin
<1>6. /\ slot \in 1 .. Len(page.entries) + 1
      /\ \A i \in 1 .. Len(page.entries) : page.entries[i][1] < key <=> i < slot
  BY <1>1, <1>3, <1>4, LeafSlots
<1>7. page.entries \in Seq(Key \X Value)
  BY <1>3 DEF LeafFits
<1>8. PICK n \in Nat : n = Len(page.entries)
  BY <1>7
<1>9. slot \in 1 .. n + 1 /\ \A i \in 1 .. n : page.entries[i][1] < key <=> i < slot
  BY <1>6, <1>8
<1>10. From(at, p, key, key)
  BY <1>1, <1>2 DEF From
<1>11. CASE slot <= n
  <2>1. slot \in 1 .. n
    BY <1>8, <1>9, <1>11
  <2>2. page.entries[slot][1] \in Int
    BY <1>7, <1>8, <2>1, EntryFacts
  <2>3. ~(page.entries[slot][1] < key)
    BY <1>9, <2>1
  <2>4. page.entries[slot][1] >= key
    BY <1>1, <2>2, <2>3
  <2>5. FirstSlot(pages[p], slot, key)
    BY <1>2, <1>8, <1>9, <2>1, <2>4 DEF FirstSlot
  <2>6. IsFirstFrom(<<p, slot>>, key)
    BY <1>10, <2>5, FirstInLeaf
  <2>7. KeyBegin(key) = <<p, slot>>
    BY <1>5, <1>8, <1>9, <1>11
  <2>8. QED
    BY <2>6, <2>7
<1>12. CASE ~(slot <= n)
  <2>1. slot = n + 1
    BY <1>8, <1>9, <1>12
  <2>2. NoSlot(pages[p], key)
    BY <1>2, <1>8, <1>9, <2>1 DEF NoSlot
  <2>3. IsFirstFrom(<<pages[p].next_page_id, 1>>, key)
    BY <1>10, <2>2, FirstInNext
  <2>4. Advance(<<p, slot>>) = <<pages[p].next_page_id, 1>>
    <3>1. ~(slot + 1 <= n)
      BY <2>1
    <3>2. ~(slot + 1 <= Len(page.entries))
      BY <1>8, <3>1
    <3>3. PICK from : from = <<p, slot>>
      OBVIOUS
    <3>4. from[1] = p /\ from[2] = slot
      BY <3>3
    <3>5. Advance(from) = <<page.next_page_id, 1>>
      BY <1>2, <3>2, <3>4 DEF Advance
    <3>6. QED
      BY <1>2, <3>3, <3>5
  <2>5. KeyBegin(key) = Advance(<<p, slot>>)
    BY <1>5, <1>8, <2>1
  <2>6. QED
    BY <2>3, <2>4, <2>5
<1>13. QED
  BY <1>11, <1>12

\* Where a scan goes on.
LEMMA AdvanceInOrder ==
  ASSUME Sound, NEW H, NEW at, AtRest(pages, root_page_id, next_page, task, H, at),
         NEW from, from \in Places
  PROVE  IsFirstFrom(Advance(from), EntryAt(from)[1] + 1)
<1>1. PICK p, page, slot : p = from[1] /\ page = pages[p] /\ slot = from[2]
  OBVIOUS
<1>2. p \in DOMAIN pages /\ page.leaf /\ slot \in DOMAIN page.entries /\ slot \in Int
  BY <1>1 DEF Places
<1>3. PICK e : e = page.entries[slot]
  OBVIOUS
<1>4. EntryAt(from) = e
  BY <1>1, <1>3 DEF EntryAt
<1>5. Shape(pages, root_page_id, H, at, at)
  BY DEF AtRest
<1>6. PICK l \in 0 .. H, k \in Int :
           /\ at[l][k] = p
           /\ l = 0 => pages[p].leaf = TRUE /\ LeafFits(pages[p], Held(at[0], p))
           /\ \A i \in Nat : l = i + 1 => pages[p].leaf = FALSE /\ InnerFits(pages[p], Held(at[l], p), at[i])
  BY <1>2, <1>5, LevelOf
<1>7. l = 0
  <2>1. H \in Nat
    BY <1>5 DEF Shape, Rows
  <2>2. l = 0 \/ (l - 1 \in Nat /\ l = (l - 1) + 1)
    BY <2>1
  <2>3. QED
    BY <1>1, <1>2, <1>6, <2>2
<1>8. LeafFits(page, Held(at[0], p))
  BY <1>1, <1>6, <1>7
<1>9. page.entries \in Seq(Key \X Value) /\ page.entries[slot][1] \in Held(at[0], p)
      /\ \A i, j \in 1 .. Len(page.entries) : i < j => page.entries[i][1] < page.entries[j][1]
  BY <1>2, <1>8 DEF LeafFits
<1>10. PICK n \in Nat : n = Len(page.entries)
  BY <1>9
<1>11. slot \in 1 .. n /\ \A i \in 1 .. n : page.entries[i][1] \in Int
  BY <1>2, <1>9, <1>10, EntryFacts
<1>12. PICK m, low : m = e[1] /\ low = m + 1
  OBVIOUS
<1>13. m \in Int /\ low \in Int /\ at[0][m] = p
  BY <1>3, <1>9, <1>11, <1>12 DEF Held
<1>14. From(at, p, m, low)
  BY <1>12, <1>13 DEF From
<1>15. \A i \in 1 .. n : i <= slot => page.entries[i][1] < low
  <2> SUFFICES ASSUME NEW i \in 1 .. n, i <= slot PROVE page.entries[i][1] < low
    OBVIOUS
  <2>1. CASE i = slot
    BY <1>3, <1>12, <1>13, <2>1
  <2>2. CASE i < slot
    <3>1. page.entries[i][1] < m
      BY <1>3, <1>9, <1>10, <1>11, <1>12, <2>2
    <3>2. page.entries[i][1] \in Int
      BY <1>11
    <3>3. QED
      BY <1>12, <1>13, <3>1, <3>2
  <2>3. QED
    BY <1>11, <2>1, <2>2
<1>16. Advance(from) = IF slot + 1 <= n THEN <<p, slot + 1>> ELSE <<page.next_page_id, 1>>
  BY <1>1, <1>10 DEF Advance
<1>17. PICK next : next = slot + 1
  OBVIOUS
<1>18. CASE next <= n
  <2>1. next \in 1 .. n /\ slot < next
    BY <1>11, <1>17, <1>18
  <2>2. m < page.entries[next][1]
    BY <1>3, <1>9, <1>10, <1>11, <1>12, <2>1
  <2>3. page.entries[next][1] \in Int
    BY <1>11, <2>1
  <2>4. page.entries[next][1] >= low
    BY <1>12, <1>13, <2>2, <2>3
  <2>5. \A i \in 1 .. n : i < next => page.entries[i][1] < low
    BY <1>11, <1>15, <1>17
  <2>6. FirstSlot(pages[p], next, low)
    BY <1>1, <1>10, <2>1, <2>4, <2>5 DEF FirstSlot
  <2>7. IsFirstFrom(<<p, next>>, low)
    BY <1>14, <2>6, FirstInLeaf
  <2>8. QED
    BY <1>4, <1>12, <1>16, <1>17, <1>18, <2>7
<1>19. CASE ~(next <= n)
  <2>1. \A i \in 1 .. n : i <= slot
    BY <1>11, <1>17, <1>19
  <2>2. NoSlot(pages[p], low)
    BY <1>1, <1>10, <1>15, <2>1 DEF NoSlot
  <2>3. IsFirstFrom(<<pages[p].next_page_id, 1>>, low)
    BY <1>14, <2>2, FirstInNext
  <2>4. QED
    BY <1>1, <1>4, <1>12, <1>16, <1>17, <1>19, <2>3
<1>20. QED
  BY <1>18, <1>19

\* KeyBegin and Advance lead to the entries in order.
LEMMA SoundScans ==
  ASSUME Sound, task = Idle
  PROVE  /\ \A key \in Key : IsFirstFrom(KeyBegin(key), key)
         /\ \A at \in Places : IsFirstFrom(Advance(at), EntryAt(at)[1] + 1)
<1>1. task.doing = "nothing"
  BY TaskIs
<1>2. CASE root_page_id = INVALID_PAGE_ID
  <2>1. Entries = {}
    BY <1>2, NoRootNoEntries
  <2>2. Places = {}
    BY <1>2 DEF Places, Sound
  <2>3. \A key : KeyBegin(key) = End
    BY <1>2 DEF KeyBegin
  <2>4. QED
    BY <2>1, <2>2, <2>3 DEF IsFirstFrom
<1>3. CASE root_page_id # INVALID_PAGE_ID
  <2>1. PICK H, at : AtRest(pages, root_page_id, next_page, task, H, at)
    BY <1>1, <1>3, StandingBy
  <2>2. \A key \in Key : IsFirstFrom(KeyBegin(key), key)
    BY <1>3, <2>1, BeginInOrder
  <2>3. \A from \in Places : IsFirstFrom(Advance(from), EntryAt(from)[1] + 1)
    BY <2>1, AdvanceInOrder
  <2>4. QED
    BY <2>2, <2>3
<1>4. QED
  BY <1>2, <1>3

\* So scans are in order.
LEMMA ScansSound == Sound => ScansInOrder
BY SoundScans DEF ScansInOrder

\* A scan from any key on meets every entry from there on, once and in order,
\* however often leaves were split, evened out and merged.
THEOREM ScansAreOrdered == Spec => []ScansInOrder
<1>1. Init => Sound
  BY SoundInit
<1>2. Sound /\ [Next]_vars => Sound'
  BY SoundNext
<1>3. Sound => ScansInOrder
  BY ScansSound
<1>4. QED
  BY <1>1, <1>2, <1>3, PTL DEF Spec

-----------------------------------------------------------------------------
\* The tree as a map.

\* The index that a set of entries is.
IndexOf(entries) ==
  [key \in {e[1] : e \in entries} |-> CHOOSE v \in Value : <<key, v>> \in entries]

OnePerKey(entries) ==
  /\ entries \subseteq Key \X Value
  /\ \A e, d \in entries : e[1] = d[1] => e = d

\* It is a function.
LEMMA IndexIsMap ==
  ASSUME NEW entries, NEW f, f = IndexOf(entries)
  PROVE  f = [k \in DOMAIN f |-> f[k]]
<1>1. PICK D : D = {e[1] : e \in entries}
  OBVIOUS
<1>2. f = [key \in D |-> CHOOSE v \in Value : <<key, v>> \in entries]
  BY <1>1, Zenon DEF IndexOf
<1>3. DOMAIN f = D
  BY <1>2, Zenon
<1>4. f \in [D -> {f[k] : k \in D}]
  BY <1>2, <1>3
<1>5. QED
  BY <1>3, <1>4

\* An index has the values of its entries.
LEMMA ValueOfEntry ==
  ASSUME NEW entries, OnePerKey(entries), NEW e \in entries
  PROVE  IndexOf(entries)[e[1]] = e[2]
<1>1. PICK key, value : key = e[1] /\ value = e[2]
  OBVIOUS
<1>2. e = <<key, value>> /\ value \in Value
  BY <1>1 DEF OnePerKey
<1>3. \A v \in Value : <<key, v>> \in entries => v = value
  <2> SUFFICES ASSUME NEW v \in Value, <<key, v>> \in entries PROVE v = value
    OBVIOUS
  <2>1. <<key, v>>[1] = e[1]
    BY <1>1
  <2>2. <<key, v>> = e
    BY <2>1 DEF OnePerKey
  <2>3. <<key, v>>[2] = e[2]
    BY <2>2
  <2>4. QED
    BY <1>1, <2>3
<1>4. <<key, value>> \in entries
  BY <1>2
<1>5. (CHOOSE v \in Value : <<key, v>> \in entries) = value
  BY <1>2, <1>3, <1>4
<1>6. QED
  BY <1>1, <1>5 DEF IndexOf

\* Insert adds an entry to a map.
LEMMA IndexAdds ==
  ASSUME NEW entries, OnePerKey(entries), NEW key \in Key, NEW value \in Value,
         \A e \in entries : e[1] # key, NEW more, more = entries \cup {<<key, value>>}
  PROVE  IndexOf(more) = IndexInsert(IndexOf(entries), key, value)
<1>1. PICK new : new = <<key, value>>
  OBVIOUS
<1>2. new \in Key \X Value /\ new[1] = key /\ new[2] = value
  BY <1>1
<1>3. more = entries \cup {new}
  BY <1>1
<1>4. OnePerKey(more)
  BY <1>2, <1>3 DEF OnePerKey
<1>5. PICK old : old = IndexOf(entries)
  OBVIOUS
<1>6. DOMAIN old = {e[1] : e \in entries} /\ key \notin DOMAIN old
  BY <1>5 DEF IndexOf
<1>7. DOMAIN IndexOf(more) = DOMAIN old \cup {key}
  BY <1>2, <1>3, <1>6 DEF IndexOf
<1>8. IndexOf(more)[key] = value
  BY <1>2, <1>3, <1>4, ValueOfEntry
<1>9. \A k \in DOMAIN old : IndexOf(more)[k] = old[k]
  <2> SUFFICES ASSUME NEW k \in DOMAIN old PROVE IndexOf(more)[k] = old[k]
    OBVIOUS
  <2>1. PICK e \in entries : k = e[1]
    BY <1>6
  <2>2. old[e[1]] = e[2]
    BY <1>5, ValueOfEntry
  <2>3. IndexOf(more)[e[1]] = e[2]
    BY <1>3, <1>4, ValueOfEntry
  <2>4. QED
    BY <2>1, <2>2, <2>3
<1>10. PICK f : f = IndexOf(more)
  OBVIOUS
<1>11. f = [k \in DOMAIN f |-> f[k]]
  BY <1>10, IndexIsMap
<1>12. IndexInsert(old, key, value) = [k \in DOMAIN old \cup {key} |-> IF k = key THEN value ELSE old[k]]
  BY <1>6 DEF IndexInsert
<1>13. f = [k \in DOMAIN old \cup {key} |-> IF k = key THEN value ELSE old[k]]
  BY <1>6, <1>7, <1>8, <1>9, <1>10, <1>11
<1>14. QED
  BY <1>5, <1>10, <1>12, <1>13

\* Remove takes one away.
LEMMA IndexDrops ==
  ASSUME NEW entries, OnePerKey(entries), NEW key \in Key, NEW less, less = {e \in entries : e[1] # key}
  PROVE  IndexOf(less) = IndexRemove(IndexOf(entries), key)
<1>1. OnePerKey(less)
  BY DEF OnePerKey
<1>2. PICK old, f : old = IndexOf(entries) /\ f = IndexOf(less)
  OBVIOUS
<1>3. DOMAIN old = {e[1] : e \in entries} /\ DOMAIN f = {e[1] : e \in less}
  BY <1>2 DEF IndexOf
<1>4. DOMAIN f = DOMAIN old \ {key}
  BY <1>3
<1>5. \A k \in DOMAIN f : f[k] = old[k]
  <2> SUFFICES ASSUME NEW k \in DOMAIN f PROVE f[k] = old[k]
    OBVIOUS
  <2>1. PICK e \in less : k = e[1]
    BY <1>3
  <2>2. f[e[1]] = e[2]
    BY <1>1, <1>2, ValueOfEntry
  <2>3. old[e[1]] = e[2]
    BY <1>2, ValueOfEntry
  <2>4. QED
    BY <2>1, <2>2, <2>3
<1>6. f = [k \in DOMAIN f |-> f[k]]
  BY <1>2, IndexIsMap
<1>7. f = [k \in DOMAIN old \ {key} |-> old[k]]
  BY <1>4, <1>5, <1>6
<1>8. QED
  BY <1>2, <1>7 DEF IndexRemove

\* The entries of a tree have different keys.
LEMMA SoundEntries ==
  ASSUME Sound
  PROVE  OnePerKey(Entries)
<1>1. CASE root_page_id = INVALID_PAGE_ID
  BY <1>1, NoRootNoEntries DEF OnePerKey
<1>2. CASE root_page_id # INVALID_PAGE_ID
  <2>1. PICK H, at, see, low, child : Located(H, at, see, low, child)
    BY <1>2, WhereItStands
  <2>2. Shape(pages, root_page_id, H, at, see)
    BY <2>1 DEF Located, Waiting
  <2>3. ASSUME NEW e \in Entries PROVE e \in Key \X Value
    BY <2>2, EntryPlace DEF EntryIn
  <2>4. ASSUME NEW e \in Entries, NEW d \in Entries, e[1] = d[1] PROVE e = d
    <3>1. PICK p, i : EntryIn(at, e, p, i)
      BY <2>2, EntryPlace
    <3>2. PICK q, j : EntryIn(at, d, q, j)
      BY <2>2, EntryPlace
    <3>3. p = q
      BY <2>4, <3>1, <3>2 DEF EntryIn
    <3>4. PICK l \in 0 .. H, k \in Int :
           /\ at[l][k] = p
           /\ l = 0 => pages[p].leaf = TRUE /\ LeafFits(pages[p], Held(at[0], p))
           /\ \A m \in Nat : l = m + 1 => pages[p].leaf = FALSE /\ InnerFits(pages[p], Held(at[l], p), see[m])
      <4>1. p \in DOMAIN pages
        BY <3>1 DEF EntryIn
      <4>2. QED
        BY <2>2, <4>1, LevelOf
    <3>5. l = 0
      <4>1. H \in Nat /\ pages[p].leaf = TRUE
        BY <2>2, <3>1 DEF Shape, Rows, EntryIn
      <4>2. l = 0 \/ (l - 1 \in Nat /\ l = (l - 1) + 1)
        BY <4>1
      <4>3. QED
        BY <3>4, <4>1, <4>2
    <3>6. PICK entries : entries = pages[p].entries
      OBVIOUS
    <3>7. \A m, n \in 1 .. Len(entries) : m < n => entries[m][1] < entries[n][1]
      BY <3>4, <3>5, <3>6 DEF LeafFits
    <3>8. /\ i \in 1 .. Len(entries) /\ e = entries[i] /\ e[1] \in Int
          /\ j \in 1 .. Len(entries) /\ d = entries[j]
      BY <3>1, <3>2, <3>3, <3>6 DEF EntryIn
    <3>9. ~(i < j) /\ ~(j < i)
      BY <2>4, <3>7, <3>8
    <3>10. i = j
      BY <3>8, <3>9
    <3>11. QED
      BY <3>8, <3>10
  <2>5. QED
    BY <2>3, <2>4 DEF OnePerKey
<1>3. QED
  BY <1>1, <1>2

\* What one page adds to the entries.
Contents(page) == IF page.leaf THEN ToSet(page.entries) ELSE {}
EntriesOf(pg) == UNION {Contents(pg[p]) : p \in DOMAIN pg}

\* What is stored is what the pages hold, in both states.
LEMMA EntriesAre ==
  Entries = EntriesOf(pages) /\ Entries' = EntriesOf(pages')
BY DEF Entries, EntriesOf, Contents

\* What a step that rewrites the pages of some does to the entries.
SameBut(pg2, pg, some) ==
  /\ DOMAIN pg2 \ some = DOMAIN pg \ some
  /\ \A p \in DOMAIN pg \ some : pg2[p] = pg[p]
PartOf(pg, some) == UNION {Contents(pg[p]) : p \in DOMAIN pg \cap some}

\* What a step leaves alone holds what it held.
LEMMA EntriesSplit ==
  ASSUME NEW pg, NEW pg2, NEW some, SameBut(pg2, pg, some)
  PROVE  \E rest : /\ EntriesOf(pg) = rest \cup PartOf(pg, some)
                   /\ EntriesOf(pg2) = rest \cup PartOf(pg2, some)
                   /\ \A e \in rest : \E p \in DOMAIN pg \ some : e \in Contents(pg[p])
<1>1. PICK rest : rest = UNION {Contents(pg[p]) : p \in DOMAIN pg \ some}
  OBVIOUS
<1>2. EntriesOf(pg) = rest \cup PartOf(pg, some)
  BY <1>1 DEF EntriesOf, PartOf
<1>3. rest = UNION {Contents(pg2[p]) : p \in DOMAIN pg2 \ some}
  BY <1>1 DEF SameBut
<1>4. EntriesOf(pg2) = rest \cup PartOf(pg2, some)
  BY <1>3 DEF EntriesOf, PartOf
<1>5. \A e \in rest : \E p \in DOMAIN pg \ some : e \in Contents(pg[p])
  BY <1>1
<1>6. QED
  BY <1>2, <1>4, <1>5

\* If the pages that a step writes hold what they held, nothing is lost ...
LEMMA EntriesKept ==
  ASSUME NEW pg, NEW pg2, NEW some, SameBut(pg2, pg, some), PartOf(pg2, some) = PartOf(pg, some)
  PROVE  EntriesOf(pg2) = EntriesOf(pg)
<1>1. PICK rest : EntriesOf(pg) = rest \cup PartOf(pg, some) /\ EntriesOf(pg2) = rest \cup PartOf(pg2, some)
  BY EntriesSplit
<1>2. QED
  BY <1>1

\* ... and if they hold an entry more, it is the only one.
LEMMA EntriesGrown ==
  ASSUME NEW pg, NEW pg2, NEW some, SameBut(pg2, pg, some), NEW e,
         PartOf(pg2, some) = PartOf(pg, some) \cup {e}
  PROVE  EntriesOf(pg2) = EntriesOf(pg) \cup {e}
<1>1. PICK rest : EntriesOf(pg) = rest \cup PartOf(pg, some) /\ EntriesOf(pg2) = rest \cup PartOf(pg2, some)
  BY EntriesSplit
<1>2. QED
  BY <1>1

\* What some pages hold, if one of them is there, ...
LEMMA PartOfOne ==
  ASSUME NEW pg, NEW p, p \in DOMAIN pg, NEW some, p \in some, \A x \in some : x \in DOMAIN pg => x = p
  PROVE  PartOf(pg, some) = Contents(pg[p])
<1>1. DOMAIN pg \cap some = {p}
  OBVIOUS
<1>2. QED
  BY <1>1 DEF PartOf

\* ... if two are there, ...
LEMMA PartOfTwo ==
  ASSUME NEW pg, NEW p, p \in DOMAIN pg, NEW q, q \in DOMAIN pg, NEW some, p \in some, q \in some,
         \A x \in some : x \in DOMAIN pg => x = p \/ x = q \/ Contents(pg[x]) = {}
  PROVE  PartOf(pg, some) = Contents(pg[p]) \cup Contents(pg[q])
<1>1. PartOf(pg, some) \subseteq Contents(pg[p]) \cup Contents(pg[q])
  BY DEF PartOf
<1>2. Contents(pg[p]) \cup Contents(pg[q]) \subseteq PartOf(pg, some)
  BY DEF PartOf
<1>3. QED
  BY <1>1, <1>2

\* ... if only one of them has entries ...
OnlyOne(pg, some, p) == \A x \in some : x \in DOMAIN pg => x = p \/ Contents(pg[x]) = {}

LEMMA PartOfAtMost ==
  ASSUME NEW pg, NEW p, p \in DOMAIN pg, NEW some, p \in some, OnlyOne(pg, some, p)
  PROVE  PartOf(pg, some) = Contents(pg[p])
<1>1. PartOf(pg, some) \subseteq Contents(pg[p])
  BY DEF PartOf, OnlyOne
<1>2. Contents(pg[p]) \subseteq PartOf(pg, some)
  BY DEF PartOf
<1>3. QED
  BY <1>1, <1>2

\* ... and if none is.
LEMMA PartOfNone ==
  ASSUME NEW pg, NEW some, \A x \in some : x \in DOMAIN pg => Contents(pg[x]) = {}
  PROVE  PartOf(pg, some) = {}
BY DEF PartOf

\* What Write leaves alone.
LEMMA WriteSameBut ==
  ASSUME NEW new, NEW gone, Write(new, gone), NEW some, DOMAIN new \subseteq some, gone \subseteq some
  PROVE  SameBut(pages', pages, some)
<1>1. DOMAIN pages' = (DOMAIN pages \cup DOMAIN new) \ gone
  BY WriteFacts
<1>2. \A p \in DOMAIN pages' : p \notin DOMAIN new => pages'[p] = pages[p]
  BY WriteFacts
<1>3. \A p \in DOMAIN pages \ some : pages'[p] = pages[p]
  BY <1>1, <1>2
<1>4. DOMAIN pages' \ some = DOMAIN pages \ some
  BY <1>1
<1>5. QED
  BY <1>3, <1>4 DEF SameBut

\* Page p gives way to two halves.
LEMMA SplitOffPages ==
  ASSUME Sound, NEW p, p \in DOMAIN pages, NEW halves, SplitOff(p, halves), NEW c, c = next_page
  PROVE  /\ c \notin DOMAIN pages /\ p # c
         /\ p \in DOMAIN pages' /\ c \in DOMAIN pages'
         /\ pages'[p] = halves[1] /\ pages'[c] = halves[2]
         /\ SameBut(pages', pages, {p, c})
<1>1. c \notin DOMAIN pages /\ p # c
  BY DEF Sound
<1>2. PICK new : new = [q \in {p, c} |-> IF q = p THEN halves[1] ELSE halves[2]]
  OBVIOUS
<1>3. Write(new, {})
  BY <1>2 DEF SplitOff
<1>4. DOMAIN new = {p, c} /\ new[p] = halves[1] /\ new[c] = halves[2]
  BY <1>1, <1>2
<1>5. /\ DOMAIN pages' = DOMAIN pages \cup DOMAIN new
      /\ \A x \in DOMAIN pages' : x \in DOMAIN new => pages'[x] = new[x]
  <2>1. DOMAIN pages' = (DOMAIN pages \cup DOMAIN new) \ {}
    BY <1>3, WriteFacts
  <2>2. \A x \in DOMAIN pages' : x \in DOMAIN new => pages'[x] = new[x]
    BY <1>3, WriteFacts
  <2>3. QED
    BY <2>1, <2>2
<1>6. SameBut(pages', pages, {p, c})
  BY <1>3, <1>4, WriteSameBut
<1>7. QED
  BY <1>1, <1>4, <1>5, <1>6

\* One page is rewritten.
LEMMA WriteOnePage ==
  ASSUME NEW p, NEW page, Write([q \in {p} |-> page], {})
  PROVE  p \in DOMAIN pages' /\ pages'[p] = page /\ SameBut(pages', pages, {p})
<1>1. PICK new : new = [q \in {p} |-> page]
  OBVIOUS
<1>2. Write(new, {}) /\ DOMAIN new = {p} /\ new[p] = page
  BY <1>1
<1>3. /\ DOMAIN pages' = DOMAIN pages \cup DOMAIN new
      /\ \A x \in DOMAIN pages' : x \in DOMAIN new => pages'[x] = new[x]
  <2>1. DOMAIN pages' = (DOMAIN pages \cup DOMAIN new) \ {}
    BY <1>2, WriteFacts
  <2>2. \A x \in DOMAIN pages' : x \in DOMAIN new => pages'[x] = new[x]
    BY <1>2, WriteFacts
  <2>3. QED
    BY <2>1, <2>2
<1>4. SameBut(pages', pages, {p})
  BY <1>2, WriteSameBut
<1>5. QED
  BY <1>2, <1>3, <1>4

\* InsertFirst stores its entry and nothing else.
LEMMA FirstEntry ==
  ASSUME Sound, NEW key \in Key, NEW value \in Value, InsertFirst(key, value)
  PROVE  Entries = {} /\ Entries' = {<<key, value>>}
<1>1. PICK c, page : c = next_page /\ page = Leaf(<<<<key, value>>>>, INVALID_PAGE_ID)
  OBVIOUS
<1>2. root_page_id = INVALID_PAGE_ID /\ Write([p \in {c} |-> page], {})
  BY <1>1 DEF InsertFirst
<1>3. DOMAIN pages = {} /\ Entries = {}
  BY <1>2, NoRootNoEntries DEF Sound
<1>4. c \in DOMAIN pages' /\ pages'[c] = page /\ SameBut(pages', pages, {c})
  BY <1>2, WriteOnePage
<1>5. DOMAIN pages' = {c}
  BY <1>3, <1>4 DEF SameBut
<1>6. EntriesOf(pages') = Contents(page)
  BY <1>4, <1>5 DEF EntriesOf
<1>7. Contents(page) = {<<key, value>>}
  <2>1. ToSet(<<<<key, value>>>>) = {<<key, value>>}
    BY DEF ToSet
  <2>2. QED
    BY <1>1, <2>1 DEF Contents, Leaf
<1>8. QED
  BY <1>3, <1>6, <1>7, EntriesAre

\* What Insert does to the entries.
Grows(key, value) ==
  \/ answer' = "exists" /\ Entries' = Entries /\ \E e \in Entries : e[1] = key
  \/ /\ answer' = "inserted" /\ Entries' = Entries \cup {<<key, value>>}
     /\ \A e \in Entries : e[1] # key

\* Insert adds its entry unless the key is stored.
LEMMA InsertGrows ==
  ASSUME Sound, NEW key \in Key, NEW value \in Value, Insert(key, value)
  PROVE  Grows(key, value)
<1>1. task = Idle /\ root_page_id # INVALID_PAGE_ID
  BY DEF Insert
<1>2. task.doing = "nothing" /\ next_page \in Nat /\ key \in Int
  BY <1>1, TaskIs, SizeAssumption DEF Sound
<1>3. PICK H, at : AtRest(pages, root_page_id, next_page, task, H, at)
  BY <1>1, <1>2, StandingBy
<1>4. PICK p, page, path, slot :
        p = at[0][key] /\ page = pages[p] /\ path = FindPath(key) /\ slot = EntrySlot(page, key)
  OBVIOUS
<1>5. Last(path) = p /\ p \in DOMAIN pages /\ LeafFits(page, Held(at[0], p))
  BY <1>2, <1>3, <1>4, LeafOf
<1>6. IF HasKeyAt(page, slot, key)
      THEN answer' = "exists" /\ UNCHANGED pages
      ELSE answer' = "inserted" /\ InsertInLeaf(path, slot, key, value)
  BY <1>4, <1>5 DEF Insert
<1>7. slot \in 1 .. Len(page.entries) + 1 /\ OnlySlot(page, slot, key)
  BY <1>2, <1>4, <1>5, LeafSlots
<1>8. page.leaf = TRUE /\ page.entries \in Seq(Key \X Value)
  BY <1>5 DEF LeafFits
<1>9. CASE HasKeyAt(page, slot, key)
  <2>1. slot \in 1 .. Len(page.entries)
    BY <1>7, <1>8, <1>9 DEF HasKeyAt
  <2>2. page.entries[slot] \in Entries /\ page.entries[slot][1] = key
    BY <1>4, <1>5, <1>9, <2>1, EntryOfLeaf DEF HasKeyAt
  <2>3. Entries' = Entries
    BY <1>6, <1>9, EntriesAre
  <2>4. QED
    BY <1>6, <1>9, <2>2, <2>3 DEF Grows
<1>10. CASE ~HasKeyAt(page, slot, key)
  <2>1. PICK e : e = <<key, value>>
    OBVIOUS
  <2>2. PICK entries, next, c : entries = InsertAt(page.entries, slot, e) /\ next = page.next_page_id /\ c = next_page
    OBVIOUS
  <2>3. e \in Key \X Value
    BY <2>1
  <2>4. entries \in Seq(Key \X Value) /\ Inserted(entries, page.entries, slot, e)
    BY <1>7, <1>8, <2>2, <2>3, InsertedOne
  <2>5. ToSet(entries) = ToSet(page.entries) \cup {e}
    BY <1>7, <1>8, <2>4, InsertedSet
  <2>6. PICK halves : halves = LeafHalves(entries, next, c)
    OBVIOUS
  <2>7. IF LeafOverflows(Len(entries)) THEN SplitOff(p, halves) ELSE Write([q \in {p} |-> Leaf(entries, next)], {})
    BY <1>4, <1>5, <1>6, <1>10, <2>1, <2>2, <2>6 DEF InsertInLeaf
  <2>8. Contents(page) = ToSet(page.entries)
    BY <1>8 DEF Contents
  <2>9. EntriesOf(pages') = EntriesOf(pages) \cup {e}
    <3>1. CASE LeafOverflows(Len(entries))
      <4>1. /\ c \notin DOMAIN pages /\ p # c
            /\ p \in DOMAIN pages' /\ c \in DOMAIN pages'
            /\ pages'[p] = halves[1] /\ pages'[c] = halves[2]
            /\ SameBut(pages', pages, {p, c})
        BY <1>5, <2>2, <2>7, <3>1, SplitOffPages
      <4>2. PICK left : left = LargerHalf(Len(entries))
        OBVIOUS
      <4>3. left \in 0 .. Len(entries)
        <5>1. PICK n \in Nat : n = Len(entries)
          BY <2>4
        <5>2. n - n \div 2 \in 0 .. n
          BY <5>1
        <5>3. QED
          BY <4>2, <5>1, <5>2 DEF LargerHalf
      <4>4. halves = CutLeaf(entries, left, c, next)
        BY <2>6, <4>2 DEF LeafHalves
      <4>5. LeafCut(halves[1], halves[2], Leaf(entries, next), left)
        BY <2>4, <4>3, <4>4, CutLeafIs
      <4>6. ToSet(entries) = ToSet(halves[1].entries) \cup ToSet(halves[2].entries)
        <5>1. PICK whole : whole = Leaf(entries, next)
          OBVIOUS
        <5>2. whole.entries = entries
          BY <5>1 DEF Leaf
        <5>3. QED
          BY <4>5, <5>1, <5>2, CutSet
      <4>7. Contents(halves[1]) = ToSet(halves[1].entries) /\ Contents(halves[2]) = ToSet(halves[2].entries)
        BY <4>5 DEF LeafCut, Contents
      <4>8. PartOf(pages, {p, c}) = Contents(page)
        BY <1>4, <1>5, <4>1, PartOfOne
      <4>9. PartOf(pages', {p, c}) = Contents(halves[1]) \cup Contents(halves[2])
        <5>1. PICK pg2 : pg2 = pages'
          OBVIOUS
        <5>2. PartOf(pg2, {p, c}) = Contents(pg2[p]) \cup Contents(pg2[c])
          BY <4>1, <5>1, PartOfTwo
        <5>3. QED
          BY <4>1, <5>1, <5>2
      <4>10. PartOf(pages', {p, c}) = PartOf(pages, {p, c}) \cup {e}
        BY <2>5, <2>8, <4>6, <4>7, <4>8, <4>9
      <4>11. QED
        BY <4>1, <4>10, EntriesGrown
    <3>2. CASE ~LeafOverflows(Len(entries))
      <4>1. PICK new : new = Leaf(entries, next)
        OBVIOUS
      <4>2. p \in DOMAIN pages' /\ pages'[p] = new /\ SameBut(pages', pages, {p})
        BY <2>7, <3>2, <4>1, WriteOnePage
      <4>3. Contents(new) = ToSet(entries)
        BY <4>1 DEF Contents, Leaf
      <4>4. PartOf(pages, {p}) = Contents(page)
        BY <1>4, <1>5, PartOfOne
      <4>5. PartOf(pages', {p}) = Contents(new)
        BY <4>2, PartOfOne
      <4>6. PartOf(pages', {p}) = PartOf(pages, {p}) \cup {e}
        BY <2>5, <2>8, <4>3, <4>4, <4>5
      <4>7. QED
        BY <4>2, <4>6, EntriesGrown
    <3>3. QED
      BY <3>1, <3>2
  <2>10. Entries' = Entries \cup {<<key, value>>}
    BY <2>1, <2>9, EntriesAre
  <2>11. \A d \in Entries : d[1] # key
    <3> SUFFICES ASSUME NEW d \in Entries, d[1] = key PROVE FALSE
      OBVIOUS
    <3>1. Shape(pages, root_page_id, H, at, at)
      BY <1>3 DEF AtRest
    <3>2. PICK q, i : EntryIn(at, d, q, i)
      BY <3>1, EntryPlace
    <3>3. q = p /\ i \in 1 .. Len(page.entries) /\ d = page.entries[i]
      BY <1>4, <3>2 DEF EntryIn
    <3>4. QED
      BY <1>7, <1>10, <3>3 DEF OnlySlot
  <2>12. QED
    BY <1>6, <1>10, <2>10, <2>11 DEF Grows
<1>11. QED
  BY <1>9, <1>10

\* What Remove does to the entries.
LEMMA RemoveShrinks ==
  ASSUME Sound, NEW key \in Key, RemoveKey(key)
  PROVE  Entries' = {e \in Entries : e[1] # key}
<1>1. task = Idle
  BY DEF RemoveKey
<1>2. task.doing = "nothing" /\ next_page \in Nat /\ key \in Int
  BY <1>1, TaskIs, SizeAssumption DEF Sound
<1>3. CASE GetValue(key) = {}
  <2>1. Entries' = Entries
    BY <1>3, EntriesAre DEF RemoveKey
  <2>2. {e[2] : e \in {d \in Entries : d[1] = key}} = {}
    BY <1>1, <1>3, SoundLookup
  <2>3. QED
    BY <2>1, <2>2
<1>4. CASE GetValue(key) # {}
  <2>1. root_page_id # INVALID_PAGE_ID
    BY <1>4 DEF GetValue
  <2>2. PICK H, at : AtRest(pages, root_page_id, next_page, task, H, at)
    BY <1>2, <2>1, StandingBy
  <2>3. PICK p, page, path, slot :
          p = at[0][key] /\ page = pages[p] /\ path = FindPath(key) /\ slot = EntrySlot(page, key)
    OBVIOUS
  <2>4. Last(path) = p /\ p \in DOMAIN pages /\ LeafFits(page, Held(at[0], p))
    BY <1>2, <2>2, <2>3, LeafOf
  <2>5. RemoveFromLeaf(path, slot, key)
    BY <1>4, <2>3, <2>4 DEF RemoveKey
  <2>6. slot \in 1 .. Len(page.entries) + 1 /\ OnlySlot(page, slot, key)
    BY <1>2, <2>3, <2>4, LeafSlots
  <2>7. page.leaf = TRUE /\ page.entries \in Seq(Key \X Value)
    BY <2>4 DEF LeafFits
  <2>8. HasKeyAt(page, slot, key)
    BY <1>2, <1>4, <2>2, <2>3, FoundKey
  <2>9. slot \in 1 .. Len(page.entries) /\ page.entries[slot][1] = key
    BY <2>6, <2>7, <2>8 DEF HasKeyAt
  <2>10. PICK entries, new : entries = RemoveAt(page.entries, slot) /\ new = Leaf(entries, page.next_page_id)
    OBVIOUS
  <2>11. entries \in Seq(Key \X Value) /\ Removed(entries, page.entries, slot)
    BY <2>7, <2>9, <2>10, RemovedOne
  <2>12. ToSet(entries) = ToSet(page.entries) \ {page.entries[slot]}
    BY <2>4, <2>9, <2>11, RemovedSet
  <2>13. /\ new.leaf = TRUE /\ new.entries = entries
         /\ Contents(page) = ToSet(page.entries) /\ Contents(new) = ToSet(entries)
    BY <2>7, <2>10 DEF Contents, Leaf
  <2>14. PICK e : e = page.entries[slot]
    OBVIOUS
  <2>15. e \in Entries /\ e[1] = key
    BY <2>3, <2>4, <2>9, <2>14, EntryOfLeaf
  <2>16. {d \in Entries : d[1] # key} = Entries \ {e}
    BY <2>15, SoundEntries DEF OnePerKey
  <2>17. SameBut(pages', pages, {p}) /\ PartOf(pages', {p}) = Contents(new)
    <3>1. CASE Len(path) = 1 /\ GetSize(new) = 0
      <4>1. Write([q \in {} |-> {}], {p})
        BY <2>3, <2>4, <2>5, <2>10, <3>1 DEF RemoveFromLeaf
      <4>2. PICK none : none = [q \in {} |-> {}]
        OBVIOUS
      <4>3. Write(none, {p}) /\ DOMAIN none = {}
        BY <4>1, <4>2
      <4>4. SameBut(pages', pages, {p})
        BY <4>3, WriteSameBut
      <4>5. p \notin DOMAIN pages'
        <5>1. DOMAIN pages' = (DOMAIN pages \cup DOMAIN none) \ {p}
          BY <4>3, WriteFacts
        <5>2. QED
          BY <5>1
      <4>6. PartOf(pages', {p}) = {}
        BY <4>5, PartOfNone
      <4>7. Contents(new) = {}
        <5>1. Len(entries) = 0
          BY <2>13, <3>1 DEF GetSize
        <5>2. ToSet(entries) = {}
          BY <2>11, <5>1 DEF ToSet
        <5>3. QED
          BY <2>13, <5>2
      <4>8. QED
        BY <4>4, <4>6, <4>7
    <3>2. CASE ~(Len(path) = 1 /\ GetSize(new) = 0)
      <4>1. Write([q \in {p} |-> new], {})
        BY <2>3, <2>4, <2>5, <2>10, <3>2 DEF RemoveFromLeaf
      <4>2. p \in DOMAIN pages' /\ pages'[p] = new /\ SameBut(pages', pages, {p})
        BY <4>1, WriteOnePage
      <4>3. PartOf(pages', {p}) = Contents(new)
        BY <4>2, PartOfOne
      <4>4. QED
        BY <4>2, <4>3
    <3>3. QED
      BY <3>1, <3>2
  <2>18. PartOf(pages, {p}) = Contents(page)
    BY <2>3, <2>4, PartOfOne
  <2>19. PICK rest : /\ EntriesOf(pages) = rest \cup PartOf(pages, {p})
                     /\ EntriesOf(pages') = rest \cup PartOf(pages', {p})
                     /\ \A d \in rest : \E x \in DOMAIN pages \ {p} : d \in Contents(pages[x])
    <3>1. PICK pg2 : pg2 = pages'
      OBVIOUS
    <3>2. SameBut(pg2, pages, {p})
      BY <2>17, <3>1
    <3>3. \E rest : /\ EntriesOf(pages) = rest \cup PartOf(pages, {p})
                    /\ EntriesOf(pg2) = rest \cup PartOf(pg2, {p})
                    /\ \A d \in rest : \E x \in DOMAIN pages \ {p} : d \in Contents(pages[x])
      BY <3>2, EntriesSplit
    <3>4. QED
      BY <3>1, <3>3
  <2>20. e \notin rest
    <3> SUFFICES ASSUME e \in rest PROVE FALSE
      OBVIOUS
    <3>1. PICK x \in DOMAIN pages \ {p} : e \in Contents(pages[x])
      BY <2>19
    <3>2. Shape(pages, root_page_id, H, at, at)
      BY <2>2 DEF AtRest
    <3>3. PICK l \in 0 .. H, k \in Int :
           /\ at[l][k] = x
           /\ l = 0 => pages[x].leaf = TRUE /\ LeafFits(pages[x], Held(at[0], x))
           /\ \A i \in Nat : l = i + 1 => pages[x].leaf = FALSE /\ InnerFits(pages[x], Held(at[l], x), at[i])
      BY <3>2, LevelOf
    <3>4. l = 0
      <4>1. H \in Nat /\ pages[x].leaf
        BY <3>1, <3>2 DEF Shape, Rows, Contents
      <4>2. l = 0 \/ (l - 1 \in Nat /\ l = (l - 1) + 1)
        BY <4>1
      <4>3. QED
        BY <3>3, <4>1, <4>2
    <3>5. LeafFits(pages[x], Held(at[0], x))
      BY <3>3, <3>4
    <3>6. PICK stored : stored = pages[x].entries
      OBVIOUS
    <3>7. stored \in Seq(Key \X Value) /\ e \in ToSet(stored)
      BY <3>1, <3>5, <3>6 DEF Contents, LeafFits
    <3>8. PICK i \in 1 .. Len(stored) : e = stored[i]
      BY <3>7 DEF ToSet
    <3>9. e[1] \in Held(at[0], x)
      BY <3>5, <3>6, <3>8 DEF LeafFits
    <3>10. at[0][key] = x
      BY <2>15, <3>9 DEF Held
    <3>11. QED
      BY <2>3, <3>10
  <2>21. EntriesOf(pages') = EntriesOf(pages) \ {e}
    BY <2>12, <2>13, <2>14, <2>17, <2>18, <2>19, <2>20
  <2>22. QED
    BY <2>16, <2>21, EntriesAre
<1>5. QED
  BY <1>3, <1>4

\* The other steps of a command move entries about.
LEMMA AddChildMoves ==
  ASSUME Sound, AddChild
  PROVE  Entries' = Entries
<1>1. task.doing = "split" /\ task.path # <<>>
  BY DEF AddChild
<1>2. root_page_id # INVALID_PAGE_ID
  BY <1>1, StandingBy
<1>3. PICK H, at, see, L, p0, key, sep, child :
        InSplit(pages, root_page_id, next_page, task, H, at, see, L, p0, key, sep, child)
  BY <1>1, StandingBy
<1>4. /\ Shape(pages, root_page_id, H, at, see) /\ L \in 0 .. H /\ key \in Int
      /\ task.path = Way(at, H, L, key)
  BY <1>3, TaskIs, SizeAssumption DEF InSplit
<1>5. H \in Nat
  BY <1>4 DEF Shape, Rows
<1>6. L < H
  <2> SUFFICES ASSUME L = H PROVE FALSE
    BY <1>4, <1>5
  <2>1. task.path = <<>>
    BY <1>4, <1>5, WayEnds
  <2>2. QED
    BY <1>1, <2>1
<1>7. PICK q, way : q = at[L + 1][key] /\ way = task.path
  OBVIOUS
<1>8. Above(pages, H, at, see, L, key, q) /\ WayIs(way, at, H, L, key, q)
  BY <1>4, <1>6, <1>7, PageAbove
<1>9. q \in DOMAIN pages /\ pages[q].leaf = FALSE /\ Last(task.path) = q
  BY <1>7, <1>8 DEF Above, WayIs
<1>10. PICK slot, keys, children, halves :
         /\ slot = ChildSlot(pages[q], task.key)
         /\ keys = InsertAt(pages[q].keys, slot, task.sep)
         /\ children = InsertAt(pages[q].children, slot + 1, task.child)
         /\ halves = InternalHalves(keys, children)
  OBVIOUS
<1>11. IF InternalOverflows(Len(children)) THEN SplitOff(q, halves)
       ELSE Write([x \in {q} |-> Internal(keys, children)], {})
  BY <1>9, <1>10 DEF AddChild
<1>12. Contents(pages[q]) = {}
  BY <1>9 DEF Contents
<1>13. CASE InternalOverflows(Len(children))
  <2>1. PICK c : c = next_page
    OBVIOUS
  <2>2. /\ c \notin DOMAIN pages
        /\ pages'[q] = halves[1] /\ pages'[c] = halves[2]
        /\ SameBut(pages', pages, {q, c})
    BY <1>9, <1>11, <1>13, <2>1, SplitOffPages
  <2>3. Contents(halves[1]) = {} /\ Contents(halves[2]) = {}
    BY <1>10 DEF InternalHalves, CutInternal, Internal, Contents
  <2>4. PartOf(pages, {q, c}) = {}
    BY <1>12, <2>2, PartOfNone
  <2>5. PartOf(pages', {q, c}) = {}
    BY <2>2, <2>3, PartOfNone
  <2>6. EntriesOf(pages') = EntriesOf(pages)
    BY <2>2, <2>4, <2>5, EntriesKept
  <2>7. QED
    BY <2>6, EntriesAre
<1>14. CASE ~InternalOverflows(Len(children))
  <2>1. PICK new : new = Internal(keys, children)
    OBVIOUS
  <2>2. pages'[q] = new /\ SameBut(pages', pages, {q})
    BY <1>11, <1>14, <2>1, WriteOnePage
  <2>3. Contents(new) = {}
    BY <2>1 DEF Internal, Contents
  <2>4. PartOf(pages, {q}) = {}
    BY <1>12, PartOfNone
  <2>5. PartOf(pages', {q}) = {}
    BY <2>2, <2>3, PartOfNone
  <2>6. EntriesOf(pages') = EntriesOf(pages)
    BY <2>2, <2>4, <2>5, EntriesKept
  <2>7. QED
    BY <2>6, EntriesAre
<1>15. QED
  BY <1>13, <1>14

\* AddRoot leaves the entries where they are.
LEMMA AddRootMoves ==
  ASSUME Sound, AddRoot
  PROVE  Entries' = Entries
<1>1. PICK c, new : c = next_page /\ new = Internal(<<task.sep>>, <<root_page_id, task.child>>)
  OBVIOUS
<1>2. Write([p \in {c} |-> new], {})
  BY <1>1 DEF AddRoot
<1>3. c \notin DOMAIN pages
  BY <1>1 DEF Sound
<1>4. pages'[c] = new /\ SameBut(pages', pages, {c})
  BY <1>2, WriteOnePage
<1>5. Contents(new) = {}
  BY <1>1 DEF Internal, Contents
<1>6. PartOf(pages, {c}) = {}
  BY <1>3, PartOfNone
<1>7. PartOf(pages', {c}) = {}
  BY <1>4, <1>5, PartOfNone
<1>8. EntriesOf(pages') = EntriesOf(pages)
  BY <1>4, <1>6, <1>7, EntriesKept
<1>9. QED
  BY <1>8, EntriesAre

\* The pages that Mend rewrites, and what they hold.
LEMMA MendKeeps ==
  ASSUME NEW pg2, NEW l, l \in DOMAIN pages, NEW r, r \in DOMAIN pages, NEW q, q \in DOMAIN pages,
         Contents(pages[q]) = {}, SameBut(pg2, pages, {l, r, q}),
         PartOf(pg2, {l, r, q}) = Contents(pages[l]) \cup Contents(pages[r])
  PROVE  EntriesOf(pg2) = EntriesOf(pages)
<1>1. PartOf(pages, {l, r, q}) = Contents(pages[l]) \cup Contents(pages[r])
  BY PartOfTwo
<1>2. QED
  BY <1>1, EntriesKept

\* Two leaves hold what the leaf they are cut from held.
LEMMA LeafCutContents ==
  ASSUME NEW a, NEW b, NEW m, NEW left, LeafCut(a, b, m, left)
  PROVE  Contents(m) = Contents(a) \cup Contents(b)
<1>1. ToSet(m.entries) = ToSet(a.entries) \cup ToSet(b.entries)
  BY CutSet
<1>2. a.leaf = TRUE /\ b.leaf = TRUE /\ m.leaf = TRUE
  BY DEF LeafCut
<1>3. QED
  BY <1>1, <1>2 DEF Contents

\* An internal page holds no entries.
LEMMA CutContents ==
  ASSUME NEW a, NEW b, NEW m, NEW left, CutAt(a, b, m, left)
  PROVE  Contents(m) = {} /\ Contents(a) = {} /\ Contents(b) = {}
BY DEF CutAt, Contents

\* What two pages hold is what holds their merge, or what the loan leaves them.
LEMMA PairContents ==
  ASSUME NEW L, NEW a, NEW b, NEW m, NEW r, NEW sep, PairHolds(L, a, b, m, r, sep)
  PROVE  Contents(m) = Contents(a) \cup Contents(b)
<1>1. CASE L = 0
  BY <1>1, LeafCutContents DEF PairHolds
<1>2. CASE L # 0
  BY <1>2, CutContents DEF PairHolds
<1>3. QED
  BY <1>1, <1>2

\* A loan loses no entry.
LEMMA LoanContents ==
  ASSUME NEW L, NEW loan, NEW m, NEW left, NEW r, Loaned(L, loan, m, left, r)
  PROVE  Contents(m) = Contents(loan.left) \cup Contents(loan.right)
<1>1. CASE L = 0
  BY <1>1, LeafCutContents DEF Loaned
<1>2. CASE L # 0
  BY <1>2, CutContents DEF Loaned
<1>3. QED
  BY <1>1, <1>2

\* Pages l and r are the children of q at d and d + 1.
Adjacent(q, d, l, r) == l = pages[q].children[d] /\ r = pages[q].children[d + 1]

\* A merge leaves the entries what they are ...
LEMMA DropMoves ==
  ASSUME NEW l, l \in DOMAIN pages, NEW r, r \in DOMAIN pages, NEW q, q \in DOMAIN pages,
         l # r, l # q, r # q, Contents(pages[q]) = {},
         NEW d, Adjacent(q, d, l, r),
         NEW m, Contents(m) = Contents(pages[l]) \cup Contents(pages[r]), DropChild(q, d, m)
  PROVE  EntriesOf(pages') = EntriesOf(pages)
<1>1. PICK page, new, some : /\ page = Internal(RemoveAt(pages[q].keys, d), RemoveAt(pages[q].children, d + 1))
                             /\ new = [x \in {l, q} |-> IF x = l THEN m ELSE page]
                             /\ some = {l, r, q}
  OBVIOUS
<1>2. PICK gone : gone \in {{r}, {r, q}} /\ Write(new, gone)
  BY <1>1 DEF DropChild, Adjacent
<1>3. DOMAIN new = {l, q} /\ new[l] = m /\ new[q] = page
  BY <1>1
<1>4. SameBut(pages', pages, some)
  BY <1>1, <1>2, <1>3, WriteSameBut
<1>5. Contents(page) = {}
  BY <1>1 DEF Internal, Contents
<1>6. DOMAIN pages' = (DOMAIN pages \cup DOMAIN new) \ gone
  BY <1>2, WriteFacts
<1>7. \A x \in DOMAIN pages' : x \in DOMAIN new => pages'[x] = new[x]
  BY <1>2, WriteFacts
<1>8. l \in DOMAIN pages' /\ r \notin DOMAIN pages' /\ pages'[l] = m
  BY <1>2, <1>3, <1>6, <1>7
<1>9. q \in DOMAIN pages' => pages'[q] = page
  BY <1>3, <1>7
<1>10. PICK pg2 : pg2 = pages'
  OBVIOUS
<1>11. PartOf(pg2, some) = Contents(m)
  <2>1. OnlyOne(pg2, some, l)
    BY <1>1, <1>5, <1>8, <1>9, <1>10 DEF OnlyOne
  <2>2. l \in some /\ l \in DOMAIN pg2 /\ pg2[l] = m
    BY <1>1, <1>8, <1>10
  <2>3. QED
    BY <2>1, <2>2, PartOfAtMost
<1>12. QED
  BY <1>1, <1>4, <1>10, <1>11, MendKeeps

\* ... and so does a loan ...
LEMMA LoanMoves ==
  ASSUME NEW l, l \in DOMAIN pages, NEW r, r \in DOMAIN pages, NEW q, q \in DOMAIN pages,
         l # r, l # q, r # q, Contents(pages[q]) = {},
         NEW d, Adjacent(q, d, l, r),
         NEW loan, Contents(loan.left) \cup Contents(loan.right) = Contents(pages[l]) \cup Contents(pages[r]),
         MoveOver(q, d, loan)
  PROVE  EntriesOf(pages') = EntriesOf(pages)
<1>1. PICK page, new, some :
        /\ page = Internal([pages[q].keys EXCEPT ![d] = loan.sep], pages[q].children)
        /\ new = [x \in {l, r, q} |-> IF x = l THEN loan.left ELSE IF x = r THEN loan.right ELSE page]
        /\ some = {l, r, q}
  OBVIOUS
<1>2. Write(new, {})
  BY <1>1 DEF MoveOver, Adjacent
<1>3. DOMAIN new = some /\ new[l] = loan.left /\ new[r] = loan.right /\ new[q] = page
  BY <1>1
<1>4. SameBut(pages', pages, some)
  BY <1>2, <1>3, WriteSameBut
<1>5. Contents(page) = {}
  BY <1>1 DEF Internal, Contents
<1>6. DOMAIN pages' = (DOMAIN pages \cup DOMAIN new) \ {}
  BY <1>2, WriteFacts
<1>7. \A x \in DOMAIN pages' : x \in DOMAIN new => pages'[x] = new[x]
  BY <1>2, WriteFacts
<1>8. /\ l \in DOMAIN pages' /\ pages'[l] = loan.left
      /\ r \in DOMAIN pages' /\ pages'[r] = loan.right
      /\ pages'[q] = page
  BY <1>1, <1>3, <1>6, <1>7
<1>9. PICK pg2 : pg2 = pages'
  OBVIOUS
<1>10. PartOf(pg2, some) = Contents(loan.left) \cup Contents(loan.right)
  <2>1. \A x \in some : x \in DOMAIN pg2 => x = l \/ x = r \/ Contents(pg2[x]) = {}
    BY <1>1, <1>5, <1>8, <1>9
  <2>2. PartOf(pg2, some) = Contents(pg2[l]) \cup Contents(pg2[r])
    BY <1>1, <1>8, <1>9, <2>1, PartOfTwo
  <2>3. QED
    BY <1>8, <1>9, <2>2
<1>11. QED
  BY <1>1, <1>4, <1>9, <1>10, MendKeeps

\* ... and so Mend.
LEMMA MendMoves ==
  ASSUME Sound, Mend
  PROVE  Entries' = Entries
<1>1. PICK H, at, L, key, q, d, left : AtPlace(H, at, L, key, q, d, left) /\ MendStep(q, d, left)
  BY PlaceOfMend
<1>2. PICK l, r, sep : l = pages[q].children[d] /\ r = pages[q].children[d + 1] /\ sep = pages[q].keys[d]
  OBVIOUS
<1>3. PICK a, b, m : a = pages[l] /\ b = pages[r] /\ m = MergeOf(a, sep, b)
  OBVIOUS
<1>3a. Pair(q, d, l, r, sep, a, b, m)
  BY <1>2, <1>3 DEF Pair
<1>4. PairIs(H, at, L, q, l, r, sep, m)
  BY <1>1, <1>3a, PairFacts
<1>5. PairHolds(L, a, b, m, r, sep)
  BY <1>1, <1>3a, PairFacts
<1>6. PICK na, nb, half, room : PairSizes(a, b, m, left, na, nb, half, room)
  BY <1>1, <1>3a, PairFacts
<1>7. /\ l \in DOMAIN pages /\ r \in DOMAIN pages /\ q \in DOMAIN pages
      /\ l # r /\ l # q /\ r # q /\ sep \in Key
  BY <1>4 DEF PairIs
<1>8. Contents(pages[q]) = {}
  <2>1. PICK way : way = Way(at, H, L, key)
    OBVIOUS
  <2>2. Above(pages, H, at, at, L, key, q)
    <3>1. Shape(pages, root_page_id, H, at, at) /\ L \in 0 .. H /\ L < H /\ key \in Int /\ q = at[L + 1][key]
      BY <1>1, SizeAssumption DEF AtPlace, InMend
    <3>2. QED
      BY <2>1, <3>1, PageAbove
  <2>3. pages[q].leaf = FALSE
    BY <2>2 DEF Above
  <2>4. QED
    BY <2>3 DEF Contents
<1>9. Contents(m) = Contents(a) \cup Contents(b)
  BY <1>5, PairContents
<1>10. /\ a.leaf /\ LeafOverflows(GetSize(a) + GetSize(b)) => MoveOver(q, d, LeafLoan(a, b, left))
       /\ a.leaf /\ ~LeafOverflows(GetSize(a) + GetSize(b)) => DropChild(q, d, MergedLeaf(a, b))
       /\ ~a.leaf /\ InternalOverflows(GetSize(a) + GetSize(b)) => MoveOver(q, d, InternalLoan(a, sep, b, left))
       /\ ~a.leaf /\ ~InternalOverflows(GetSize(a) + GetSize(b)) => DropChild(q, d, MergedInternal(a, sep, b))
  BY <1>1, <1>2, <1>3 DEF MendStep
<1>11. PICK loan : loan = LoanOf(a, sep, b, left)
  OBVIOUS
<1>12. PICK i \in Nat, j \in Nat : i = na /\ j = nb
  BY <1>6 DEF PairSizes
<1>13. /\ i = GetSize(a) /\ j = GetSize(b) /\ GetSize(m) = i + j /\ room = Room(a) /\ room \in Nat
       /\ half \in Nat /\ half >= 1 /\ half + half <= room /\ i < room /\ j < room
       /\ \/ left = i + 1 /\ i + 1 = half /\ j >= half
          \/ left = i - 1 /\ j + 1 = half /\ i >= half
  BY <1>6, <1>12 DEF PairSizes
<1>14. a.leaf = TRUE \/ a.leaf = FALSE
  BY <1>5 DEF PairHolds
<1>15. CASE DropChild(q, d, m)
  <2>1. Adjacent(q, d, l, r) /\ Contents(m) = Contents(pages[l]) \cup Contents(pages[r])
    BY <1>2, <1>3, <1>9 DEF Adjacent
  <2>2. EntriesOf(pages') = EntriesOf(pages)
    BY <1>7, <1>8, <1>15, <2>1, DropMoves
  <2>3. QED
    BY <2>2, EntriesAre
<1>16. CASE MoveOver(q, d, loan) /\ i + j >= room
  <2>1. left \in Nat /\ 1 <= left /\ left < i + j
    BY <1>13, <1>16, LoanNumbers
  <2>2. left < GetSize(m)
    BY <1>13, <2>1
  <2>3. Loaned(L, loan, m, left, r)
    BY <1>3, <1>5, <1>7, <1>11, <2>1, <2>2, LoanIs
  <2>4. /\ Adjacent(q, d, l, r)
        /\ Contents(loan.left) \cup Contents(loan.right) = Contents(pages[l]) \cup Contents(pages[r])
    BY <1>2, <1>3, <1>9, <2>3, LoanContents DEF Adjacent
  <2>5. MoveOver(q, d, loan)
    BY <1>16
  <2>6. EntriesOf(pages') = EntriesOf(pages)
    BY <1>7, <1>8, <2>4, <2>5, LoanMoves
  <2>7. QED
    BY <2>6, EntriesAre
<1>17. DropChild(q, d, m) \/ (MoveOver(q, d, loan) /\ i + j >= room)
  <2>1. CASE a.leaf = TRUE
    BY <1>3, <1>10, <1>11, <1>13, <2>1 DEF LoanOf, MergeOf, Room, LeafOverflows
  <2>2. CASE a.leaf = FALSE
    BY <1>3, <1>10, <1>11, <1>13, <2>2 DEF LoanOf, MergeOf, Room, InternalOverflows
  <2>3. QED
    BY <1>14, <2>1, <2>2
<1>18. QED
  BY <1>15, <1>16, <1>17

\* One step of the tree is one of the map, or none.
LEMMA InitIsIndex == Init => Contract!Init
<1> SUFFICES ASSUME Init PROVE Contract!Init
  OBVIOUS
<1>1. DOMAIN pages = {} /\ answer = "none"
  BY DEF Init
<1>2. Entries = {}
  BY <1>1 DEF Entries
<1>3. {e[1] : e \in Entries} = {}
  BY <1>2
<1>4. [key \in {e[1] : e \in Entries} |-> CHOOSE v \in Value : <<key, v>> \in Entries] = [key \in {} |-> {}]
  BY <1>3
<1>5. QED
  BY <1>1, <1>4 DEF Contract!Init, Contract!EmptyIndex

Stored == IndexOf(Entries)

\* What the steps do to the entries is what IndexContract says: Insert ...
LEMMA ContractInsert ==
  ASSUME NEW key \in Key, NEW value \in Value, Stored' = IndexInsert(Stored, key, value),
         answer' = IF key \in DOMAIN Stored THEN "exists" ELSE "inserted"
  PROVE  Contract!Insert
BY DEF Contract!Insert, Contract!IndexInsert, IndexInsert, Stored, IndexOf

\* ... and Remove.
LEMMA ContractRemove ==
  ASSUME NEW key \in Key, Stored' = IndexRemove(Stored, key), answer' = "none"
  PROVE  Contract!Remove
BY DEF Contract!Remove, Contract!IndexRemove, IndexRemove, Stored, IndexOf

\* Every step is one of IndexContract or changes nothing that its callers see.
LEMMA StepIsIndex ==
  Sound /\ [Next]_vars =>
    [Contract!Insert \/ Contract!Remove \/ Contract!Reopen]_<<
       [key \in {e[1] : e \in Entries} |-> CHOOSE v \in Value : <<key, v>> \in Entries], answer>>
<1> SUFFICES ASSUME Sound, [Next]_vars
             PROVE  [Contract!Insert \/ Contract!Remove \/ Contract!Reopen]_<<
                      [key \in {e[1] : e \in Entries} |-> CHOOSE v \in Value : <<key, v>> \in Entries], answer>>
  OBVIOUS
<1>1. OnePerKey(Entries) /\ DOMAIN Stored = {e[1] : e \in Entries}
  BY SoundEntries DEF Stored, IndexOf
<1>2. ASSUME NEW key \in Key, NEW value \in Value, Grows(key, value) PROVE Contract!Insert
  <2>1. CASE answer' = "exists" /\ Entries' = Entries /\ \E e \in Entries : e[1] = key
    <3>1. key \in DOMAIN Stored /\ Stored' = Stored
      BY <1>1, <2>1 DEF Stored
    <3>2. Stored' = IndexInsert(Stored, key, value)
      BY <3>1 DEF IndexInsert
    <3>3. QED
      BY <2>1, <3>1, <3>2, ContractInsert
  <2>2. CASE /\ answer' = "inserted" /\ Entries' = Entries \cup {<<key, value>>}
             /\ \A e \in Entries : e[1] # key
    <3>1. key \notin DOMAIN Stored
      BY <1>1, <2>2
    <3>2. PICK more : more = Entries'
      OBVIOUS
    <3>3. IndexOf(more) = IndexInsert(IndexOf(Entries), key, value)
      BY <1>1, <2>2, <3>2, IndexAdds
    <3>4. Stored' = IndexInsert(Stored, key, value)
      BY <3>2, <3>3 DEF Stored, IndexOf
    <3>5. QED
      BY <2>2, <3>1, <3>4, ContractInsert
  <2>3. QED
    BY <1>2, <2>1, <2>2 DEF Grows
<1>3. ASSUME NEW key \in Key, NEW value \in Value, InsertFirst(key, value) PROVE Contract!Insert
  <2>1. Entries = {} /\ Entries' = {<<key, value>>} /\ answer' = "inserted"
    BY <1>3, FirstEntry DEF InsertFirst
  <2>2. Grows(key, value)
    BY <2>1 DEF Grows
  <2>3. QED
    BY <1>2, <2>2
<1>4. ASSUME NEW key \in Key, NEW value \in Value, Insert(key, value) PROVE Contract!Insert
  BY <1>2, <1>4, InsertGrows
<1>5. ASSUME NEW key \in Key, RemoveKey(key) PROVE Contract!Remove
  <2>1. Entries' = {e \in Entries : e[1] # key} /\ answer' = "none"
    BY <1>5, RemoveShrinks DEF RemoveKey
  <2>2. PICK less : less = Entries'
    OBVIOUS
  <2>3. IndexOf(less) = IndexRemove(IndexOf(Entries), key)
    BY <1>1, <2>1, <2>2, IndexDrops
  <2>4. Stored' = IndexRemove(Stored, key)
    BY <2>2, <2>3 DEF Stored, IndexOf
  <2>5. QED
    BY <2>1, <2>4, ContractRemove
<1>6. CASE Reopen
  <2>1. Entries' = Entries /\ answer' = "none"
    BY <1>6, EntriesAre DEF Reopen
  <2>2. QED
    BY <2>1 DEF Contract!Reopen
<1>7. CASE AddChild \/ AddRoot \/ Mend \/ UNCHANGED vars
  <2>1. Entries' = Entries
    BY <1>7, AddChildMoves, AddRootMoves, MendMoves, EntriesAre DEF vars
  <2>2. answer' = answer
    BY <1>7 DEF AddChild, AddRoot, Mend, vars
  <2>3. QED
    BY <2>1, <2>2
<1>8. QED
  BY <1>3, <1>4, <1>5, <1>6, <1>7 DEF Next

\* The tree is the map that the code above it counts on: an Insert or a Remove
\* changes what is stored for its key, and nothing else, in its first step.
THEOREM TreeIsAMap == Spec => ImplementsIndex
<1>1. Init => Sound
  BY SoundInit
<1>2. Sound /\ [Next]_vars => Sound'
  BY SoundNext
<1>3. Init => Contract!Init
  BY InitIsIndex
<1>4. QED
  BY <1>1, <1>2, <1>3, StepIsIndex, PTL DEF Spec, ImplementsIndex, Contract!Spec
=============================================================================
