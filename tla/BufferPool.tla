----------------------------- MODULE BufferPool -----------------------------
(***************************************************************************)
(* bpt::BufferPoolManager with its FrameManager and DiskManager            *)
(* (src/include/storage/): a file of pages, a few frames in memory that    *)
(* cache them, and the guards through which the index reads and writes a   *)
(* page while its frame is pinned.                                         *)
(*                                                                         *)
(* The index is a client of Holder slots (Trace, read_guard, sibling and   *)
(* the like), one guard in each.  Frames are counted from 0 and the page   *)
(* table, a hash map in the code (module PageTable), is a function.        *)
(***************************************************************************)
EXTENDS Integers, FiniteSets, Index

CONSTANTS
  CacheSize,  \* frames of the pool
  Holder,     \* the places where the index keeps a guard
  Content,    \* what a page may hold
  Zero,       \* what a new page holds
  Nobody,     \* no guard
  MaxPages,   \* bound on next_page
  MaxTime     \* bound on current_time_stamp at a visit

INVALID_PAGE_ID == -1
Frame == 0 .. CacheSize - 1
PageGuard == [page: Nat, frame: Frame, read: BOOLEAN]
Access == [page: Nat, read: BOOLEAN]

\* A command of the index keeps fewer guards than there are frames: one for
\* each level of a path, one for its header and two for siblings, against 50.
ASSUME PoolAssumption ==
  /\ CacheSize \in Nat \ {0}
  /\ IsFiniteSet(Holder)
  /\ Cardinality(Holder) <= CacheSize
ASSUME ContentAssumption == Zero \in Content
ASSUME NobodyAssumption == Nobody \notin PageGuard /\ Nobody \notin Access
ASSUME BoundAssumption == MaxPages \in Nat /\ MaxTime \in Nat

VARIABLES
  up,                  \* the program is running
  data_file,           \* the pages on disk
  disk_file,           \* next_page as the file of DiskManager keeps it
  next_page,           \* the page that NewPage allocates next
  frame_info,          \* the header of each frame
  current_time_stamp,
  cache,               \* the content of each frame
  page_table,          \* index: page -> frame
  guards,              \* index: holder -> the guard it has
  dropped              \* a write guard just dropped whose pointer is in use

vars == <<up, data_file, disk_file, next_page, frame_info, current_time_stamp,
          cache, page_table, guards, dropped>>

FrameHeader == [page_in: Int, pin_count: Nat, history: Nat, is_dirty: BOOLEAN]

EmptyFrame == [page_in |-> INVALID_PAGE_ID, pin_count |-> 0, history |-> 0,
               is_dirty |-> FALSE]

Init ==
  /\ up = TRUE
  /\ data_file = EmptyIndex
  /\ disk_file = 0
  /\ next_page = 0
  /\ frame_info = [f \in Frame |-> EmptyFrame]
  /\ current_time_stamp = 0
  /\ cache = [f \in Frame |-> Zero]
  /\ page_table = EmptyIndex
  /\ guards = EmptyIndex
  /\ dropped = Nobody

-----------------------------------------------------------------------------
NewPage ==
  /\ up
  /\ next_page < MaxPages
  /\ next_page' = next_page + 1
  /\ data_file' = [p \in DOMAIN data_file \cup {next_page} |->
                     IF p = next_page THEN Zero ELSE data_file[p]]
  /\ UNCHANGED <<up, disk_file, frame_info, current_time_stamp, cache,
                 page_table, guards, dropped>>

Unpinned == {f \in Frame : frame_info[f].pin_count = 0}
Free == {f \in Unpinned : frame_info[f].page_in = INVALID_PAGE_ID}

\* A mistake: pins are not looked at.
IsVictimPinned(f) ==
  \A g \in Frame : frame_info[f].history <= frame_info[g].history

\* EvictFrame: the first frame never used, else the one pinned longest ago.
IsVictim(f) ==
  /\ f \in Unpinned
  /\ IF Free # {}
     THEN f \in Free /\ \A g \in Free : f <= g
     ELSE \A g \in Unpinned : frame_info[f].history <= frame_info[g].history

\* Mistakes: a second guard is not counted; a reader clears what a writer has
\* set.
PinnedOnce(header, page, read, is_dirty) ==
  [page_in |-> page, pin_count |-> 1,
   history |-> current_time_stamp + 1, is_dirty |-> is_dirty \/ ~read]
PinnedClean(header, page, read, is_dirty) ==
  [page_in |-> page, pin_count |-> header.pin_count + 1,
   history |-> current_time_stamp + 1, is_dirty |-> ~read]

\* Pin, of a frame that is connected to page.
Pinned(header, page, read, is_dirty) ==
  [page_in |-> page, pin_count |-> header.pin_count + 1,
   history |-> current_time_stamp + 1, is_dirty |-> is_dirty \/ ~read]

VisitHit(holder, page, read) ==
  /\ page \in DOMAIN page_table
  /\ LET f == page_table[page]
     IN /\ frame_info' = [frame_info EXCEPT ![f] = Pinned(@, page, read, @.is_dirty)]
        /\ guards' = IndexInsert(guards, holder,
                                 [page |-> page, frame |-> f, read |-> read])
  /\ UNCHANGED <<data_file, cache, page_table>>

\* The victim's page is written back when it is dirty, and leaves the table.
VisitMiss(holder, page, read) ==
  /\ page \notin DOMAIN page_table
  /\ \E f \in Frame :
       LET old == frame_info[f].page_in
       IN /\ IsVictim(f)
          /\ data_file' = IF old # INVALID_PAGE_ID /\ frame_info[f].is_dirty
                          THEN [data_file EXCEPT ![old] = cache[f]]
                          ELSE data_file
          /\ page_table' = IndexInsert(IndexRemove(page_table, old), page, f)
          /\ cache' = [cache EXCEPT ![f] = data_file'[page]]
          /\ frame_info' = [frame_info EXCEPT ![f] = Pinned(@, page, read, FALSE)]
          /\ guards' = IndexInsert(guards, holder,
                                   [page |-> page, frame |-> f, read |-> read])

VisitPage(holder, page, read) ==
  /\ up
  /\ holder \notin DOMAIN guards
  /\ page \in DOMAIN data_file
  /\ current_time_stamp < MaxTime
  /\ VisitHit(holder, page, read) \/ VisitMiss(holder, page, read)
  /\ current_time_stamp' = current_time_stamp + 1
  /\ dropped' = Nobody
  /\ UNCHANGED <<up, disk_file, next_page>>

\* The index writes through AsMut of a guard that it took with read = false.
Write(holder, content) ==
  /\ holder \in DOMAIN guards
  /\ ~guards[holder].read
  /\ cache' = [cache EXCEPT ![guards[holder].frame] = content]
  /\ UNCHANGED <<up, data_file, disk_file, next_page, frame_info,
                 current_time_stamp, page_table, guards, dropped>>

\* A mistake: the guard stays valid after its Unpin.
DropStaysValid(holder) ==
  /\ holder \in DOMAIN guards
  /\ frame_info' = [frame_info EXCEPT ![guards[holder].frame].pin_count = @ - 1]
  /\ current_time_stamp' = current_time_stamp + 1
  /\ UNCHANGED <<up, data_file, disk_file, next_page, cache, page_table, guards,
                 dropped>>

\* ~PageGuard, or the move assignment over a valid guard: Unpin.
Drop(holder) ==
  /\ holder \in DOMAIN guards
  /\ LET guard == guards[holder]
     IN /\ frame_info' = [frame_info EXCEPT ![guard.frame].pin_count = @ - 1]
        /\ dropped' = IF guard.read THEN dropped ELSE guard
  /\ current_time_stamp' = current_time_stamp + 1
  /\ guards' = IndexRemove(guards, holder)
  /\ UNCHANGED <<up, data_file, disk_file, next_page, cache, page_table>>

\* Insert of the index goes on writing the new root through the pointer of a
\* guard that is gone (VisitPage(cursor, false).AsMut<Internal>()), and visits
\* no page before it is done.
WriteDropped(content) ==
  /\ dropped # Nobody
  /\ cache' = [cache EXCEPT ![dropped.frame] = content]
  /\ UNCHANGED <<up, data_file, disk_file, next_page, frame_info,
                 current_time_stamp, page_table, guards, dropped>>

\* ~BufferPoolManager and ~DiskManager, between two commands: every page in
\* the table is written, dirty or not, and next_page goes to its file.
Exit ==
  /\ up
  /\ guards = EmptyIndex
  /\ up' = FALSE
  /\ data_file' = [p \in DOMAIN data_file |->
                     IF p \in DOMAIN page_table THEN cache[page_table[p]]
                     ELSE data_file[p]]
  /\ disk_file' = next_page
  /\ next_page' = 0
  /\ frame_info' = [f \in Frame |-> EmptyFrame]
  /\ current_time_stamp' = 0
  /\ cache' = [f \in Frame |-> Zero]
  /\ page_table' = EmptyIndex
  /\ dropped' = Nobody
  /\ UNCHANGED guards

\* The constructors of the next run.
Boot ==
  /\ ~up
  /\ up' = TRUE
  /\ next_page' = disk_file
  /\ UNCHANGED <<data_file, disk_file, frame_info, current_time_stamp, cache,
                 page_table, guards, dropped>>

Next ==
  \/ NewPage
  \/ \E holder \in Holder :
       \/ \E page \in 0 .. MaxPages - 1, read \in BOOLEAN : VisitPage(holder, page, read)
       \/ \E content \in Content : Write(holder, content)
       \/ Drop(holder)
  \/ \E content \in Content : WriteDropped(content)
  \/ Exit
  \/ Boot

Spec == Init /\ [][Next]_vars

-----------------------------------------------------------------------------
\* Every variable holds a value of its type.
TypeOK ==
  /\ up \in BOOLEAN
  /\ IsIndex(data_file, Nat, Content)
  /\ disk_file \in Nat
  /\ next_page \in Nat
  /\ frame_info \in [Frame -> FrameHeader]
  /\ current_time_stamp \in Nat
  /\ cache \in [Frame -> Content]
  /\ IsIndex(page_table, Nat, Frame)
  /\ IsIndex(guards, Holder, PageGuard)
  /\ dropped = Nobody \/ dropped \in PageGuard

\* The holders whose guard is on frame f.
HoldersOf(f) == {h \in DOMAIN guards : guards[h].frame = f}

\* A page stays in its frame as long as somebody has a guard on it, and a
\* pointer into a dropped guard's frame is good until the next visit: neither
\* eviction nor another visit moves a page under its user (GetValue and Insert
\* read page numbers through one guard while they take the next).
GuardsStayPut ==
  /\ \A h \in DOMAIN guards :
       /\ guards[h].page \in DOMAIN page_table
       /\ page_table[guards[h].page] = guards[h].frame
  /\ dropped # Nobody =>
       /\ dropped.page \in DOMAIN page_table
       /\ page_table[dropped.page] = dropped.frame

\* The pins of a frame are the guards on it, so that frames are neither lost
\* for ever nor freed too early, and EvictFrame, which returns frame -1 when
\* all are pinned, always has a frame to give.
PinsAreGuards ==
  /\ \A f \in Frame : frame_info[f].pin_count = Cardinality(HoldersOf(f))
  /\ DOMAIN guards # Holder => Unpinned # {}

\* The page table and the frame headers agree, and no two frames cache the
\* same page: FrameManager learns of a page through ConnectPage, the table
\* through insert and erase, and neither checks the other.
TableMatchesFrames ==
  /\ \A p \in DOMAIN page_table : frame_info[page_table[p]].page_in = p
  /\ \A f \in Frame :
       frame_info[f].page_in # INVALID_PAGE_ID =>
         /\ frame_info[f].page_in \in DOMAIN page_table
         /\ page_table[frame_info[f].page_in] = f

\* A frame that is not dirty can be dropped without a loss.
CleanMatchesDisk ==
  \A p \in DOMAIN page_table :
    frame_info[page_table[p]].is_dirty \/ cache[page_table[p]] = data_file[p]

\* The pages as their users know them.
PageContent(p) == IF p \in DOMAIN page_table THEN cache[page_table[p]] ELSE data_file[p]

\* What a guard means to the index, without the frame.
AccessOf(guard) == [page |-> guard.page, read |-> guard.read]

StoredPages == [p \in DOMAIN data_file |-> PageContent(p)]
AccessNow == [h \in DOMAIN guards |-> AccessOf(guards[h])]
LastAccess == IF dropped = Nobody THEN Nobody ELSE AccessOf(dropped)

Store == INSTANCE PageStore WITH
  pages <- StoredPages, access <- AccessNow, last <- LastAccess

\* The pool is a store of pages: caching, eviction, write-back and restarts
\* lose no write, resurrect no old content and allocate no page twice.
ImplementsPageStore == Store!Spec
=============================================================================
