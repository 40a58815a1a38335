----------------------------- MODULE PoolProofs -----------------------------
(***************************************************************************)
(* Proofs about BufferPool, for any number of frames, pages, guards and    *)
(* contents: no page moves under its user, and the pool is a PageStore.    *)
(***************************************************************************)
EXTENDS BufferPool, FiniteSetTheorems, TLAPS

\* The pages that have been allocated are those below the next page number,
\* which the file of the disk manager keeps between two runs.
PagesAreNumbered == DOMAIN data_file = 0 .. (IF up THEN next_page ELSE disk_file) - 1

\* The pool caches pages of the file only.
TableInFile == DOMAIN page_table \subseteq DOMAIN data_file

\* Each guard on a frame is counted in its pins.
GuardsArePins == \A f \in Frame : frame_info[f].pin_count = Cardinality(HoldersOf(f))

\* A frame that somebody may write to, now or through the pointer of a guard
\* just dropped, is dirty.
WritersAreDirty ==
  /\ \A h \in DOMAIN guards : ~guards[h].read => frame_info[guards[h].frame].is_dirty
  /\ dropped # Nobody => frame_info[dropped.frame].is_dirty

\* Between two runs there is nothing in memory.
DownIsEmpty ==
  ~up => page_table = EmptyIndex /\ guards = EmptyIndex /\ dropped = Nobody

\* The inductive invariant.  That a guard stays put needs its pin, since only
\* an unpinned frame is a victim, and needs the table and the headers to agree
\* on the page that a victim gives up; that nothing is lost at an eviction
\* needs every writer's frame to be dirty.
PoolInv ==
  /\ TypeOK
  /\ PagesAreNumbered
  /\ TableInFile
  /\ TableMatchesFrames
  /\ GuardsStayPut
  /\ GuardsArePins
  /\ CleanMatchesDisk
  /\ WritersAreDirty
  /\ DownIsEmpty

-----------------------------------------------------------------------------
\* Frames and guards.

LEMMA EmptyFrameType == EmptyFrame \in FrameHeader
BY DEF EmptyFrame, FrameHeader, INVALID_PAGE_ID

\* Pin counts one guard more and never clears the dirty mark it is given.
LEMMA PinnedFacts ==
  ASSUME NEW header \in FrameHeader, NEW page \in Nat, NEW read \in BOOLEAN,
         NEW is_dirty \in BOOLEAN, current_time_stamp \in Nat
  PROVE  /\ Pinned(header, page, read, is_dirty) \in FrameHeader
         /\ Pinned(header, page, read, is_dirty).page_in = page
         /\ Pinned(header, page, read, is_dirty).pin_count = header.pin_count + 1
         /\ Pinned(header, page, read, is_dirty).is_dirty = (is_dirty \/ ~read)
BY DEF Pinned, FrameHeader

\* Finitely many holders have guards.
LEMMA HoldersFinite ==
  ASSUME TypeOK, NEW f
  PROVE  IsFiniteSet(HoldersOf(f)) /\ Cardinality(HoldersOf(f)) \in Nat
<1>1. HoldersOf(f) \in SUBSET Holder
  BY DEF TypeOK, IsIndex, HoldersOf
<1>2. QED
  BY <1>1, PoolAssumption, FS_Subset, FS_CardinalityType

\* What a guard knows.
LEMMA GuardFacts ==
  ASSUME PoolInv, NEW h \in DOMAIN guards
  PROVE  /\ guards[h] \in PageGuard
         /\ guards[h].page \in DOMAIN page_table
         /\ page_table[guards[h].page] = guards[h].frame
         /\ guards[h].page \in Nat
         /\ guards[h].frame \in Frame
         /\ frame_info[guards[h].frame].page_in = guards[h].page
         /\ ~guards[h].read => frame_info[guards[h].frame].is_dirty
<1>1. guards[h] \in PageGuard
  BY DEF PoolInv, TypeOK, IsIndex
<1>2. guards[h].page \in DOMAIN page_table /\ page_table[guards[h].page] = guards[h].frame
  BY DEF PoolInv, GuardsStayPut
<1>3. frame_info[guards[h].frame].page_in = guards[h].page
  BY <1>2 DEF PoolInv, TableMatchesFrames
<1>4. ~guards[h].read => frame_info[guards[h].frame].is_dirty
  BY DEF PoolInv, WritersAreDirty
<1>5. QED
  BY <1>1, <1>2, <1>3, <1>4 DEF PageGuard

\* The same of the pointer of a guard just dropped.
LEMMA DroppedFacts ==
  ASSUME PoolInv, dropped # Nobody
  PROVE  /\ dropped \in PageGuard
         /\ dropped.page \in DOMAIN page_table
         /\ page_table[dropped.page] = dropped.frame
         /\ dropped.frame \in Frame
         /\ frame_info[dropped.frame].is_dirty
<1>1. dropped \in PageGuard
  BY DEF PoolInv, TypeOK
<1>2. QED
  BY <1>1 DEF PoolInv, GuardsStayPut, WritersAreDirty, PageGuard

\* No two pages share a frame.
LEMMA OnePagePerFrame ==
  ASSUME PoolInv, NEW p \in DOMAIN page_table, NEW q \in DOMAIN page_table,
         page_table[p] = page_table[q]
  PROVE  p = q
BY DEF PoolInv, TableMatchesFrames

\* A frame without pins has no guard on it.
LEMMA UnpinnedIsFree ==
  ASSUME PoolInv, NEW f \in Unpinned
  PROVE  f \in Frame /\ \A h \in DOMAIN guards : guards[h].frame # f
<1>1. f \in Frame /\ frame_info[f].pin_count = 0
  BY DEF Unpinned
<1>2. IsFiniteSet(HoldersOf(f)) /\ Cardinality(HoldersOf(f)) = 0
  BY <1>1, HoldersFinite DEF PoolInv, GuardsArePins
<1>3. HoldersOf(f) = {}
  BY <1>2, FS_EmptySet
<1>4. QED
  BY <1>1, <1>3 DEF HoldersOf

-----------------------------------------------------------------------------
\* Init.
LEMMA InitPoolInv == Init => PoolInv
<1> SUFFICES ASSUME Init PROVE PoolInv
  OBVIOUS
<1>1. DOMAIN guards = {} /\ DOMAIN page_table = {} /\ DOMAIN data_file = {}
  BY DEF Init, EmptyIndex, IsIndex
<1>2. TypeOK
  BY EmptyFrameType, ContentAssumption DEF Init, TypeOK, EmptyIndex, IsIndex
<1>3. PagesAreNumbered
  BY <1>1 DEF Init, PagesAreNumbered
<1>4. TableInFile /\ TableMatchesFrames /\ GuardsStayPut /\ CleanMatchesDisk
        /\ WritersAreDirty /\ DownIsEmpty
  BY <1>1 DEF Init, TableInFile, TableMatchesFrames, GuardsStayPut, CleanMatchesDisk,
              WritersAreDirty, DownIsEmpty, EmptyFrame
<1>5. GuardsArePins
  <2>1. ASSUME NEW f \in Frame PROVE HoldersOf(f) = {}
    BY <1>1 DEF HoldersOf
  <2>2. QED
    BY <2>1, FS_EmptySet DEF Init, GuardsArePins, EmptyFrame
<1>6. QED
  BY <1>2, <1>3, <1>4, <1>5 DEF PoolInv

-----------------------------------------------------------------------------
\* Steps that move no page.
LEMMA StutterKeeps ==
  ASSUME PoolInv, UNCHANGED vars
  PROVE  PoolInv'
BY DEF PoolInv, vars, TypeOK, IsIndex, PagesAreNumbered, TableInFile, TableMatchesFrames,
       GuardsStayPut, GuardsArePins, HoldersOf, CleanMatchesDisk, WritersAreDirty, DownIsEmpty

LEMMA BootKeeps ==
  ASSUME PoolInv, Boot
  PROVE  PoolInv'
BY DEF PoolInv, Boot, TypeOK, IsIndex, PagesAreNumbered, TableInFile, TableMatchesFrames,
       GuardsStayPut, GuardsArePins, HoldersOf, CleanMatchesDisk, WritersAreDirty, DownIsEmpty

LEMMA NewPageKeeps ==
  ASSUME PoolInv, NewPage
  PROVE  PoolInv'
<1>1. /\ DOMAIN data_file = 0 .. next_page - 1
      /\ next_page \in Nat
      /\ IsIndex(data_file, Nat, Content)
  BY DEF PoolInv, TypeOK, PagesAreNumbered, NewPage
<1>2. /\ DOMAIN data_file' = DOMAIN data_file \cup {next_page}
      /\ \A p \in DOMAIN data_file' :
           data_file'[p] = IF p = next_page THEN Zero ELSE data_file[p]
  BY DEF NewPage
<1>3. IsIndex(data_file', Nat, Content)
  BY <1>1, <1>2, ContentAssumption DEF NewPage, IsIndex
<1>4. TypeOK'
  BY <1>1, <1>3 DEF NewPage, PoolInv, TypeOK
<1>5. PagesAreNumbered' /\ TableInFile'
  BY <1>1, <1>2 DEF NewPage, PoolInv, PagesAreNumbered, TableInFile
<1>6. CleanMatchesDisk'
  BY <1>1, <1>2 DEF NewPage, PoolInv, TableInFile, CleanMatchesDisk
<1>7. TableMatchesFrames' /\ GuardsStayPut' /\ GuardsArePins' /\ WritersAreDirty' /\ DownIsEmpty'
  BY DEF NewPage, PoolInv, TableMatchesFrames, GuardsStayPut, GuardsArePins, HoldersOf,
         WritersAreDirty, DownIsEmpty
<1>8. QED
  BY <1>4, <1>5, <1>6, <1>7 DEF PoolInv

\* A write goes to a dirty frame.
LEMMA WriteToFrameKeeps ==
  ASSUME PoolInv, NEW f \in Frame, frame_info[f].is_dirty, NEW content \in Content,
         cache' = [cache EXCEPT ![f] = content],
         UNCHANGED <<up, data_file, disk_file, next_page, frame_info,
                     current_time_stamp, page_table, guards, dropped>>
  PROVE  PoolInv'
<1>1. cache \in [Frame -> Content]
  BY DEF PoolInv, TypeOK
<1>2. TypeOK'
  BY <1>1 DEF PoolInv, TypeOK, IsIndex
<1>3. CleanMatchesDisk'
  <2> SUFFICES ASSUME NEW p \in DOMAIN page_table
               PROVE  frame_info[page_table[p]].is_dirty \/ cache'[page_table[p]] = data_file[p]
    BY DEF CleanMatchesDisk
  <2>1. page_table[p] \in Frame
    BY DEF PoolInv, TypeOK, IsIndex
  <2>2. QED
    BY <1>1, <2>1 DEF PoolInv, CleanMatchesDisk
<1>4. QED
  BY <1>2, <1>3 DEF PoolInv, PagesAreNumbered, TableInFile, TableMatchesFrames,
       GuardsStayPut, GuardsArePins, HoldersOf, WritersAreDirty, DownIsEmpty

LEMMA WriteKeeps ==
  ASSUME PoolInv, NEW h \in Holder, NEW content \in Content, Write(h, content)
  PROVE  PoolInv'
<1>1. guards[h].frame \in Frame /\ frame_info[guards[h].frame].is_dirty
  BY GuardFacts DEF Write
<1>2. QED
  BY <1>1, WriteToFrameKeeps DEF Write

LEMMA WriteDroppedKeeps ==
  ASSUME PoolInv, NEW content \in Content, WriteDropped(content)
  PROVE  PoolInv'
<1>1. dropped.frame \in Frame /\ frame_info[dropped.frame].is_dirty
  BY DroppedFacts DEF WriteDropped
<1>2. QED
  BY <1>1, WriteToFrameKeeps DEF WriteDropped

LEMMA ExitKeeps ==
  ASSUME PoolInv, Exit
  PROVE  PoolInv'
<1>1. /\ DOMAIN guards' = {} /\ DOMAIN page_table' = {} /\ dropped' = Nobody
      /\ guards' = EmptyIndex /\ page_table' = EmptyIndex
  BY DEF Exit, EmptyIndex, IsIndex
<1>2. DOMAIN data_file' = DOMAIN data_file
  BY DEF Exit
<1>3. IsIndex(data_file', Nat, Content)
  BY DEF Exit, PoolInv, TypeOK, IsIndex
<1>4. frame_info' \in [Frame -> FrameHeader] /\ cache' \in [Frame -> Content]
  BY EmptyFrameType, ContentAssumption DEF Exit
<1>5. TypeOK'
  <2>1. IsIndex(page_table', Nat, Frame) /\ IsIndex(guards', Holder, PageGuard)
    BY <1>1 DEF EmptyIndex, IsIndex
  <2>2. QED
    BY <1>1, <1>3, <1>4, <2>1 DEF Exit, PoolInv, TypeOK
<1>6. PagesAreNumbered'
  BY <1>2 DEF Exit, PoolInv, PagesAreNumbered
<1>7. TableInFile' /\ TableMatchesFrames' /\ GuardsStayPut' /\ CleanMatchesDisk'
        /\ WritersAreDirty' /\ DownIsEmpty'
  <2>1. \A f \in Frame : frame_info'[f].page_in = INVALID_PAGE_ID
    BY DEF Exit, EmptyFrame
  <2>2. TableMatchesFrames'
    BY <1>1, <2>1 DEF TableMatchesFrames
  <2>3. TableInFile' /\ GuardsStayPut' /\ CleanMatchesDisk' /\ WritersAreDirty'
    BY <1>1 DEF TableInFile, GuardsStayPut, CleanMatchesDisk, WritersAreDirty
  <2>4. DownIsEmpty'
    BY <1>1 DEF DownIsEmpty
  <2>5. QED
    BY <2>2, <2>3, <2>4
<1>8. GuardsArePins'
  <2>1. ASSUME NEW f \in Frame PROVE HoldersOf(f)' = {}
    BY <1>1 DEF HoldersOf
  <2>2. QED
    BY <2>1, FS_EmptySet DEF Exit, GuardsArePins, EmptyFrame
<1>9. QED
  BY <1>5, <1>6, <1>7, <1>8 DEF PoolInv

\* A guard that is given up takes one pin with it.
LEMMA DropKeeps ==
  ASSUME PoolInv, NEW h \in Holder, Drop(h)
  PROVE  PoolInv'
<1>1. h \in DOMAIN guards
  BY DEF Drop
<1> PICK guard \in PageGuard : guard = guards[h]
  BY <1>1, GuardFacts
<1> PICK f \in Frame : f = guard.frame
  BY DEF PageGuard
<1> PICK header \in FrameHeader : header = frame_info[f]
  BY DEF PoolInv, TypeOK
<1>2. /\ guard.page \in DOMAIN page_table
      /\ page_table[guard.page] = f
      /\ ~guard.read => header.is_dirty
  BY <1>1, GuardFacts
<1>3. /\ frame_info' = [frame_info EXCEPT ![f].pin_count = header.pin_count - 1]
      /\ dropped' = IF guard.read THEN dropped ELSE guard
      /\ guards' = IndexRemove(guards, h)
      /\ UNCHANGED <<up, data_file, disk_file, next_page, cache, page_table>>
      /\ current_time_stamp' = current_time_stamp + 1
  BY DEF Drop
<1>4. frame_info \in [Frame -> FrameHeader]
  BY DEF PoolInv, TypeOK
<1>5. h \in HoldersOf(f)
  BY <1>1 DEF HoldersOf
<1>6. IsFiniteSet(HoldersOf(f)) /\ Cardinality(HoldersOf(f)) \in Nat
  BY HoldersFinite DEF PoolInv
<1>7. header.pin_count = Cardinality(HoldersOf(f)) /\ header.pin_count # 0
  BY <1>2, <1>5, <1>6, FS_EmptySet DEF PoolInv, GuardsArePins
<1>8. DOMAIN guards' = DOMAIN guards \ {h}
  BY <1>3 DEF IndexRemove
<1>9. \A k \in DOMAIN guards \ {h} : guards'[k] = guards[k]
  BY <1>3 DEF IndexRemove
<1>10. /\ frame_info'[f] = [header EXCEPT !.pin_count = header.pin_count - 1]
       /\ \A g \in Frame \ {f} : frame_info'[g] = frame_info[g]
       /\ frame_info' = [frame_info EXCEPT ![f] =
                           [header EXCEPT !.pin_count = header.pin_count - 1]]
  BY <1>3, <1>4
<1>11. /\ frame_info'[f] \in FrameHeader
       /\ frame_info'[f].page_in = header.page_in
       /\ frame_info'[f].is_dirty = header.is_dirty
       /\ frame_info'[f].pin_count = header.pin_count - 1
  BY <1>6, <1>7, <1>10 DEF FrameHeader
<1>12. frame_info' \in [Frame -> FrameHeader]
  BY <1>2, <1>4, <1>10, <1>11
<1>13. \A g \in Frame : /\ frame_info'[g].page_in = frame_info[g].page_in
                        /\ frame_info'[g].is_dirty = frame_info[g].is_dirty
  BY <1>10, <1>11
<1>14. TypeOK'
  <2>1. IsIndex(guards', Holder, PageGuard)
    BY <1>3 DEF PoolInv, TypeOK, IsIndex, IndexRemove
  <2>2. dropped' = Nobody \/ dropped' \in PageGuard
    BY <1>2, <1>3 DEF PoolInv, TypeOK
  <2>3. QED
    BY <1>3, <1>12, <2>1, <2>2 DEF PoolInv, TypeOK
<1>15. page_table \in [DOMAIN page_table -> Frame]
  BY DEF PoolInv, TypeOK, IsIndex
<1>16. TableMatchesFrames'
  BY <1>3, <1>13, <1>15 DEF PoolInv, TableMatchesFrames
<1>17. GuardsStayPut'
  BY <1>2, <1>3, <1>8, <1>9 DEF PoolInv, GuardsStayPut
<1>18. CleanMatchesDisk'
  BY <1>3, <1>13, <1>15 DEF PoolInv, CleanMatchesDisk
<1>19. WritersAreDirty'
  <2>1. \A k \in DOMAIN guards : guards[k].frame \in Frame
    BY GuardFacts
  <2>2. dropped # Nobody => dropped.frame \in Frame
    BY DroppedFacts
  <2>3. \A k \in DOMAIN guards' : ~guards'[k].read => frame_info'[guards'[k].frame].is_dirty
    BY <1>8, <1>9, <1>13, <2>1 DEF PoolInv, WritersAreDirty
  <2>4. dropped' # Nobody => frame_info'[dropped'.frame].is_dirty
    BY <1>2, <1>3, <1>13, <2>2 DEF PoolInv, WritersAreDirty
  <2>5. QED
    BY <2>3, <2>4 DEF WritersAreDirty
<1>20. GuardsArePins'
  <2>1. HoldersOf(f)' = HoldersOf(f) \ {h}
    BY <1>8, <1>9 DEF HoldersOf
  <2>2. Cardinality(HoldersOf(f)') = header.pin_count - 1
    BY <1>5, <1>6, <1>7, <2>1, FS_RemoveElement
  <2>3. ASSUME NEW g \in Frame \ {f} PROVE HoldersOf(g)' = HoldersOf(g)
    BY <1>8, <1>9 DEF HoldersOf
  <2>4. \A g \in Frame \ {f} : Cardinality(HoldersOf(g)') = frame_info'[g].pin_count
    BY <1>10, <2>3 DEF PoolInv, GuardsArePins
  <2>5. QED
    BY <1>11, <2>2, <2>4 DEF GuardsArePins
<1>21. PagesAreNumbered' /\ TableInFile'
  BY <1>3 DEF PoolInv, PagesAreNumbered, TableInFile
<1>22. DownIsEmpty'
  BY <1>1, <1>3 DEF PoolInv, DownIsEmpty, EmptyIndex, IsIndex
<1>23. QED
  BY <1>14, <1>16, <1>17, <1>18, <1>19, <1>20, <1>21, <1>22 DEF PoolInv

-----------------------------------------------------------------------------
\* Visits.

\* A visit that finds or brings its page in frame f puts a guard there and
\* pins the frame once more.
VisitIn(f, holder, page, read, is_dirty) ==
  /\ f \in Frame
  /\ is_dirty \in BOOLEAN
  /\ frame_info' = [frame_info EXCEPT ![f] = Pinned(frame_info[f], page, read, is_dirty)]
  /\ guards' = IndexInsert(guards, holder, [page |-> page, frame |-> f, read |-> read])

LEMMA VisitInFacts ==
  ASSUME PoolInv, NEW holder \in Holder, NEW page \in Nat, NEW read \in BOOLEAN,
         VisitPage(holder, page, read), NEW f, NEW is_dirty,
         VisitIn(f, holder, page, read, is_dirty)
  PROVE  /\ frame_info' \in [Frame -> FrameHeader]
         /\ frame_info'[f].page_in = page
         /\ frame_info'[f].is_dirty = (is_dirty \/ ~read)
         /\ \A g \in Frame \ {f} : frame_info'[g] = frame_info[g]
         /\ DOMAIN guards' = DOMAIN guards \cup {holder}
         /\ guards'[holder] = [page |-> page, frame |-> f, read |-> read]
         /\ \A h \in DOMAIN guards : guards'[h] = guards[h]
         /\ IsIndex(guards', Holder, PageGuard)
         /\ GuardsArePins'
<1> DEFINE guard == [page |-> page, frame |-> f, read |-> read]
           header == frame_info[f]
           pinned == Pinned(header, page, read, is_dirty)
<1>1. frame_info \in [Frame -> FrameHeader] /\ current_time_stamp \in Nat
  BY DEF PoolInv, TypeOK
<1>2. f \in Frame /\ is_dirty \in BOOLEAN /\ header \in FrameHeader
  BY <1>1 DEF VisitIn
<1>3. /\ pinned \in FrameHeader
      /\ pinned.page_in = page
      /\ pinned.pin_count = header.pin_count + 1
      /\ pinned.is_dirty = (is_dirty \/ ~read)
  BY <1>1, <1>2, PinnedFacts
<1>4. frame_info' = [frame_info EXCEPT ![f] = pinned]
  BY DEF VisitIn
<1>5. guard \in PageGuard
  BY <1>2 DEF PageGuard
<1>6. holder \notin DOMAIN guards
  BY DEF VisitPage
<1>7. guards' = IndexInsert(guards, holder, guard)
  BY DEF VisitIn
<1> HIDE DEF guard, pinned
<1>8. frame_info'[f] = pinned /\ \A g \in Frame \ {f} : frame_info'[g] = frame_info[g]
  BY <1>1, <1>2, <1>4
<1>9. frame_info' \in [Frame -> FrameHeader]
  BY <1>1, <1>2, <1>3, <1>4
<1>10. DOMAIN guards' = DOMAIN guards \cup {holder}
  BY <1>7 DEF IndexInsert
<1>11. guards'[holder] = guard
  BY <1>6, <1>7 DEF IndexInsert
<1>12. \A h \in DOMAIN guards : guards'[h] = guards[h]
  BY <1>7 DEF IndexInsert
<1>13. IsIndex(guards', Holder, PageGuard)
  BY <1>5, <1>7 DEF PoolInv, TypeOK, IsIndex, IndexInsert
<1>14. GuardsArePins'
  <2>1. guard.frame = f
    BY DEF guard
  <2>2. HoldersOf(f)' = HoldersOf(f) \cup {holder}
    BY <1>10, <1>11, <1>12, <2>1 DEF HoldersOf
  <2>3. holder \notin HoldersOf(f)
    BY <1>6 DEF HoldersOf
  <2>4. IsFiniteSet(HoldersOf(f)) /\ Cardinality(HoldersOf(f)) = header.pin_count
    BY <1>2, HoldersFinite DEF PoolInv, GuardsArePins
  <2>5. Cardinality(HoldersOf(f)') = header.pin_count + 1
    BY <2>2, <2>3, <2>4, FS_AddElement
  <2>6. ASSUME NEW g \in Frame \ {f} PROVE HoldersOf(g)' = HoldersOf(g)
    BY <1>10, <1>11, <1>12, <2>1 DEF HoldersOf
  <2>7. \A g \in Frame \ {f} : Cardinality(HoldersOf(g)') = frame_info'[g].pin_count
    BY <1>8, <2>6 DEF PoolInv, GuardsArePins
  <2>8. QED
    BY <1>3, <1>8, <2>5, <2>7 DEF GuardsArePins
<1>15. QED
  BY <1>3, <1>8, <1>9, <1>10, <1>11, <1>12, <1>13, <1>14 DEF guard

\* A page that is cached gets another guard.
LEMMA VisitHitKeeps ==
  ASSUME PoolInv, NEW holder \in Holder, NEW page \in Nat, NEW read \in BOOLEAN,
         VisitPage(holder, page, read), VisitHit(holder, page, read)
  PROVE  PoolInv'
<1>1. /\ page \in DOMAIN page_table
      /\ UNCHANGED <<up, disk_file, next_page, data_file, cache, page_table>>
      /\ dropped' = Nobody
      /\ current_time_stamp' = current_time_stamp + 1
      /\ up
  BY DEF VisitHit, VisitPage
<1>2. page_table \in [DOMAIN page_table -> Frame]
  BY DEF PoolInv, TypeOK, IsIndex
<1> PICK f \in Frame : f = page_table[page]
  BY <1>1, <1>2
<1>3. frame_info[f] \in FrameHeader
  BY DEF PoolInv, TypeOK
<1> PICK dirty \in BOOLEAN : dirty = frame_info[f].is_dirty
  BY <1>3 DEF FrameHeader
<1>4. VisitIn(f, holder, page, read, dirty)
  <2>1. frame_info' = [frame_info EXCEPT ![f] = Pinned(frame_info[f], page, read, dirty)]
    BY DEF VisitHit, PoolInv, TypeOK
  <2>2. QED
    BY <2>1 DEF VisitIn, VisitHit
<1>5. frame_info[f].page_in = page
  BY <1>1 DEF PoolInv, TableMatchesFrames
<1>6. /\ frame_info' \in [Frame -> FrameHeader]
      /\ frame_info'[f].page_in = page
      /\ frame_info'[f].is_dirty = (dirty \/ ~read)
      /\ \A g \in Frame \ {f} : frame_info'[g] = frame_info[g]
      /\ DOMAIN guards' = DOMAIN guards \cup {holder}
      /\ guards'[holder] = [page |-> page, frame |-> f, read |-> read]
      /\ \A h \in DOMAIN guards : guards'[h] = guards[h]
      /\ IsIndex(guards', Holder, PageGuard)
      /\ GuardsArePins'
  BY <1>4, VisitInFacts
<1>7. \A g \in Frame : /\ frame_info'[g].page_in = frame_info[g].page_in
                       /\ frame_info[g].is_dirty => frame_info'[g].is_dirty
  BY <1>5, <1>6
<1>8. TypeOK'
  BY <1>1, <1>6 DEF PoolInv, TypeOK
<1>9. PagesAreNumbered' /\ TableInFile' /\ DownIsEmpty'
  BY <1>1 DEF PoolInv, PagesAreNumbered, TableInFile, DownIsEmpty
<1>10. TableMatchesFrames'
  BY <1>1, <1>2, <1>7 DEF PoolInv, TableMatchesFrames
<1>11. GuardsStayPut'
  BY <1>1, <1>6 DEF PoolInv, GuardsStayPut
<1>12. CleanMatchesDisk'
  BY <1>1, <1>2, <1>7 DEF PoolInv, CleanMatchesDisk
<1>13. WritersAreDirty'
  <2>1. \A h \in DOMAIN guards : guards[h].frame \in Frame
    BY GuardFacts
  <2>2. \A h \in DOMAIN guards : ~guards'[h].read => frame_info'[guards'[h].frame].is_dirty
    BY <1>6, <1>7, <2>1 DEF PoolInv, WritersAreDirty
  <2>3. ~guards'[holder].read => frame_info'[guards'[holder].frame].is_dirty
    <3>1. guards'[holder].read = read /\ guards'[holder].frame = f
      BY <1>6
    <3>2. ~read => frame_info'[f].is_dirty
      BY <1>6
    <3>3. QED
      BY <3>1, <3>2
  <2>4. QED
    BY <1>1, <1>6, <2>2, <2>3 DEF WritersAreDirty
<1>14. QED
  BY <1>6, <1>8, <1>9, <1>10, <1>11, <1>12, <1>13 DEF PoolInv

\* A page that is not cached takes the frame of a victim, whose page leaves
\* the table after it was written back if it had to be.
TakesOver(f, old, holder, page, read) ==
  /\ f \in Unpinned
  /\ old = frame_info[f].page_in
  /\ \A p \in DOMAIN page_table : page_table[p] = f <=> p = old
  /\ old # INVALID_PAGE_ID => old \in DOMAIN page_table
  /\ page # old
  /\ \E clean \in BOOLEAN : ~clean /\ VisitIn(f, holder, page, read, clean)
  /\ DOMAIN page_table' = (DOMAIN page_table \ {old}) \cup {page}
  /\ page_table'[page] = f
  /\ \A p \in DOMAIN page_table \ {old} : page_table'[p] = page_table[p]
  /\ IsIndex(page_table', Nat, Frame)
  /\ DOMAIN data_file' = DOMAIN data_file
  /\ \A p \in DOMAIN data_file \ {old} : data_file'[p] = data_file[p]
  /\ old # INVALID_PAGE_ID => data_file'[old] = cache[page_table[old]]
  /\ IsIndex(data_file', Nat, Content)
  /\ cache' \in [Frame -> Content]
  /\ cache'[f] = data_file[page]
  /\ \A g \in Frame \ {f} : cache'[g] = cache[g]

LEMMA VisitMissFacts ==
  ASSUME PoolInv, NEW holder \in Holder, NEW page \in Nat, NEW read \in BOOLEAN,
         VisitPage(holder, page, read), VisitMiss(holder, page, read)
  PROVE  \E f \in Frame, old \in Int : TakesOver(f, old, holder, page, read)
<1>1. PICK f \in Frame :
        LET old == frame_info[f].page_in
        IN /\ IsVictim(f)
           /\ data_file' = IF old # INVALID_PAGE_ID /\ frame_info[f].is_dirty
                           THEN [data_file EXCEPT ![old] = cache[f]]
                           ELSE data_file
           /\ page_table' = IndexInsert(IndexRemove(page_table, old), page, f)
           /\ cache' = [cache EXCEPT ![f] = data_file'[page]]
           /\ frame_info' = [frame_info EXCEPT ![f] = Pinned(@, page, read, FALSE)]
           /\ guards' = IndexInsert(guards, holder,
                                    [page |-> page, frame |-> f, read |-> read])
  BY DEF VisitMiss
<1>2. /\ frame_info \in [Frame -> FrameHeader]
      /\ cache \in [Frame -> Content]
      /\ IsIndex(page_table, Nat, Frame)
      /\ IsIndex(data_file, Nat, Content)
  BY DEF PoolInv, TypeOK
<1> PICK header \in FrameHeader : header = frame_info[f]
  BY <1>2
<1> PICK old \in Int : old = header.page_in
  BY DEF FrameHeader
<1>3. /\ IsVictim(f)
      /\ data_file' = IF old # INVALID_PAGE_ID /\ header.is_dirty
                      THEN [data_file EXCEPT ![old] = cache[f]]
                      ELSE data_file
      /\ page_table' = IndexInsert(IndexRemove(page_table, old), page, f)
      /\ cache' = [cache EXCEPT ![f] = data_file'[page]]
      /\ frame_info' = [frame_info EXCEPT ![f] = Pinned(header, page, read, FALSE)]
      /\ guards' = IndexInsert(guards, holder,
                               [page |-> page, frame |-> f, read |-> read])
  BY <1>1, <1>2
<1>4. f \in Unpinned
  BY <1>3 DEF IsVictim
<1>5. /\ \A p \in DOMAIN page_table : page_table[p] = f => p = old
      /\ old # INVALID_PAGE_ID => old \in DOMAIN page_table /\ page_table[old] = f
  BY DEF PoolInv, TableMatchesFrames
<1>6. \A p \in DOMAIN page_table : page_table[p] = f <=> p = old
  <2>1. INVALID_PAGE_ID \notin DOMAIN page_table
    BY <1>2 DEF IsIndex, INVALID_PAGE_ID
  <2>2. QED
    BY <1>5, <2>1
<1>7. page \notin DOMAIN page_table /\ page \in DOMAIN data_file
  BY DEF VisitMiss, VisitPage
<1>8. page # old
  BY <1>5, <1>7 DEF INVALID_PAGE_ID
<1>9. \E clean \in BOOLEAN : ~clean /\ VisitIn(f, holder, page, read, clean)
  <2>1. VisitIn(f, holder, page, read, FALSE)
    BY <1>3 DEF VisitIn
  <2>2. QED
    BY <2>1
<1>10. /\ DOMAIN page_table' = (DOMAIN page_table \ {old}) \cup {page}
       /\ page_table'[page] = f
       /\ \A p \in DOMAIN page_table \ {old} : page_table'[p] = page_table[p]
       /\ IsIndex(page_table', Nat, Frame)
  <2> DEFINE rest == IndexRemove(page_table, old)
  <2>1. DOMAIN rest = DOMAIN page_table \ {old}
    BY DEF IndexRemove
  <2>2. \A p \in DOMAIN page_table \ {old} : rest[p] = page_table[p]
    BY DEF IndexRemove
  <2>3. IsIndex(rest, Nat, Frame)
    BY <1>2 DEF IsIndex, IndexRemove
  <2>4. page_table' = IndexInsert(rest, page, f)
    BY <1>3
  <2> HIDE DEF rest
  <2>5. DOMAIN page_table' = DOMAIN rest \cup {page}
    BY <2>4 DEF IndexInsert
  <2>6. \A p \in DOMAIN rest : page_table'[p] = rest[p]
    BY <2>4 DEF IndexInsert
  <2>7. page_table'[page] = f
    BY <1>7, <2>1, <2>4 DEF IndexInsert
  <2>8. IsIndex(page_table', Nat, Frame)
    BY <2>3, <2>4 DEF IsIndex, IndexInsert
  <2>9. QED
    BY <2>1, <2>2, <2>5, <2>6, <2>7, <2>8
<1>11. old # INVALID_PAGE_ID => old \in DOMAIN data_file
  BY <1>5 DEF PoolInv, TableInFile
<1>12. /\ DOMAIN data_file' = DOMAIN data_file
       /\ \A p \in DOMAIN data_file \ {old} : data_file'[p] = data_file[p]
  BY <1>3
<1>13. old # INVALID_PAGE_ID => data_file'[old] = cache[page_table[old]]
  <2>1. CASE old # INVALID_PAGE_ID /\ header.is_dirty
    BY <1>3, <1>5, <1>11, <2>1
  <2>2. CASE old # INVALID_PAGE_ID /\ ~header.is_dirty
    <3>1. data_file' = data_file
      BY <1>3, <2>2
    <3>2. cache[page_table[old]] = data_file[old]
      BY <1>5, <2>2 DEF PoolInv, CleanMatchesDisk
    <3>3. QED
      BY <3>1, <3>2
  <2>3. QED
    BY <2>1, <2>2
<1>14. IsIndex(data_file', Nat, Content)
  <2>1. cache[f] \in Content
    BY <1>2
  <2>2. QED
    BY <1>2, <1>3, <2>1 DEF IsIndex
<1>15. data_file'[page] = data_file[page] /\ data_file[page] \in Content
  BY <1>2, <1>7, <1>8, <1>12 DEF IsIndex
<1>16. /\ cache' \in [Frame -> Content]
       /\ cache'[f] = data_file[page]
       /\ \A g \in Frame \ {f} : cache'[g] = cache[g]
  BY <1>2, <1>3, <1>15
<1>17. QED
  BY <1>4, <1>5, <1>6, <1>8, <1>9, <1>10, <1>12, <1>13, <1>14, <1>16 DEF TakesOver

LEMMA VisitMissKeeps ==
  ASSUME PoolInv, NEW holder \in Holder, NEW page \in Nat, NEW read \in BOOLEAN,
         VisitPage(holder, page, read), VisitMiss(holder, page, read)
  PROVE  PoolInv'
<1> PICK f \in Frame, old \in Int : TakesOver(f, old, holder, page, read)
  BY VisitMissFacts
<1> PICK clean \in BOOLEAN : VisitIn(f, holder, page, read, clean)
  BY DEF TakesOver
<1>1. /\ f \in Unpinned
      /\ old = frame_info[f].page_in
      /\ \A p \in DOMAIN page_table : page_table[p] = f <=> p = old
      /\ old # INVALID_PAGE_ID => old \in DOMAIN page_table
      /\ page # old
      /\ DOMAIN page_table' = (DOMAIN page_table \ {old}) \cup {page}
      /\ page_table'[page] = f
      /\ \A p \in DOMAIN page_table \ {old} : page_table'[p] = page_table[p]
      /\ IsIndex(page_table', Nat, Frame)
      /\ DOMAIN data_file' = DOMAIN data_file
      /\ \A p \in DOMAIN data_file \ {old} : data_file'[p] = data_file[p]
      /\ IsIndex(data_file', Nat, Content)
      /\ cache' \in [Frame -> Content]
      /\ cache'[f] = data_file[page]
      /\ \A g \in Frame \ {f} : cache'[g] = cache[g]
  BY DEF TakesOver
<1>2. /\ page \in DOMAIN data_file
      /\ up
      /\ dropped' = Nobody
      /\ current_time_stamp' = current_time_stamp + 1
      /\ UNCHANGED <<up, disk_file, next_page>>
  BY DEF VisitPage
<1>3. /\ frame_info' \in [Frame -> FrameHeader]
      /\ frame_info'[f].page_in = page
      /\ frame_info'[f].is_dirty = (clean \/ ~read)
      /\ \A g \in Frame \ {f} : frame_info'[g] = frame_info[g]
      /\ DOMAIN guards' = DOMAIN guards \cup {holder}
      /\ guards'[holder] = [page |-> page, frame |-> f, read |-> read]
      /\ \A h \in DOMAIN guards : guards'[h] = guards[h]
      /\ IsIndex(guards', Holder, PageGuard)
      /\ GuardsArePins'
  BY VisitInFacts
<1>4. \A h \in DOMAIN guards :
        /\ guards[h].frame \in Frame \ {f}
        /\ guards[h].page \in DOMAIN page_table \ {old}
        /\ page_table[guards[h].page] = guards[h].frame
  BY <1>1, GuardFacts, UnpinnedIsFree
<1>5. TypeOK'
  BY <1>1, <1>2, <1>3 DEF PoolInv, TypeOK
<1>6. PagesAreNumbered' /\ DownIsEmpty'
  BY <1>1, <1>2 DEF PoolInv, PagesAreNumbered, DownIsEmpty
<1>7. TableInFile'
  BY <1>1, <1>2 DEF PoolInv, TableInFile
<1>8. \A p \in DOMAIN page_table \ {old} :
        page_table[p] \in Frame \ {f} /\ frame_info[page_table[p]].page_in = p
  BY <1>1 DEF PoolInv, TypeOK, IsIndex, TableMatchesFrames
<1>9. TableMatchesFrames'
  <2>1. \A p \in DOMAIN page_table' : frame_info'[page_table'[p]].page_in = p
    BY <1>1, <1>3, <1>8
  <2>2. ASSUME NEW g \in Frame, frame_info'[g].page_in # INVALID_PAGE_ID
        PROVE  /\ frame_info'[g].page_in \in DOMAIN page_table'
               /\ page_table'[frame_info'[g].page_in] = g
    <3>1. CASE g = f
      BY <1>1, <1>3, <3>1
    <3>2. CASE g # f
      <4>1. frame_info'[g] = frame_info[g]
        BY <1>3, <3>2
      <4>2. /\ frame_info[g].page_in \in DOMAIN page_table
            /\ page_table[frame_info[g].page_in] = g
        BY <2>2, <4>1 DEF PoolInv, TableMatchesFrames
      <4>3. frame_info[g].page_in # old
        BY <1>1, <3>2, <4>2
      <4>4. QED
        BY <1>1, <4>1, <4>2, <4>3
    <3>3. QED
      BY <3>1, <3>2
  <2>3. QED
    BY <2>1, <2>2 DEF TableMatchesFrames
<1>10. GuardsStayPut'
  <2>1. \A h \in DOMAIN guards' : /\ guards'[h].page \in DOMAIN page_table'
                                  /\ page_table'[guards'[h].page] = guards'[h].frame
    BY <1>1, <1>3, <1>4
  <2>2. QED
    BY <1>2, <2>1 DEF GuardsStayPut
<1>11. CleanMatchesDisk'
  <2>1. ASSUME NEW p \in DOMAIN page_table \ {old}
        PROVE  frame_info'[page_table'[p]].is_dirty \/ cache'[page_table'[p]] = data_file'[p]
    <3>1. /\ page_table'[p] = page_table[p]
          /\ frame_info'[page_table[p]] = frame_info[page_table[p]]
          /\ cache'[page_table[p]] = cache[page_table[p]]
      BY <1>1, <1>3, <1>8
    <3>2. data_file'[p] = data_file[p]
      BY <1>1 DEF PoolInv, TableInFile
    <3>3. QED
      BY <3>1, <3>2 DEF PoolInv, CleanMatchesDisk
  <2>2. cache'[page_table'[page]] = data_file'[page]
    BY <1>1, <1>2
  <2>3. QED
    BY <1>1, <2>1, <2>2 DEF CleanMatchesDisk
<1>12. WritersAreDirty'
  <2>1. \A h \in DOMAIN guards : ~guards'[h].read => frame_info'[guards'[h].frame].is_dirty
    BY <1>3, <1>4 DEF PoolInv, WritersAreDirty
  <2>2. ~guards'[holder].read => frame_info'[guards'[holder].frame].is_dirty
    <3>1. guards'[holder].read = read /\ guards'[holder].frame = f
      BY <1>3
    <3>2. ~read => frame_info'[f].is_dirty
      BY <1>3
    <3>3. QED
      BY <3>1, <3>2
  <2>3. QED
    BY <1>2, <1>3, <2>1, <2>2 DEF WritersAreDirty
<1>13. QED
  BY <1>3, <1>5, <1>6, <1>7, <1>9, <1>10, <1>11, <1>12 DEF PoolInv

-----------------------------------------------------------------------------
\* Every step.
LEMMA NextPoolInv == PoolInv /\ [Next]_vars => PoolInv'
<1> SUFFICES ASSUME PoolInv, [Next]_vars PROVE PoolInv'
  OBVIOUS
<1>1. ASSUME NEW holder \in Holder, NEW page \in 0 .. MaxPages - 1, NEW read \in BOOLEAN,
             VisitPage(holder, page, read)
      PROVE  PoolInv'
  <2>1. page \in Nat
    BY BoundAssumption
  <2>2. VisitHit(holder, page, read) \/ VisitMiss(holder, page, read)
    BY <1>1 DEF VisitPage
  <2>3. QED
    BY <1>1, <2>1, <2>2, VisitHitKeeps, VisitMissKeeps
<1>2. QED
  BY <1>1, StutterKeeps, NewPageKeeps, WriteKeeps, DropKeeps, WriteDroppedKeeps, ExitKeeps,
     BootKeeps DEF Next

LEMMA PoolInvariance == Spec => []PoolInv
<1>1. QED
  BY InitPoolInv, NextPoolInv, PTL DEF Spec

-----------------------------------------------------------------------------
\* The types of the pool's state are kept by every operation.
THEOREM PoolTypeCorrect == Spec => []TypeOK
<1>1. PoolInv => TypeOK
  BY DEF PoolInv
<1>2. QED
  BY <1>1, PoolInvariance, PTL

\* No page moves while somebody has a guard on it or uses the pointer of a
\* guard just dropped (VisitPage, EvictFrame, ~PageGuard).
THEOREM NoPageMovesUnderItsUser == Spec => []GuardsStayPut
<1>1. PoolInv => GuardsStayPut
  BY DEF PoolInv
<1>2. QED
  BY <1>1, PoolInvariance, PTL

\* The pins of a frame are the guards on it, and as long as a guard is to be
\* had there is a frame for it (Pin, Unpin, EvictFrame).
THEOREM EveryPinIsAGuard == Spec => []PinsAreGuards
<1>1. PoolInv => PinsAreGuards
  <2> SUFFICES ASSUME PoolInv, DOMAIN guards # Holder, Unpinned = {} PROVE FALSE
    BY DEF PoolInv, GuardsArePins, PinsAreGuards
  <2>1. DOMAIN guards \in SUBSET Holder
    BY DEF PoolInv, TypeOK, IsIndex
  <2>2. /\ IsFiniteSet(DOMAIN guards)
        /\ Cardinality(DOMAIN guards) <= Cardinality(Holder)
        /\ Cardinality(DOMAIN guards) # Cardinality(Holder)
    BY <2>1, PoolAssumption, FS_Subset
  <2>3. Cardinality(DOMAIN guards) \in Nat /\ Cardinality(Holder) \in Nat
    BY <2>2, PoolAssumption, FS_CardinalityType
  <2>4. IsFiniteSet(Frame) /\ Cardinality(Frame) = CacheSize
    BY PoolAssumption, FS_Interval DEF Frame
  <2>5. Cardinality(DOMAIN guards) < Cardinality(Frame)
    BY <2>2, <2>3, <2>4, PoolAssumption
  <2>6. \A f \in Frame : \E h \in DOMAIN guards : guards[h].frame = f
    <3> TAKE f \in Frame
    <3>1. Cardinality(HoldersOf(f)) # 0
      BY DEF Unpinned, PoolInv, GuardsArePins
    <3>2. HoldersOf(f) # {}
      BY <3>1, FS_EmptySet
    <3>3. QED
      BY <3>2 DEF HoldersOf
  <2> DEFINE holderOf == [f \in Frame |-> CHOOSE h \in DOMAIN guards : guards[h].frame = f]
  <2>7. /\ holderOf \in [Frame -> DOMAIN guards]
        /\ \A f \in Frame : guards[holderOf[f]].frame = f
    BY <2>6
  <2> HIDE DEF holderOf
  <2>8. \E f, g \in Frame : f # g /\ holderOf[f] = holderOf[g]
    BY <2>2, <2>4, <2>5, <2>7, FS_PigeonHole
  <2>9. QED
    BY <2>7, <2>8
<1>2. QED
  BY <1>1, PoolInvariance, PTL

-----------------------------------------------------------------------------
\* The pool is a PageStore: seen through PageContent, a visit and its eviction
\* change nothing, and neither does the end of the program.

\* The store's indexes are the pool's.
LEMMA StoreIndexes ==
  /\ Store!EmptyIndex = EmptyIndex
  /\ \A index, key, value : Store!IndexInsert(index, key, value) = IndexInsert(index, key, value)
  /\ \A index, key : Store!IndexRemove(index, key) = IndexRemove(index, key)
BY DEF Store!EmptyIndex, EmptyIndex, Store!IndexInsert, IndexInsert, Store!IndexRemove,
       IndexRemove

LEMMA InitOfStore == Init => Store!Init
<1> SUFFICES ASSUME Init PROVE Store!Init
  OBVIOUS
<1>1. DOMAIN data_file = {} /\ DOMAIN guards = {} /\ dropped = Nobody
  BY DEF Init, EmptyIndex, IsIndex
<1>2. StoredPages = EmptyIndex /\ AccessNow = EmptyIndex
  BY <1>1 DEF StoredPages, AccessNow, EmptyIndex
<1>3. QED
  BY <1>1, <1>2, StoreIndexes DEF Store!Init, LastAccess

LEMMA SamePages ==
  ASSUME DOMAIN data_file' = DOMAIN data_file,
         \A p \in DOMAIN data_file : PageContent(p)' = PageContent(p)
  PROVE  StoredPages' = StoredPages
BY DEF StoredPages

LEMMA SameAccess ==
  ASSUME UNCHANGED <<guards, dropped>>
  PROVE  UNCHANGED <<AccessNow, LastAccess>>
BY DEF AccessNow, AccessOf, LastAccess

LEMMA NewPageOfStore ==
  ASSUME PoolInv, NewPage
  PROVE  Store!NewPage
<1>1. /\ next_page \in Nat
      /\ DOMAIN data_file = 0 .. next_page - 1
      /\ next_page \notin DOMAIN page_table
  BY DEF NewPage, PoolInv, TypeOK, PagesAreNumbered, TableInFile
<1>2. /\ DOMAIN data_file' = DOMAIN data_file \cup {next_page}
      /\ \A p \in DOMAIN data_file' :
           data_file'[p] = IF p = next_page THEN Zero ELSE data_file[p]
      /\ UNCHANGED <<cache, page_table, guards, dropped>>
  BY DEF NewPage
<1>3. next_page \notin DOMAIN data_file
  BY <1>1
<1>4. \A p \in DOMAIN data_file : PageContent(p)' = PageContent(p)
  BY <1>2, <1>3 DEF PageContent
<1>5. PageContent(next_page) = data_file[next_page]
  BY <1>1 DEF PageContent
<1>6. StoredPages' = IndexInsert(StoredPages, next_page, Zero)
  <2>1. \A p \in DOMAIN data_file' :
          (IF p \in DOMAIN page_table' THEN cache'[page_table'[p]] ELSE data_file'[p]) =
             IF p = next_page THEN Zero ELSE PageContent(p)
    BY <1>1, <1>2, <1>3 DEF PageContent
  <2>2. StoredPages' = [p \in DOMAIN data_file' |->
                          IF p = next_page THEN Zero ELSE PageContent(p)]
    BY <2>1 DEF StoredPages, PageContent
  <2>3. QED
    BY <1>2, <1>3, <2>2 DEF StoredPages, IndexInsert
<1>7. next_page \in DOMAIN StoredPages' \ DOMAIN StoredPages
  BY <1>2, <1>3 DEF StoredPages
<1>8. QED
  BY <1>1, <1>2, <1>6, <1>7, SameAccess, StoreIndexes DEF Store!NewPage

\* A visit leaves every page as it was seen.
LEMMA VisitSeesSamePages ==
  ASSUME PoolInv, NEW holder \in Holder, NEW page \in Nat, NEW read \in BOOLEAN,
         VisitPage(holder, page, read)
  PROVE  StoredPages' = StoredPages
<1>1. CASE VisitHit(holder, page, read)
  BY <1>1 DEF VisitHit, StoredPages, PageContent
<1>2. CASE VisitMiss(holder, page, read)
  <2> PICK f \in Frame, old \in Int : TakesOver(f, old, holder, page, read)
    BY <1>2, VisitMissFacts
  <2>1. /\ \A p \in DOMAIN page_table : page_table[p] = f <=> p = old
        /\ old # INVALID_PAGE_ID => old \in DOMAIN page_table
        /\ page # old
        /\ DOMAIN page_table' = (DOMAIN page_table \ {old}) \cup {page}
        /\ page_table'[page] = f
        /\ \A p \in DOMAIN page_table \ {old} : page_table'[p] = page_table[p]
        /\ DOMAIN data_file' = DOMAIN data_file
        /\ \A p \in DOMAIN data_file \ {old} : data_file'[p] = data_file[p]
        /\ old # INVALID_PAGE_ID => data_file'[old] = cache[page_table[old]]
        /\ cache'[f] = data_file[page]
        /\ \A g \in Frame \ {f} : cache'[g] = cache[g]
    BY DEF TakesOver
  <2>2. page \notin DOMAIN page_table
    BY <1>2 DEF VisitMiss
  <2>3. ASSUME NEW p \in DOMAIN data_file PROVE PageContent(p)' = PageContent(p)
    <3>1. PageContent(p)' = IF p \in DOMAIN page_table' THEN cache'[page_table'[p]]
                            ELSE data_file'[p]
      BY DEF PageContent
    <3>2. CASE p = page
      BY <2>1, <2>2, <3>1, <3>2 DEF PageContent
    <3>3. CASE p = old
      <4>1. old \in DOMAIN page_table
        BY <2>1, <3>3 DEF PoolInv, TypeOK, IsIndex, INVALID_PAGE_ID
      <4>2. old # INVALID_PAGE_ID
        BY <4>1 DEF PoolInv, TypeOK, IsIndex, INVALID_PAGE_ID
      <4>3. QED
        BY <2>1, <3>1, <3>3, <4>1, <4>2 DEF PageContent
    <3>4. CASE p # page /\ p # old /\ p \in DOMAIN page_table
      <4>1. page_table[p] \in Frame \ {f}
        BY <2>1, <3>4 DEF PoolInv, TypeOK, IsIndex
      <4>2. QED
        BY <2>1, <3>1, <3>4, <4>1 DEF PageContent
    <3>5. CASE p # page /\ p # old /\ p \notin DOMAIN page_table
      BY <2>1, <3>1, <3>5 DEF PageContent
    <3>6. QED
      BY <3>2, <3>3, <3>4, <3>5
  <2>4. QED
    BY <2>1, <2>3, SamePages
<1>3. QED
  BY <1>1, <1>2 DEF VisitPage

LEMMA VisitOfStore ==
  ASSUME PoolInv, NEW holder \in Holder, NEW page \in Nat, NEW read \in BOOLEAN,
         VisitPage(holder, page, read)
  PROVE  Store!Visit
<1>1. /\ holder \in Holder \ DOMAIN AccessNow
      /\ page \in DOMAIN StoredPages
      /\ dropped' = Nobody
  BY DEF VisitPage, AccessNow, StoredPages
<1>2. \E f : guards' = IndexInsert(guards, holder, [page |-> page, frame |-> f, read |-> read])
  BY DEF VisitPage, VisitHit, VisitMiss
<1>3. PICK f : guards' = IndexInsert(guards, holder, [page |-> page, frame |-> f, read |-> read])
  BY <1>2
<1>4. holder \notin DOMAIN guards
  BY DEF VisitPage
<1>5. AccessNow' = IndexInsert(AccessNow, holder, [page |-> page, read |-> read])
  <2> DEFINE guard == [page |-> page, frame |-> f, read |-> read]
  <2>1. AccessOf(guard) = [page |-> page, read |-> read]
    BY DEF AccessOf
  <2> HIDE DEF guard
  <2>2. guards' = [h \in DOMAIN guards \cup {holder} |-> IF h = holder THEN guard ELSE guards[h]]
    BY <1>3, <1>4 DEF IndexInsert, guard
  <2>3. AccessNow' = [h \in DOMAIN guards \cup {holder} |->
                        IF h = holder THEN AccessOf(guard) ELSE AccessOf(guards[h])]
    BY <2>2 DEF AccessNow, AccessOf
  <2>4. QED
    BY <1>4, <2>1, <2>3 DEF AccessNow, IndexInsert
<1>6. LastAccess' = Nobody
  BY <1>1 DEF LastAccess
<1>7. StoredPages' = StoredPages
  BY VisitSeesSamePages
<1>8. QED
  BY <1>1, <1>5, <1>6, <1>7, StoreIndexes DEF Store!Visit

\* A write to the frame of a page is a write to the page, and to no other.
LEMMA WriteOnPages ==
  ASSUME PoolInv, NEW page \in DOMAIN page_table, NEW f \in Frame, f = page_table[page],
         NEW content \in Content, cache' = [cache EXCEPT ![f] = content],
         UNCHANGED <<data_file, page_table>>
  PROVE  StoredPages' = [StoredPages EXCEPT ![page] = content]
<1>1. cache \in [Frame -> Content] /\ page_table \in [DOMAIN page_table -> Frame]
  BY DEF PoolInv, TypeOK, IsIndex
<1>2. cache'[f] = content /\ \A g \in Frame \ {f} : cache'[g] = cache[g]
  BY <1>1
<1>3. \A p \in DOMAIN page_table : p # page => page_table[p] # f
  BY OnePagePerFrame
<1>4. \A p \in DOMAIN data_file :
        (IF p \in DOMAIN page_table' THEN cache'[page_table'[p]] ELSE data_file'[p]) =
          IF p = page THEN content ELSE PageContent(p)
  BY <1>1, <1>2, <1>3 DEF PageContent
<1>5. StoredPages' = [p \in DOMAIN data_file |-> IF p = page THEN content ELSE PageContent(p)]
  BY <1>4 DEF StoredPages, PageContent
<1>6. QED
  BY <1>5 DEF StoredPages

LEMMA WriteOfStore ==
  ASSUME PoolInv, NEW h \in Holder, NEW content \in Content, Write(h, content)
  PROVE  Store!Write
<1>1. h \in DOMAIN guards /\ ~guards[h].read /\ UNCHANGED <<guards, dropped>>
  BY DEF Write
<1> PICK page \in Nat, f \in Frame : page = guards[h].page /\ f = guards[h].frame
  BY <1>1, GuardFacts
<1>2. page \in DOMAIN page_table /\ page_table[page] = f
  BY <1>1, GuardFacts
<1>3. StoredPages' = [StoredPages EXCEPT ![page] = content]
  BY <1>2, WriteOnPages DEF Write
<1>4. h \in DOMAIN AccessNow /\ AccessNow[h].page = page /\ ~AccessNow[h].read
  BY <1>1 DEF AccessNow, AccessOf
<1>5. UNCHANGED <<AccessNow, LastAccess>>
  BY <1>1, SameAccess
<1>6. QED
  BY <1>3, <1>4, <1>5 DEF Store!Write

LEMMA WriteDroppedOfStore ==
  ASSUME PoolInv, NEW content \in Content, WriteDropped(content)
  PROVE  Store!WriteDropped
<1>1. dropped # Nobody /\ UNCHANGED <<guards, dropped>>
  BY DEF WriteDropped
<1>2. dropped \in PageGuard
  BY <1>1, DroppedFacts
<1> PICK page \in Nat, f \in Frame : page = dropped.page /\ f = dropped.frame
  BY <1>2 DEF PageGuard
<1>3. page \in DOMAIN page_table /\ page_table[page] = f
  BY <1>1, DroppedFacts
<1>4. StoredPages' = [StoredPages EXCEPT ![page] = content]
  BY <1>3, WriteOnPages DEF WriteDropped
<1>5. LastAccess = AccessOf(dropped)
  BY <1>1 DEF LastAccess
<1>6. AccessOf(dropped) \in Access /\ AccessOf(dropped).page = page
  BY <1>2 DEF AccessOf, Access, PageGuard
<1>7. LastAccess # Nobody /\ LastAccess.page = page
  BY <1>5, <1>6, NobodyAssumption
<1>8. UNCHANGED <<AccessNow, LastAccess>>
  BY <1>1, SameAccess
<1>9. QED
  BY <1>4, <1>7, <1>8 DEF Store!WriteDropped

LEMMA DropOfStore ==
  ASSUME PoolInv, NEW h \in Holder, Drop(h)
  PROVE  Store!Drop
<1>1. /\ h \in DOMAIN guards
      /\ guards' = IndexRemove(guards, h)
      /\ dropped' = IF guards[h].read THEN dropped ELSE guards[h]
      /\ UNCHANGED <<data_file, cache, page_table>>
  BY DEF Drop
<1>2. guards[h] \in PageGuard
  BY <1>1, GuardFacts
<1>3. AccessNow' = IndexRemove(AccessNow, h)
  BY <1>1 DEF AccessNow, AccessOf, IndexRemove
<1>4. h \in DOMAIN AccessNow /\ AccessNow[h] = AccessOf(guards[h])
  BY <1>1 DEF AccessNow
<1>5. AccessNow[h].read = guards[h].read
  BY <1>4 DEF AccessOf
<1>6. LastAccess' = IF AccessNow[h].read THEN LastAccess ELSE AccessNow[h]
  <2>1. CASE guards[h].read
    BY <1>1, <1>5, <2>1 DEF LastAccess, AccessOf
  <2>2. CASE ~guards[h].read
    <3>1. dropped' = guards[h] /\ dropped' # Nobody
      BY <1>1, <1>2, <2>2, NobodyAssumption
    <3>2. LastAccess' = AccessOf(guards[h])
      BY <3>1 DEF LastAccess, AccessOf
    <3>3. QED
      BY <1>4, <1>5, <2>2, <3>2
  <2>3. QED
    BY <2>1, <2>2
<1>7. StoredPages' = StoredPages
  BY <1>1 DEF StoredPages, PageContent
<1>8. QED
  BY <1>3, <1>4, <1>6, <1>7, StoreIndexes DEF Store!Drop

\* The end of a run writes what is cached back to the file.
LEMMA ExitOfStore ==
  ASSUME PoolInv, Exit
  PROVE  Store!Restart
<1>1. DOMAIN page_table' = {} /\ guards = EmptyIndex /\ guards' = guards /\ dropped' = Nobody
  BY DEF Exit, EmptyIndex, IsIndex
<1>2. DOMAIN data_file' = DOMAIN data_file
  BY DEF Exit
<1>3. \A p \in DOMAIN data_file : data_file'[p] = PageContent(p)
  BY DEF Exit, PageContent
<1>4. \A p \in DOMAIN data_file : PageContent(p)' = PageContent(p)
  <2> TAKE p \in DOMAIN data_file
  <2>1. PageContent(p)' = data_file'[p]
    BY <1>1 DEF PageContent
  <2>2. QED
    BY <1>3, <2>1
<1>5. StoredPages' = StoredPages
  BY <1>2, <1>4, SamePages
<1>6. AccessNow = EmptyIndex /\ AccessNow' = AccessNow
  BY <1>1 DEF AccessNow, EmptyIndex, IsIndex
<1>7. QED
  BY <1>1, <1>5, <1>6, StoreIndexes DEF Store!Restart, LastAccess

LEMMA StepOfStore ==
  ASSUME PoolInv, [Next]_vars
  PROVE  [Store!Next]_<<StoredPages, AccessNow, LastAccess>>
<1>1. ASSUME UNCHANGED vars \/ Boot
      PROVE  UNCHANGED <<StoredPages, AccessNow, LastAccess>>
  BY <1>1 DEF vars, Boot, StoredPages, PageContent, AccessNow, AccessOf, LastAccess
<1>2. ASSUME NEW holder \in Holder, NEW page \in 0 .. MaxPages - 1, NEW read \in BOOLEAN,
             VisitPage(holder, page, read)
      PROVE  Store!Visit
  <2>1. page \in Nat
    BY BoundAssumption
  <2>2. QED
    BY <1>2, <2>1, VisitOfStore
<1>3. QED
  BY <1>1, <1>2, NewPageOfStore, WriteOfStore, WriteDroppedOfStore, DropOfStore, ExitOfStore
     DEF Next, Store!Next

\* Caching, eviction, write-back and restarts lose no write, bring no old
\* content back and give no page number twice: every run of the pool is a run
\* of a store of pages (BufferPoolManager, FrameManager and DiskManager).
THEOREM PoolIsAPageStore == Spec => ImplementsPageStore
<1>1. Init => Store!Init
  BY InitOfStore
<1>2. PoolInv /\ [Next]_vars => [Store!Next]_<<StoredPages, AccessNow, LastAccess>>
  BY StepOfStore
<1>3. QED
  BY <1>1, <1>2, PoolInvariance, PTL DEF Spec, ImplementsPageStore, Store!Spec

-----------------------------------------------------------------------------
\* While the program runs, a page gets into the table only when it is not
\* there, after the page that gives up its frame has left, and with room for
\* it: what MyHashMap needs of VisitPage so that an insert finds a slot and a
\* find the page (Insert of module PageTable has these as its guards, with
\* CacheSize for MaxLive).
TableIsUsedRightly ==
  up' /\ page_table' # page_table =>
    \E page \in Nat, f \in Frame, old \in Int :
      /\ page_table' = IndexInsert(IndexRemove(page_table, old), page, f)
      /\ page \notin DOMAIN IndexRemove(page_table, old)
      /\ Cardinality(DOMAIN IndexRemove(page_table, old)) < CacheSize

\* An index whose values are pairwise different and in a finite set has no more
\* keys than the set has elements.
LEMMA KeysWithinValues ==
  ASSUME NEW index, NEW Values, IsFiniteSet(Values),
         index \in [DOMAIN index -> Values],
         \A p, q \in DOMAIN index : index[p] = index[q] => p = q
  PROVE  IsFiniteSet(DOMAIN index) /\ Cardinality(DOMAIN index) <= Cardinality(Values)
<1>1. index \in Injection(DOMAIN index, Values)
  BY DEF Injection, IsInjective
<1>2. QED
  BY <1>1, FS_Injection

\* The frames, and all of them but one.
LEMMA FramesFinite ==
  ASSUME NEW f \in Frame
  PROVE  /\ IsFiniteSet(Frame) /\ Cardinality(Frame) = CacheSize
         /\ IsFiniteSet(Frame \ {f}) /\ Cardinality(Frame \ {f}) = CacheSize - 1
<1>1. CacheSize \in Nat \ {0}
  BY PoolAssumption
<1>2. IsFiniteSet(Frame) /\ Cardinality(Frame) = CacheSize
  BY <1>1, FS_Interval DEF Frame
<1>3. QED
  BY <1>2, FS_RemoveElement

\* A miss puts a new page into the table, and the victim's page out of it.
LEMMA MissUsesTableRightly ==
  ASSUME PoolInv, NEW holder \in Holder, NEW page \in Nat, NEW read \in BOOLEAN,
         VisitPage(holder, page, read), VisitMiss(holder, page, read)
  PROVE  TableIsUsedRightly
<1>1. PICK f \in Frame :
        page_table' = IndexInsert(IndexRemove(page_table, frame_info[f].page_in), page, f)
  BY DEF VisitMiss
<1>2. frame_info[f] \in FrameHeader /\ IsIndex(page_table, Nat, Frame)
  BY DEF PoolInv, TypeOK
<1>3. PICK old \in Int : old = frame_info[f].page_in
  BY <1>2 DEF FrameHeader
<1> PICK rest : rest = IndexRemove(page_table, old)
  OBVIOUS
<1>4. DOMAIN rest = DOMAIN page_table \ {old}
  BY DEF IndexRemove
<1>5. \A p \in DOMAIN rest : rest[p] = page_table[p]
  BY <1>4 DEF IndexRemove
<1>6. page \notin DOMAIN rest
  BY <1>4 DEF VisitMiss
<1>7. rest \in [DOMAIN rest -> Frame]
  BY <1>2 DEF IsIndex, IndexRemove
<1>8. \A p \in DOMAIN rest : rest[p] # f
  BY <1>3, <1>4, <1>5 DEF PoolInv, TableMatchesFrames
<1>9. rest \in [DOMAIN rest -> Frame \ {f}]
  BY <1>7, <1>8
<1>10. \A p, q \in DOMAIN rest : rest[p] = rest[q] => p = q
  BY <1>4, <1>5, OnePagePerFrame
<1>11. /\ IsFiniteSet(DOMAIN rest)
       /\ Cardinality(DOMAIN rest) <= Cardinality(Frame \ {f})
  BY <1>9, <1>10, FramesFinite, KeysWithinValues
<1>12. Cardinality(DOMAIN rest) \in Nat /\ CacheSize \in Nat
  BY <1>11, FS_CardinalityType, PoolAssumption
<1>13. Cardinality(DOMAIN rest) < CacheSize
  <2>1. PICK live \in Nat : live = Cardinality(DOMAIN rest)
    BY <1>12
  <2>2. Cardinality(Frame \ {f}) = CacheSize - 1
    BY FramesFinite
  <2>3. live <= CacheSize - 1
    BY <1>11, <2>1, <2>2
  <2>4. live < CacheSize
    BY <1>12, <2>3
  <2>5. QED
    BY <2>1, <2>4
<1>14. page_table' = IndexInsert(IndexRemove(page_table, old), page, f)
  BY <1>1, <1>3
<1>15. QED
  BY <1>6, <1>13, <1>14 DEF TableIsUsedRightly

\* The pool keeps the promises that its hash map counts on.
THEOREM PoolUsesItsTable == Spec => [][TableIsUsedRightly]_vars
<1>1. PoolInv /\ [Next]_vars => [TableIsUsedRightly]_vars
  <2> SUFFICES ASSUME PoolInv, Next PROVE TableIsUsedRightly
    OBVIOUS
  <2>1. CASE UNCHANGED page_table
    BY <2>1 DEF TableIsUsedRightly
  <2>2. CASE ~up'
    BY <2>2 DEF TableIsUsedRightly
  <2>3. CASE \E holder \in Holder, page \in 0 .. MaxPages - 1, read \in BOOLEAN :
               VisitPage(holder, page, read)
    <3> PICK holder \in Holder, page \in 0 .. MaxPages - 1, read \in BOOLEAN :
          VisitPage(holder, page, read)
      BY <2>3
    <3>1. page \in Nat
      BY BoundAssumption
    <3>2. CASE VisitHit(holder, page, read)
      BY <2>1, <3>2 DEF VisitHit
    <3>3. CASE VisitMiss(holder, page, read)
      BY <3>1, <3>3, MissUsesTableRightly
    <3>4. QED
      BY <3>2, <3>3 DEF VisitPage
  <2>4. QED
    BY <2>1, <2>2, <2>3 DEF Next, NewPage, Write, Drop, WriteDropped, Exit, Boot
<1>2. Init => PoolInv
  BY InitPoolInv
<1>3. PoolInv /\ [Next]_vars => PoolInv'
  BY NextPoolInv
<1>4. QED
  BY <1>1, <1>2, <1>3, PTL DEF Spec
=============================================================================
