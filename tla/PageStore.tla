----------------------------- MODULE PageStore -----------------------------
(***************************************************************************)
(* What bpt::BufferPoolManager promises the index above it: pages numbered *)
(* from 0 that are zero when they are new and keep what was written to     *)
(* them last, in this run of the program and in the next.  Visiting a page *)
(* and giving up a guard change no page, only a write does, through a      *)
(* guard that was taken for writing.                                       *)
(***************************************************************************)
EXTENDS Integers, Index

CONSTANTS Holder, Content, Zero, Nobody

VARIABLES
  pages,   \* page number -> content
  access,  \* holder -> the page it has a guard on, and whether only to read
  last     \* the page of a write guard just dropped, [page, read], or Nobody

Init == pages = EmptyIndex /\ access = EmptyIndex /\ last = Nobody

NewPage ==
  /\ \E p \in DOMAIN pages' \ DOMAIN pages :
       p \in Nat /\ pages' = IndexInsert(pages, p, Zero)
  /\ UNCHANGED <<access, last>>

Visit ==
  /\ \E holder \in Holder \ DOMAIN access, page \in DOMAIN pages, read \in BOOLEAN :
       access' = IndexInsert(access, holder, [page |-> page, read |-> read])
  /\ last' = Nobody
  /\ UNCHANGED pages

Drop ==
  /\ \E holder \in DOMAIN access :
       /\ access' = IndexRemove(access, holder)
       /\ last' = IF access[holder].read THEN last ELSE access[holder]
  /\ UNCHANGED pages

Write ==
  /\ \E holder \in DOMAIN access, content \in Content :
       /\ ~access[holder].read
       /\ pages' = [pages EXCEPT ![access[holder].page] = content]
  /\ UNCHANGED <<access, last>>

WriteDropped ==
  /\ last # Nobody
  /\ \E content \in Content : pages' = [pages EXCEPT ![last.page] = content]
  /\ UNCHANGED <<access, last>>

\* The end of a run of the program, between two commands.
Restart ==
  /\ access = EmptyIndex
  /\ last' = Nobody
  /\ UNCHANGED <<pages, access>>

Next == NewPage \/ Visit \/ Drop \/ Write \/ WriteDropped \/ Restart

Spec == Init /\ [][Next]_<<pages, access, last>>
=============================================================================
