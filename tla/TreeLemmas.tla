----------------------------- MODULE TreeLemmas -----------------------------
(***************************************************************************)
(* Facts about the pages of BPlusTree and about whole trees of them, for   *)
(* any keys, values and page sizes: where the searches turn, and what      *)
(* splits, merges and loans make of the keys that a page stands for.       *)
(***************************************************************************)
EXTENDS TreeProperties, FiniteSetTheorems, SequenceTheorems, WellFoundedInduction, TLAPS

-----------------------------------------------------------------------------
\* Numbers and sequences.

\* Every set of natural numbers that is not empty has a least element.
LEMMA LeastNumber ==
  ASSUME NEW S, S \subseteq Nat, S # {}
  PROVE  \E n \in S : \A m \in S : n <= m
<1>1. PICK n \in S : \A m \in S : ~ (<<m, n>> \in OpToRel(<, Nat))
  BY WFMin, NatLessThanWellFounded, Zenon
<1>2. \A m \in S : ~ (m < n)
  BY <1>1 DEF OpToRel
<1>3. QED
  BY <1>2

\* A set of positions that holds with each one those before it is the set of
\* the first so many.
LEMMA InitialSegment ==
  ASSUME NEW n \in Nat, NEW T \in SUBSET (1 .. n),
         \A i \in T, j \in 1 .. n : j <= i => j \in T
  PROVE  Cardinality(T) \in 0 .. n /\ T = 1 .. Cardinality(T)
<1> DEFINE Out == {i \in 1 .. n + 1 : i \notin T}
<1>1. n + 1 \in Out
  OBVIOUS
<1>2. PICK m \in Out : \A i \in Out : m <= i
  <2>1. Out \subseteq Nat /\ Out # {}
    BY <1>1
  <2> HIDE DEF Out
  <2>2. QED
    BY <2>1, LeastNumber
<1>3. T = 1 .. m - 1
  <2>1. ASSUME NEW i \in T PROVE i \in 1 .. m - 1
    <3>1. m \notin T /\ m \in 1 .. n + 1
      BY <1>2
    <3>2. ~ (m <= i)
      BY <3>1
    <3>3. QED
      BY <3>1, <3>2
  <2>2. ASSUME NEW i \in 1 .. m - 1 PROVE i \in T
    BY <1>2
  <2>3. QED
    BY <2>1, <2>2
<1>4. m - 1 \in Nat /\ m - 1 <= n
  BY <1>2
<1>5. Cardinality(1 .. m - 1) = m - 1
  BY <1>4, FS_Interval
<1>6. QED
  BY <1>3, <1>4, <1>5

\* What InsertAt, RemoveAt and the like give, element by element.
LEMMA SubSeqFacts ==
  ASSUME NEW S, NEW s \in Seq(S), NEW m \in 1 .. Len(s) + 1, NEW n \in 0 .. Len(s), m <= n + 1
  PROVE  /\ SubSeq(s, m, n) \in Seq(S)
         /\ Len(SubSeq(s, m, n)) = n - m + 1
         /\ \A j \in 1 .. n - m + 1 : SubSeq(s, m, n)[j] = s[m + j - 1]
<1>1. \A j \in m .. n : s[j] \in S
  OBVIOUS
<1>2. QED
  BY <1>1, SubSeqProperties

\* What a concatenation is, place by place.
LEMMA ConcatFacts ==
  ASSUME NEW S, NEW s \in Seq(S), NEW t \in Seq(S)
  PROVE  /\ s \o t \in Seq(S)
         /\ Len(s \o t) = Len(s) + Len(t)
         /\ \A j \in 1 .. Len(s) : (s \o t)[j] = s[j]
         /\ \A j \in 1 .. Len(t) : (s \o t)[Len(s) + j] = t[j]
BY ConcatProperties

\* What a sequence is, place by place, when an element is put in ...
LEMMA InsertAtFacts ==
  ASSUME NEW S, NEW s \in Seq(S), NEW i \in 1 .. Len(s) + 1, NEW e \in S
  PROVE  /\ InsertAt(s, i, e) \in Seq(S)
         /\ Len(InsertAt(s, i, e)) = Len(s) + 1
         /\ \A j \in 1 .. Len(s) : j < i => InsertAt(s, i, e)[j] = s[j]
         /\ InsertAt(s, i, e)[i] = e
         /\ \A j \in 1 .. Len(s) : i <= j => InsertAt(s, i, e)[j + 1] = s[j]
<1> DEFINE a == SubSeq(s, 1, i - 1)
           b == a \o <<e>>
           c == SubSeq(s, i, Len(s))
<1>1. /\ a \in Seq(S) /\ Len(a) = i - 1
      /\ \A j \in 1 .. i - 1 : a[j] = s[j]
  BY SubSeqFacts
<1>2. /\ c \in Seq(S) /\ Len(c) = Len(s) - i + 1
      /\ \A j \in 1 .. Len(s) - i + 1 : c[j] = s[i + j - 1]
  BY SubSeqFacts
<1>3. <<e>> \in Seq(S) /\ Len(<<e>>) = 1 /\ <<e>>[1] = e
  OBVIOUS
<1> HIDE DEF a, c
<1>4. /\ b \in Seq(S) /\ Len(b) = i
      /\ \A j \in 1 .. i - 1 : b[j] = s[j]
      /\ b[i] = e
  BY <1>1, <1>3, ConcatProperties
<1> HIDE DEF b
<1>5. /\ b \o c \in Seq(S) /\ Len(b \o c) = Len(s) + 1
      /\ \A j \in 1 .. Len(s) + 1 : (b \o c)[j] = IF j <= i THEN b[j] ELSE c[j - i]
  <2>1. /\ b \o c \in Seq(S) /\ Len(b \o c) = Len(b) + Len(c)
        /\ \A j \in 1 .. Len(b) + Len(c) :
             (b \o c)[j] = IF j <= Len(b) THEN b[j] ELSE c[j - Len(b)]
    BY <1>2, <1>4, ConcatProperties
  <2>2. Len(b) = i /\ Len(b) + Len(c) = Len(s) + 1
    BY <1>2, <1>4
  <2>3. QED
    BY <2>1, <2>2
<1>6. InsertAt(s, i, e) = b \o c
  BY DEF InsertAt, a, b, c
<1>7. PICK u : u = b \o c
  OBVIOUS
<1>8. \A j \in 1 .. Len(s) + 1 : u[j] = IF j <= i THEN b[j] ELSE c[j - i]
  BY <1>5, <1>7, Zenon
<1>9. ASSUME NEW j \in 1 .. Len(s), j < i PROVE u[j] = s[j]
  <2>1. u[j] = b[j]
    BY <1>8, <1>9
  <2>2. QED
    BY <1>4, <1>9, <2>1
<1>10. u[i] = e
  BY <1>4, <1>8
<1>11. ASSUME NEW j \in 1 .. Len(s), i <= j PROVE u[j + 1] = s[j]
  <2>1. u[j + 1] = c[j + 1 - i]
    BY <1>8, <1>11
  <2>2. PICK d \in 1 .. Len(s) - i + 1 : d = j + 1 - i
    BY <1>11
  <2>3. c[d] = s[i + d - 1] /\ i + d - 1 = j
    BY <1>2, <2>2
  <2>4. QED
    BY <2>1, <2>2, <2>3
<1>12. QED
  BY <1>5, <1>6, <1>7, <1>9, <1>10, <1>11

\* ... and when one is taken out.
LEMMA RemoveAtFacts ==
  ASSUME NEW S, NEW s \in Seq(S), NEW i \in 1 .. Len(s)
  PROVE  /\ RemoveAt(s, i) \in Seq(S)
         /\ Len(RemoveAt(s, i)) = Len(s) - 1
         /\ \A j \in 1 .. Len(s) - 1 :
              RemoveAt(s, i)[j] = IF j < i THEN s[j] ELSE s[j + 1]
<1> DEFINE a == SubSeq(s, 1, i - 1)
           c == SubSeq(s, i + 1, Len(s))
<1>1. /\ a \in Seq(S) /\ Len(a) = i - 1
      /\ \A j \in 1 .. i - 1 : a[j] = s[j]
  BY SubSeqFacts
<1>2. /\ c \in Seq(S) /\ Len(c) = Len(s) - i
      /\ \A j \in 1 .. Len(s) - i : c[j] = s[i + j]
  BY SubSeqFacts
<1> HIDE DEF a, c
<1>3. PICK u : u = a \o c
  OBVIOUS
<1>4. RemoveAt(s, i) = u
  BY <1>3 DEF RemoveAt, a, c
<1>5. u \in Seq(S) /\ Len(u) = Len(s) - 1
  BY <1>1, <1>2, <1>3, ConcatProperties
<1>6. \A j \in 1 .. Len(a) + Len(c) : u[j] = IF j <= Len(a) THEN a[j] ELSE c[j - Len(a)]
  BY <1>1, <1>2, <1>3, ConcatProperties
<1>7. ASSUME NEW j \in 1 .. Len(s) - 1
      PROVE  u[j] = IF j < i THEN s[j] ELSE s[j + 1]
  <2>1. CASE j < i
    <3>1. j \in 1 .. Len(a) + Len(c) /\ j <= Len(a) /\ j \in 1 .. i - 1
      BY <1>1, <1>2, <2>1
    <3>2. u[j] = a[j]
      BY <1>6, <3>1
    <3>3. a[j] = s[j]
      BY <1>1, <3>1
    <3>4. QED
      BY <2>1, <3>2, <3>3
  <2>2. CASE ~(j < i)
    <3>1. j \in 1 .. Len(a) + Len(c) /\ ~(j <= Len(a))
      BY <1>1, <1>2, <2>2
    <3>2. PICK d \in 1 .. Len(s) - i : d = j - Len(a) /\ i + d = j + 1
      BY <1>1, <2>2
    <3>3. u[j] = c[d]
      BY <1>6, <3>1, <3>2
    <3>4. c[d] = s[i + d]
      BY <1>2
    <3>5. QED
      BY <2>2, <3>2, <3>3, <3>4
  <2>3. QED
    BY <2>1, <2>2
<1>8. QED
  BY <1>4, <1>5, <1>7

-----------------------------------------------------------------------------
\* Slots.  The keys of a page are in order, so that the binary searches of
\* KeyIndex and the counts of ChildSlot and EntrySlot agree.
Ascending(keys) ==
  keys \in Seq(Int) /\ \A i, j \in 1 .. Len(keys) : i <= j => keys[i] <= keys[j]

\* The slot for a key is after the keys that are not above it (KeyIndex).
LEMMA ChildSlotFacts ==
  ASSUME NEW page, Ascending(page.keys), NEW key \in Int
  PROVE  /\ ChildSlot(page, key) \in 1 .. Len(page.keys) + 1
         /\ \A i \in 1 .. Len(page.keys) : page.keys[i] <= key <=> i < ChildSlot(page, key)
<1> DEFINE T == {i \in DOMAIN page.keys : page.keys[i] <= key}
<1>1. DOMAIN page.keys = 1 .. Len(page.keys) /\ Len(page.keys) \in Nat
  BY DEF Ascending
<1>2. \A i \in 1 .. Len(page.keys) : page.keys[i] \in Int
  BY DEF Ascending
<1>3. T \in SUBSET (1 .. Len(page.keys))
  BY <1>1
<1>4. \A i \in T, j \in 1 .. Len(page.keys) : j <= i => j \in T
  BY <1>1, <1>2 DEF Ascending
<1>5. \A i \in 1 .. Len(page.keys) : i \in T <=> page.keys[i] <= key
  BY <1>1
<1>6. ChildSlot(page, key) = 1 + Cardinality(T)
  BY DEF ChildSlot
<1> HIDE DEF T
<1>7. Cardinality(T) \in 0 .. Len(page.keys) /\ T = 1 .. Cardinality(T)
  BY <1>1, <1>3, <1>4, InitialSegment
<1>8. QED
  BY <1>1, <1>5, <1>6, <1>7

\* ... and it is the only such slot.
LEMMA ChildSlotIs ==
  ASSUME NEW page, Ascending(page.keys), NEW key \in Int,
         NEW s \in 1 .. Len(page.keys) + 1,
         \A i \in 1 .. Len(page.keys) : i < s => page.keys[i] <= key,
         \A i \in 1 .. Len(page.keys) : s <= i => key < page.keys[i]
  PROVE  ChildSlot(page, key) = s
<1> PICK n \in Nat : n = Len(page.keys)
  BY DEF Ascending
<1>1. \A i \in 1 .. n : page.keys[i] \in Int
  BY DEF Ascending
<1> PICK t : t = ChildSlot(page, key)
  OBVIOUS
<1>2. t \in 1 .. n + 1 /\ \A i \in 1 .. n : page.keys[i] <= key <=> i < t
  BY ChildSlotFacts
<1>3. ~ (t < s)
  <2> SUFFICES ASSUME t < s PROVE FALSE
    OBVIOUS
  <2>1. t \in 1 .. n /\ page.keys[t] <= key
    BY <1>2
  <2>2. QED
    BY <1>2, <2>1
<1>4. ~ (s < t)
  <2> SUFFICES ASSUME s < t PROVE FALSE
    OBVIOUS
  <2>1. s \in 1 .. n /\ key < page.keys[s]
    BY <1>2
  <2>2. QED
    BY <1>1, <1>2, <2>1
<1>5. QED
  BY <1>2, <1>3, <1>4

\* The keys of entries are numbers.
LEMMA EntryFacts ==
  ASSUME NEW entries \in Seq(Key \X Value), NEW i \in 1 .. Len(entries)
  PROVE  entries[i] \in Key \X Value /\ entries[i][1] \in Key /\ entries[i][1] \in Int
<1>1. entries[i] \in Key \X Value
  OBVIOUS
<1>2. QED
  BY <1>1, SizeAssumption

\* The slot for a key in a leaf is after the entries below it.
LEMMA EntrySlotFacts ==
  ASSUME NEW page, page.entries \in Seq(Key \X Value), NEW key \in Int,
         \A i, j \in 1 .. Len(page.entries) : i < j => page.entries[i][1] < page.entries[j][1]
  PROVE  /\ EntrySlot(page, key) \in 1 .. Len(page.entries) + 1
         /\ \A i \in 1 .. Len(page.entries) :
              page.entries[i][1] < key <=> i < EntrySlot(page, key)
<1> DEFINE T == {i \in DOMAIN page.entries : page.entries[i][1] < key}
<1>1. DOMAIN page.entries = 1 .. Len(page.entries) /\ Len(page.entries) \in Nat
  OBVIOUS
<1>2. \A i \in 1 .. Len(page.entries) : page.entries[i][1] \in Int
  BY EntryFacts
<1>3. T \in SUBSET (1 .. Len(page.entries))
  BY <1>1
<1>4. ASSUME NEW i \in T, NEW j \in 1 .. Len(page.entries), j <= i
      PROVE  j \in T
  <2>1. i \in 1 .. Len(page.entries) /\ page.entries[i][1] < key
    BY <1>1
  <2>2. page.entries[j][1] <= page.entries[i][1]
    BY <1>2, <1>4, <2>1
  <2>3. page.entries[j][1] < key
    BY <1>2, <2>1, <2>2
  <2>4. QED
    BY <1>1, <2>3
<1>5. \A i \in 1 .. Len(page.entries) : i \in T <=> page.entries[i][1] < key
  BY <1>1
<1>6. EntrySlot(page, key) = 1 + Cardinality(T)
  BY DEF EntrySlot
<1> HIDE DEF T
<1>7. Cardinality(T) \in 0 .. Len(page.entries) /\ T = 1 .. Cardinality(T)
  BY <1>1, <1>3, <1>4, InitialSegment
<1>8. QED
  BY <1>1, <1>5, <1>6, <1>7

-----------------------------------------------------------------------------
\* Pages.  A page stands for a set F of numbers, the keys whose descent leads
\* through it; row[k] is the page that the descent for k meets on a level.

\* A leaf that stands for F holds entries of F in order.
LeafFits(page, F) ==
  /\ page.leaf = TRUE
  /\ page.entries \in Seq(Key \X Value)
  /\ \A i, j \in 1 .. Len(page.entries) : i < j => page.entries[i][1] < page.entries[j][1]
  /\ \A i \in 1 .. Len(page.entries) : page.entries[i][1] \in F

\* An internal page that stands for F sends each key of F to the page that row
\* below it has for the key; each of its children stands for one slot.
InnerFits(page, F, below) ==
  /\ page.leaf = FALSE
  /\ page.keys \in Seq(Key) /\ page.children \in Seq(Int)
  /\ Len(page.children) = Len(page.keys) + 1
  /\ Ascending(page.keys)
  /\ \A i \in 1 .. Len(page.keys) : page.keys[i] \in F
  /\ \A k \in F : below[k] = page.children[ChildSlot(page, k)]
  /\ \A i \in 1 .. Len(page.children) : \E k \in F : ChildSlot(page, k) = i
  /\ \A j \in F, k \in Int :
       below[j] = below[k] => k \in F /\ ChildSlot(page, j) = ChildSlot(page, k)

\* What the slots of a fitting page are.
LEMMA SlotFacts ==
  ASSUME NEW page, NEW F, NEW below, InnerFits(page, F, below), NEW key \in Int
  PROVE  /\ ChildSlot(page, key) \in 1 .. Len(page.keys) + 1
         /\ ChildSlot(page, key) \in 1 .. Len(page.children)
         /\ \A i \in 1 .. Len(page.keys) : page.keys[i] \in Int
         /\ \A i \in 1 .. Len(page.keys) : page.keys[i] <= key <=> i < ChildSlot(page, key)
<1>1. Ascending(page.keys) /\ Len(page.children) = Len(page.keys) + 1
  BY DEF InnerFits
<1>2. /\ ChildSlot(page, key) \in 1 .. Len(page.keys) + 1
      /\ \A i \in 1 .. Len(page.keys) : page.keys[i] <= key <=> i < ChildSlot(page, key)
  BY <1>1, ChildSlotFacts
<1>3. \A i \in 1 .. Len(page.keys) : page.keys[i] \in Int
  BY <1>1 DEF Ascending
<1>4. QED
  BY <1>1, <1>2, <1>3

\* A page keeps fitting when the row below changes elsewhere.
LEMMA FitsStill ==
  ASSUME NEW page, NEW F \in SUBSET Int, NEW below, NEW row, InnerFits(page, F, below),
         \A k \in F : row[k] = below[k],
         \A j \in F, k \in Int \ F : row[k] # below[j]
  PROVE  InnerFits(page, F, row)
<1>1. ASSUME NEW j \in F, NEW k \in Int, row[j] = row[k]
      PROVE  k \in F /\ ChildSlot(page, j) = ChildSlot(page, k)
  <2>1. row[j] = below[j]
    OBVIOUS
  <2>2. k \in F
    BY <1>1, <2>1
  <2>3. below[j] = below[k]
    BY <1>1, <2>1, <2>2
  <2>4. QED
    BY <2>2, <2>3 DEF InnerFits
<1>2. QED
  BY <1>1 DEF InnerFits

\* The keys of a page are even strictly in order.
LEMMA KeysDiffer ==
  ASSUME NEW page, NEW F \in SUBSET Int, NEW below, InnerFits(page, F, below),
         NEW i \in 1 .. Len(page.keys), NEW j \in 1 .. Len(page.keys), i < j
  PROVE  page.keys[i] < page.keys[j]
<1>1. PICK n \in Nat : n = Len(page.keys)
  BY DEF InnerFits
<1>2. Len(page.children) = n + 1 /\ i \in 1 .. n /\ j \in 1 .. n
  BY <1>1 DEF InnerFits
<1>3. PICK k \in F : ChildSlot(page, k) = j
  BY <1>2 DEF InnerFits
<1>4. \A m \in 1 .. n : page.keys[m] \in Int /\ (page.keys[m] <= k <=> m < j)
  BY <1>1, <1>3, SlotFacts
<1>5. page.keys[i] <= k /\ ~ (page.keys[j] <= k)
  BY <1>2, <1>4
<1>6. QED
  BY <1>2, <1>4, <1>5

\* Keys are numbers, in a sequence as well.
LEMMA KeysAreNumbers ==
  ASSUME NEW s \in Seq(Key)
  PROVE  s \in Seq(Int) /\ s \in [1 .. Len(s) -> Int]
<1>1. Len(s) \in Nat /\ s = [i \in 1 .. Len(s) |-> s[i]]
  OBVIOUS
<1>2. ASSUME NEW i \in 1 .. Len(s) PROVE s[i] \in Int
  <2>1. s[i] \in Key
    OBVIOUS
  <2>2. QED
    BY <2>1, SizeAssumption
<1>3. s \in [1 .. Len(s) -> Int]
  BY <1>1, <1>2
<1>4. QED
  BY <1>1, <1>3

\* What t is to s when e was put in at place i.
Inserted(t, s, i, e) ==
  /\ Len(t) = Len(s) + 1
  /\ \A j \in 1 .. Len(s) : j < i => t[j] = s[j]
  /\ t[i] = e
  /\ \A j \in 1 .. Len(s) : i <= j => t[j + 1] = s[j]

\* InsertAt puts a key in ...
LEMMA InsertedKey ==
  ASSUME NEW s, s \in Seq(Int), NEW i, i \in 1 .. Len(s) + 1, NEW e, e \in Int
  PROVE  InsertAt(s, i, e) \in Seq(Int) /\ Inserted(InsertAt(s, i, e), s, i, e)
<1>1. PICK S : S = Int
  OBVIOUS
<1>2. s \in Seq(S) /\ e \in S
  BY <1>1
<1>3. InsertAt(s, i, e) \in Seq(Int) /\ Len(InsertAt(s, i, e)) = Len(s) + 1
  BY InsertAtFacts
<1>4. \A j \in 1 .. Len(s) : j < i => InsertAt(s, i, e)[j] = s[j]
  BY <1>2, InsertAtFacts
<1>5. InsertAt(s, i, e)[i] = e
  BY <1>2, InsertAtFacts
<1>6. \A j \in 1 .. Len(s) : i <= j => InsertAt(s, i, e)[j + 1] = s[j]
  BY <1>2, InsertAtFacts
<1>7. QED
  BY <1>3, <1>4, <1>5, <1>6 DEF Inserted

\* A separator that goes in at its slot leaves the keys in order; the slots of
\* the keys from it on move up by one.
LEMMA SlotsAfterInsert ==
  ASSUME NEW page, Ascending(page.keys), NEW sep \in Int, NEW slot, slot = ChildSlot(page, sep),
         NEW new, new.keys \in Seq(Int), Inserted(new.keys, page.keys, slot, sep)
  PROVE  /\ Ascending(new.keys)
         /\ \A k \in Int :
              /\ k < sep => ChildSlot(page, k) <= slot /\ ChildSlot(new, k) = ChildSlot(page, k)
              /\ sep <= k => slot <= ChildSlot(page, k) /\ ChildSlot(new, k) = ChildSlot(page, k) + 1
<1>1. PICK n \in Nat : n = Len(page.keys)
  BY DEF Ascending
<1>2. slot \in 1 .. n + 1 /\ \A i \in 1 .. n : page.keys[i] <= sep <=> i < slot
  BY <1>1, ChildSlotFacts
<1>3. page.keys \in Seq(Int) /\ slot \in 1 .. Len(page.keys) + 1
  BY <1>1, <1>2 DEF Ascending
<1>4. /\ new.keys \in Seq(Int) /\ Len(new.keys) = Len(page.keys) + 1
      /\ \A j \in 1 .. Len(page.keys) : j < slot => new.keys[j] = page.keys[j]
      /\ new.keys[slot] = sep
      /\ \A j \in 1 .. Len(page.keys) : slot <= j => new.keys[j + 1] = page.keys[j]
  BY DEF Inserted
<1>5. PICK f \in [1 .. n -> Int] : f = page.keys
  BY <1>1, <1>3
<1>6. PICK g \in [1 .. n + 1 -> Int] : g = new.keys
  BY <1>1, <1>4
<1>7. /\ \A i \in 1 .. n : f[i] <= sep <=> i < slot
      /\ \A j \in 1 .. n : j < slot => g[j] = f[j]
      /\ g[slot] = sep
      /\ \A j \in 1 .. n : slot <= j => g[j + 1] = f[j]
      /\ \A i, j \in 1 .. n : i <= j => f[i] <= f[j]
      /\ \A k \in Int : /\ ChildSlot(page, k) \in 1 .. n + 1
                        /\ \A i \in 1 .. n : f[i] <= k <=> i < ChildSlot(page, k)
  <2>1. \A i, j \in 1 .. n : i <= j => f[i] <= f[j]
    BY <1>1, <1>5 DEF Ascending
  <2>2. \A k \in Int : /\ ChildSlot(page, k) \in 1 .. n + 1
                       /\ \A i \in 1 .. n : f[i] <= k <=> i < ChildSlot(page, k)
    BY <1>1, <1>5, ChildSlotFacts
  <2>3. QED
    BY <1>1, <1>2, <1>4, <1>5, <1>6, <2>1, <2>2
<1>8. \A i \in 1 .. n + 1 :
        \/ i \in 1 .. n /\ i < slot
        \/ i = slot
        \/ \E m \in 1 .. n : slot <= m /\ i = m + 1
  <2> SUFFICES ASSUME NEW i \in 1 .. n + 1, ~ (i < slot), i # slot
               PROVE  \E m \in 1 .. n : slot <= m /\ i = m + 1
    BY <1>2
  <2>1. i - 1 \in 1 .. n /\ slot <= i - 1 /\ i = (i - 1) + 1
    BY <1>2
  <2>2. QED
    BY <2>1
<1>9. ASSUME NEW i \in 1 .. n + 1, NEW j \in 1 .. n + 1, i <= j PROVE g[i] <= g[j]
  <2>1. CASE i \in 1 .. n /\ i < slot /\ j \in 1 .. n /\ j < slot
    BY <1>7, <1>9, <2>1
  <2>2. CASE i \in 1 .. n /\ i < slot /\ j = slot
    BY <1>7, <2>2
  <2>3. CASE i \in 1 .. n /\ i < slot /\ \E m \in 1 .. n : slot <= m /\ j = m + 1
    <3>1. PICK m \in 1 .. n : slot <= m /\ j = m + 1
      BY <2>3
    <3>2. i <= m
      BY <1>2, <2>3, <3>1
    <3>3. QED
      BY <1>7, <2>3, <3>1, <3>2
  <2>4. CASE i = slot /\ j = slot
    BY <1>7, <2>4
  <2>5. CASE i = slot /\ \E m \in 1 .. n : slot <= m /\ j = m + 1
    <3>1. PICK m \in 1 .. n : slot <= m /\ j = m + 1
      BY <2>5
    <3>2. ~ (f[m] <= sep)
      BY <1>2, <1>7, <3>1
    <3>3. QED
      BY <1>7, <2>5, <3>1, <3>2
  <2>6. CASE (\E m \in 1 .. n : slot <= m /\ i = m + 1) /\ (\E m \in 1 .. n : slot <= m /\ j = m + 1)
    <3>1. PICK m \in 1 .. n : slot <= m /\ i = m + 1
      BY <2>6
    <3>2. PICK q \in 1 .. n : slot <= q /\ j = q + 1
      BY <2>6
    <3>3. m <= q
      BY <1>9, <3>1, <3>2
    <3>4. QED
      BY <1>7, <3>1, <3>2, <3>3
  <2>7. ~ ((\E m \in 1 .. n : slot <= m /\ i = m + 1) /\ j <= slot)
    BY <1>2, <1>9
  <2>8. ~ (i = slot /\ j < slot)
    BY <1>2, <1>9
  <2>9. QED
    BY <1>2, <1>8, <2>1, <2>2, <2>3, <2>4, <2>5, <2>6, <2>7, <2>8
<1>10. Ascending(new.keys)
  BY <1>1, <1>4, <1>6, <1>9 DEF Ascending
<1>11. ASSUME NEW k \in Int, k < sep
       PROVE  ChildSlot(page, k) <= slot /\ ChildSlot(new, k) = ChildSlot(page, k)
  <2>1. PICK s \in 1 .. n + 1 : s = ChildSlot(page, k) /\ \A i \in 1 .. n : f[i] <= k <=> i < s
    BY <1>7
  <2>2. s <= slot
    <3> SUFFICES ASSUME slot < s PROVE FALSE
      BY <1>2, <2>1
    <3>1. slot \in 1 .. n /\ f[slot] <= k /\ ~ (f[slot] <= sep)
      BY <1>2, <1>7, <2>1
    <3>2. QED
      BY <1>11, <3>1
  <2>3. ASSUME NEW i \in 1 .. n + 1, i < s PROVE g[i] <= k
    <3>1. i \in 1 .. n /\ i < slot
      BY <1>2, <2>1, <2>2, <2>3
    <3>2. QED
      BY <1>7, <2>1, <2>3, <3>1
  <2>4. ASSUME NEW i \in 1 .. n + 1, s <= i PROVE k < g[i]
    <3>1. CASE i \in 1 .. n /\ i < slot
      BY <1>7, <2>1, <2>4, <3>1
    <3>2. CASE i = slot
      BY <1>7, <1>11, <3>2
    <3>3. CASE \E m \in 1 .. n : slot <= m /\ i = m + 1
      <4>1. PICK m \in 1 .. n : slot <= m /\ i = m + 1
        BY <3>3
      <4>2. ~ (m < s)
        BY <1>2, <2>1, <2>2, <4>1
      <4>3. QED
        BY <1>7, <2>1, <4>1, <4>2
    <3>4. QED
      BY <1>8, <3>1, <3>2, <3>3
  <2>5. s \in 1 .. (n + 1) + 1
    BY <2>1
  <2>6. ChildSlot(new, k) = s
    BY <1>1, <1>4, <1>6, <1>10, <2>3, <2>4, <2>5, ChildSlotIs
  <2>7. QED
    BY <2>1, <2>2, <2>6
<1>12. ASSUME NEW k \in Int, sep <= k
       PROVE  slot <= ChildSlot(page, k) /\ ChildSlot(new, k) = ChildSlot(page, k) + 1
  <2>1. PICK s \in 1 .. n + 1 : s = ChildSlot(page, k) /\ \A i \in 1 .. n : f[i] <= k <=> i < s
    BY <1>7
  <2>2. slot <= s
    <3> SUFFICES ASSUME s < slot PROVE FALSE
      BY <1>2, <2>1
    <3>1. s \in 1 .. n /\ f[s] <= sep /\ ~ (f[s] <= k)
      BY <1>2, <1>7, <2>1
    <3>2. QED
      BY <1>12, <3>1
  <2>3. ASSUME NEW i \in 1 .. n + 1, i < s + 1 PROVE g[i] <= k
    <3>1. CASE i \in 1 .. n /\ i < slot
      <4>1. i < s
        BY <1>2, <2>1, <2>2, <3>1
      <4>2. QED
        BY <1>7, <2>1, <3>1, <4>1
    <3>2. CASE i = slot
      BY <1>7, <1>12, <3>2
    <3>3. CASE \E m \in 1 .. n : slot <= m /\ i = m + 1
      <4>1. PICK m \in 1 .. n : slot <= m /\ i = m + 1
        BY <3>3
      <4>2. m < s
        BY <2>1, <2>3, <4>1
      <4>3. QED
        BY <1>7, <2>1, <4>1, <4>2
    <3>4. QED
      BY <1>8, <3>1, <3>2, <3>3
  <2>4. ASSUME NEW i \in 1 .. n + 1, s + 1 <= i PROVE k < g[i]
    <3>1. i - 1 \in 1 .. n /\ slot <= i - 1 /\ ~ (i - 1 < s) /\ i = (i - 1) + 1
      BY <1>2, <2>1, <2>2, <2>4
    <3>2. PICK m \in 1 .. n : slot <= m /\ ~ (m < s) /\ i = m + 1
      BY <3>1
    <3>3. QED
      BY <1>7, <2>1, <3>2
  <2>5. s + 1 \in 1 .. (n + 1) + 1
    BY <2>1
  <2>6. ChildSlot(new, k) = s + 1
    BY <1>1, <1>4, <1>6, <1>10, <2>3, <2>4, <2>5, ChildSlotIs
  <2>7. QED
    BY <2>1, <2>2, <2>6
<1>13. QED
  BY <1>10, <1>11, <1>12

\* What t is to s when it is its first n elements, or those after them; when it
\* is s and then u; when the element at place i was taken out.
Begins(t, s, n) == Len(t) = n /\ \A j \in 1 .. n : t[j] = s[j]
Ends(t, s, n) == Len(t) + n = Len(s) /\ \A j \in 1 .. Len(t) : t[j] = s[j + n]
Joined(t, s, u) ==
  /\ Len(t) = Len(s) + Len(u)
  /\ \A j \in 1 .. Len(s) : t[j] = s[j]
  /\ \A j \in 1 .. Len(u) : t[j + Len(s)] = u[j]
Removed(t, s, i) ==
  /\ Len(t) + 1 = Len(s)
  /\ \A j \in 1 .. Len(t) : j < i => t[j] = s[j]
  /\ \A j \in 1 .. Len(t) : i <= j => t[j] = s[j + 1]

\* ... and anything else.
LEMMA InsertedOne ==
  ASSUME NEW S, NEW s, s \in Seq(S), NEW i, i \in 1 .. Len(s) + 1, NEW e, e \in S
  PROVE  InsertAt(s, i, e) \in Seq(S) /\ Inserted(InsertAt(s, i, e), s, i, e)
<1>3. InsertAt(s, i, e) \in Seq(S) /\ Len(InsertAt(s, i, e)) = Len(s) + 1
  BY InsertAtFacts
<1>4. \A j \in 1 .. Len(s) : j < i => InsertAt(s, i, e)[j] = s[j]
  BY InsertAtFacts
<1>5. InsertAt(s, i, e)[i] = e
  BY InsertAtFacts
<1>6. \A j \in 1 .. Len(s) : i <= j => InsertAt(s, i, e)[j + 1] = s[j]
  BY InsertAtFacts
<1>7. QED
  BY <1>3, <1>4, <1>5, <1>6 DEF Inserted

\* SubSeq takes the beginning of a sequence ...
LEMMA BeginningOf ==
  ASSUME NEW S, NEW s, s \in Seq(S), NEW n, n \in 0 .. Len(s)
  PROVE  SubSeq(s, 1, n) \in Seq(S) /\ Begins(SubSeq(s, 1, n), s, n)
<1>1. /\ SubSeq(s, 1, n) \in Seq(S) /\ Len(SubSeq(s, 1, n)) = n - 1 + 1
      /\ \A j \in 1 .. n - 1 + 1 : SubSeq(s, 1, n)[j] = s[1 + j - 1]
  BY SubSeqFacts
<1>2. ASSUME NEW j \in 1 .. n PROVE SubSeq(s, 1, n)[j] = s[j]
  <2>1. 1 + j - 1 = j /\ j \in 1 .. n - 1 + 1
    OBVIOUS
  <2>2. QED
    BY <1>1, <2>1
<1>3. QED
  BY <1>1, <1>2 DEF Begins

\* ... or its end; ...
LEMMA EndingOf ==
  ASSUME NEW S, NEW s, s \in Seq(S), NEW n, n \in 0 .. Len(s)
  PROVE  SubSeq(s, n + 1, Len(s)) \in Seq(S) /\ Ends(SubSeq(s, n + 1, Len(s)), s, n)
<1>1. /\ SubSeq(s, n + 1, Len(s)) \in Seq(S) /\ Len(SubSeq(s, n + 1, Len(s))) = Len(s) - (n + 1) + 1
      /\ \A j \in 1 .. Len(s) - (n + 1) + 1 : SubSeq(s, n + 1, Len(s))[j] = s[(n + 1) + j - 1]
  BY SubSeqFacts
<1>2. Len(SubSeq(s, n + 1, Len(s))) + n = Len(s)
  BY <1>1
<1>3. ASSUME NEW j \in 1 .. Len(SubSeq(s, n + 1, Len(s))) PROVE SubSeq(s, n + 1, Len(s))[j] = s[j + n]
  <2>1. (n + 1) + j - 1 = j + n /\ j \in 1 .. Len(s) - (n + 1) + 1
    BY <1>1
  <2>2. QED
    BY <1>1, <2>1
<1>4. QED
  BY <1>1, <1>2, <1>3 DEF Ends

\* ... \o joins two; ...
LEMMA JoinOf ==
  ASSUME NEW S, NEW s, s \in Seq(S), NEW u, u \in Seq(S)
  PROVE  s \o u \in Seq(S) /\ Joined(s \o u, s, u)
<1>1. /\ s \o u \in Seq(S) /\ Len(s \o u) = Len(s) + Len(u)
      /\ \A j \in 1 .. Len(s) : (s \o u)[j] = s[j]
      /\ \A j \in 1 .. Len(u) : (s \o u)[Len(s) + j] = u[j]
  BY ConcatFacts
<1>2. ASSUME NEW j \in 1 .. Len(u) PROVE (s \o u)[j + Len(s)] = u[j]
  <2>1. j + Len(s) = Len(s) + j
    OBVIOUS
  <2>2. QED
    BY <1>1, <2>1
<1>3. QED
  BY <1>1, <1>2 DEF Joined

\* ... and RemoveAt takes one element out.
LEMMA RemovedOne ==
  ASSUME NEW S, NEW s, s \in Seq(S), NEW i, i \in 1 .. Len(s)
  PROVE  RemoveAt(s, i) \in Seq(S) /\ Removed(RemoveAt(s, i), s, i)
<1>1. /\ RemoveAt(s, i) \in Seq(S) /\ Len(RemoveAt(s, i)) = Len(s) - 1
      /\ \A j \in 1 .. Len(s) - 1 : RemoveAt(s, i)[j] = IF j < i THEN s[j] ELSE s[j + 1]
  BY RemoveAtFacts
<1>2. Len(RemoveAt(s, i)) + 1 = Len(s)
  BY <1>1
<1>3. ASSUME NEW j \in 1 .. Len(RemoveAt(s, i)), j < i PROVE RemoveAt(s, i)[j] = s[j]
  BY <1>1, <1>3
<1>4. ASSUME NEW j \in 1 .. Len(RemoveAt(s, i)), i <= j PROVE RemoveAt(s, i)[j] = s[j + 1]
  BY <1>1, <1>4
<1>5. QED
  BY <1>1, <1>2, <1>3, <1>4 DEF Removed

\* Numbers stay numbers when they are joined.
LEMMA ConcatInt ==
  ASSUME NEW s \in Seq(Int), NEW u \in Seq(Int)
  PROVE  s \o u \in Seq(Int) /\ Joined(s \o u, s, u)
  BY JoinOf

\* Nothing but e came in.
LEMMA InsertedOnly ==
  ASSUME NEW s, Len(s) \in Nat, NEW i, i \in 1 .. Len(s) + 1, NEW e, NEW t, Inserted(t, s, i, e)
  PROVE  \A j \in 1 .. Len(s) + 1 : t[j] = e \/ \E m \in 1 .. Len(s) : t[j] = s[m]
<1>1. PICK n \in Nat : n = Len(s)
  OBVIOUS
<1>2. TAKE j \in 1 .. Len(s) + 1
<1>3. CASE j < i
  <2>1. j \in 1 .. n
    BY <1>1, <1>3
  <2>2. QED
    BY <1>1, <1>3, <2>1 DEF Inserted
<1>4. CASE j = i
  BY <1>4 DEF Inserted
<1>5. CASE i < j
  <2>1. PICK m \in 1 .. n : j = m + 1 /\ i <= m
    <3>1. j - 1 \in 1 .. n /\ j = (j - 1) + 1 /\ i <= j - 1
      BY <1>1, <1>5
    <3>2. QED
      BY <3>1
  <2>2. QED
    BY <1>1, <2>1 DEF Inserted
<1>6. QED
  BY <1>3, <1>4, <1>5

-----------------------------------------------------------------------------
\* A child that was split off finds its place.

\* row is see after the page child has taken the keys from sep on from page p.
Parted(row, see, p, child, sep) ==
  /\ p # child
  /\ \A k \in Int : row[k] = child => see[k] = p /\ sep <= k
  /\ \A k \in Int : row[k] # child => see[k] = row[k]
  /\ \A k \in Int : row[k] = p => k < sep
  /\ row[sep] = child
  /\ \E k \in Int : row[k] = p

\* new is page with child, whose first key is sep, after the child at slot.
Hung(new, page, slot, sep, child) ==
  /\ new.leaf = FALSE
  /\ new.keys \in Seq(Key) /\ new.children \in Seq(Int)
  /\ Inserted(new.keys, page.keys, slot, sep)
  /\ Inserted(new.children, page.children, slot + 1, child)
  /\ Ascending(new.keys)
  /\ \A k \in Int :
       /\ k < sep => ChildSlot(page, k) <= slot /\ ChildSlot(new, k) = ChildSlot(page, k)
       /\ sep <= k => slot <= ChildSlot(page, k) /\ ChildSlot(new, k) = ChildSlot(page, k) + 1

\* AddChild hangs the child in its slot ...
LEMMA HangAtSlot ==
  ASSUME NEW page, NEW F \in SUBSET Int, NEW see, InnerFits(page, F, see),
         NEW child \in Int, NEW sep \in Key, NEW slot, slot = ChildSlot(page, sep),
         NEW new, new = Internal(InsertAt(page.keys, slot, sep), InsertAt(page.children, slot + 1, child))
  PROVE  Hung(new, page, slot, sep, child)
<1>1. sep \in Int
  BY SizeAssumption
<1>2. /\ Ascending(page.keys) /\ page.keys \in Seq(Key) /\ page.children \in Seq(Int)
      /\ Len(page.children) = Len(page.keys) + 1
  BY DEF InnerFits
<1>3. slot \in 1 .. Len(page.keys) + 1
  BY <1>1, <1>2, ChildSlotFacts
<1>4. slot + 1 \in 1 .. Len(page.children) + 1
  BY <1>2, <1>3
<1>5. /\ new.leaf = FALSE
      /\ new.keys = InsertAt(page.keys, slot, sep)
      /\ new.children = InsertAt(page.children, slot + 1, child)
  BY DEF Internal
<1>6. InsertAt(page.keys, slot, sep) \in Seq(Key)
      /\ Inserted(InsertAt(page.keys, slot, sep), page.keys, slot, sep)
  BY <1>2, <1>3, InsertedOne
<1>7. InsertAt(page.children, slot + 1, child) \in Seq(Int)
      /\ Inserted(InsertAt(page.children, slot + 1, child), page.children, slot + 1, child)
  BY <1>2, <1>4, InsertedKey
<1>a. new.keys \in Seq(Int) /\ Inserted(new.keys, page.keys, slot, sep)
  BY <1>5, <1>6, KeysAreNumbers
<1>8. Ascending(new.keys)
  BY <1>1, <1>2, <1>a, SlotsAfterInsert
<1>9. \A k \in Int :
        /\ k < sep => ChildSlot(page, k) <= slot /\ ChildSlot(new, k) = ChildSlot(page, k)
        /\ sep <= k => slot <= ChildSlot(page, k) /\ ChildSlot(new, k) = ChildSlot(page, k) + 1
  BY <1>1, <1>2, <1>a, SlotsAfterInsert
<1>10. QED
  BY <1>5, <1>6, <1>7, <1>8, <1>9 DEF Hung

\* ... so that the page fits with what is below it again.
LEMMA HangFits ==
  ASSUME NEW page, NEW F \in SUBSET Int, NEW see, NEW row, InnerFits(page, F, see),
         NEW p \in Int, NEW child \in Int, NEW sep \in Key, Parted(row, see, p, child, sep),
         NEW slot, slot = ChildSlot(page, sep), see[sep] = p, sep \in F,
         NEW new, Hung(new, page, slot, sep, child)
  PROVE  InnerFits(new, F, row)
<1>1. sep \in Int
  BY SizeAssumption
<1>2. PICK n \in Nat : n = Len(page.keys) /\ n + 1 = Len(page.children)
  BY DEF InnerFits
<1>3. /\ Ascending(page.keys) /\ page.keys \in Seq(Key) /\ page.children \in Seq(Int)
      /\ \A i \in 1 .. n : page.keys[i] \in F
      /\ \A k \in F : see[k] = page.children[ChildSlot(page, k)]
      /\ \A i \in 1 .. n + 1 : \E k \in F : ChildSlot(page, k) = i
      /\ \A j \in F, k \in Int : see[j] = see[k] => k \in F /\ ChildSlot(page, j) = ChildSlot(page, k)
  BY <1>2 DEF InnerFits
<1>4. slot \in 1 .. n + 1 /\ \A k \in F : k \in Int /\ ChildSlot(page, k) \in 1 .. n + 1
  BY <1>1, <1>2, <1>3, ChildSlotFacts
<1>5. new.leaf = FALSE /\ new.keys \in Seq(Key) /\ new.children \in Seq(Int)
  BY DEF Hung
<1>6. /\ Ascending(new.keys)
      /\ \A k \in Int :
           /\ k < sep => ChildSlot(page, k) <= slot /\ ChildSlot(new, k) = ChildSlot(page, k)
           /\ sep <= k => slot <= ChildSlot(page, k) /\ ChildSlot(new, k) = ChildSlot(page, k) + 1
  BY DEF Hung
<1>7. Inserted(new.keys, page.keys, slot, sep)
  BY DEF Hung
<1>8. Inserted(new.children, page.children, slot + 1, child)
  BY DEF Hung
<1>9. Len(new.keys) = n + 1 /\ Len(new.children) = n + 2
  BY <1>2, <1>7, <1>8 DEF Inserted
<1>10. /\ \A j \in 1 .. n + 1 : j <= slot => new.children[j] = page.children[j]
       /\ new.children[slot + 1] = child
       /\ \A j \in 1 .. n + 1 : slot < j => new.children[j + 1] = page.children[j]
  BY <1>2, <1>4, <1>8 DEF Inserted
<1>11. ASSUME NEW i \in 1 .. n + 1 PROVE new.keys[i] \in F
  <2>1. \A j \in 1 .. Len(page.keys) + 1 : new.keys[j] = sep \/ \E m \in 1 .. Len(page.keys) : new.keys[j] = page.keys[m]
    BY <1>2, <1>4, <1>7, InsertedOnly
  <2>2. QED
    BY <1>2, <1>3, <2>1
<1>12. ASSUME NEW k \in F PROVE row[k] = new.children[ChildSlot(new, k)]
  <2>1. PICK s \in 1 .. n + 1 : s = ChildSlot(page, k) /\ see[k] = page.children[s]
    BY <1>3, <1>4
  <2>2. CASE k < sep
    <3>1. ChildSlot(new, k) = s /\ s <= slot
      BY <1>6, <2>1, <2>2
    <3>2. row[k] # child
      BY <1>1, <2>2 DEF Parted
    <3>3. row[k] = see[k]
      BY <3>2 DEF Parted
    <3>4. QED
      BY <1>10, <2>1, <3>1, <3>3
  <2>3. CASE sep <= k /\ s = slot
    <3>1. ChildSlot(new, k) = slot + 1
      BY <1>6, <2>1, <2>3
    <3>2. see[k] = p
      BY <1>3, <2>1, <2>3
    <3>3. row[k] = child
      BY <1>1, <2>3, <3>2 DEF Parted
    <3>4. QED
      BY <1>10, <3>1, <3>3
  <2>4. CASE sep <= k /\ s # slot
    <3>1. ChildSlot(new, k) = s + 1 /\ slot < s
      BY <1>4, <1>6, <2>1, <2>4
    <3>2. see[k] # p
      BY <1>3, <2>1, <2>4
    <3>3. row[k] = see[k]
      BY <3>2 DEF Parted
    <3>4. QED
      BY <1>10, <2>1, <3>1, <3>3
  <2>5. k < sep \/ sep <= k
    BY <1>1, <1>4
  <2>6. QED
    BY <2>2, <2>3, <2>4, <2>5
<1>13. ASSUME NEW i \in 1 .. n + 2 PROVE \E k \in F : ChildSlot(new, k) = i
  <2>1. CASE i < slot
    <3>1. PICK k \in F : ChildSlot(page, k) = i
      BY <1>3, <1>4, <2>1
    <3>2. k < sep
      BY <1>1, <1>4, <1>6, <2>1, <3>1
    <3>3. QED
      BY <1>6, <3>1, <3>2
  <2>2. CASE i = slot
    <3>1. PICK k \in Int : row[k] = p
      BY DEF Parted
    <3>2. see[k] = p /\ k < sep
      BY <3>1 DEF Parted
    <3>3. k \in F /\ ChildSlot(page, k) = slot
      BY <1>3, <3>2
    <3>4. QED
      BY <1>6, <2>2, <3>2, <3>3
  <2>3. CASE i = slot + 1
    BY <1>1, <1>6, <2>3
  <2>4. CASE slot + 1 < i
    <3>1. PICK m \in 1 .. n + 1 : i = m + 1 /\ slot < m
      <4>1. i - 1 \in 1 .. n + 1 /\ i = (i - 1) + 1 /\ slot < i - 1
        BY <1>4, <2>4
      <4>2. QED
        BY <4>1
    <3>2. PICK k \in F : ChildSlot(page, k) = m
      BY <1>3
    <3>3. sep <= k
      BY <1>1, <1>4, <1>6, <3>1, <3>2
    <3>4. QED
      BY <1>6, <3>1, <3>2, <3>3
  <2>5. QED
    BY <1>4, <2>1, <2>2, <2>3, <2>4
<1>14. ASSUME NEW j \in F, NEW k \in Int, row[j] = row[k]
       PROVE  k \in F /\ ChildSlot(new, j) = ChildSlot(new, k)
  <2>1. see[j] = see[k]
    BY <1>14 DEF Parted
  <2>2. k \in F /\ ChildSlot(page, j) = ChildSlot(page, k)
    BY <1>3, <2>1
  <2>3. PICK s \in 1 .. n + 1 : s = ChildSlot(page, j) /\ s = ChildSlot(page, k)
    BY <1>4, <2>2
  <2>4. CASE s < slot
    <3>1. ~ (sep <= j) /\ ~ (sep <= k)
      BY <1>4, <1>6, <2>2, <2>3, <2>4
    <3>2. j < sep /\ k < sep
      BY <1>1, <1>4, <2>2, <3>1
    <3>3. QED
      BY <1>6, <2>2, <3>2
  <2>5. CASE slot < s
    <3>1. ~ (j < sep) /\ ~ (k < sep)
      BY <1>4, <1>6, <2>2, <2>3, <2>5
    <3>2. sep <= j /\ sep <= k
      BY <1>1, <1>4, <2>2, <3>1
    <3>3. QED
      BY <1>6, <2>2, <3>2
  <2>6. CASE s = slot
    <3>1. see[j] = p /\ see[k] = p
      BY <1>3, <2>2, <2>3, <2>6
    <3>2. CASE row[j] = child
      <4>1. sep <= j /\ sep <= k
        BY <1>14, <3>2 DEF Parted
      <4>2. QED
        BY <1>6, <2>2, <4>1
    <3>3. CASE row[j] # child
      <4>1. row[j] = p /\ row[k] = p
        BY <1>14, <3>1, <3>3 DEF Parted
      <4>2. j < sep /\ k < sep
        BY <4>1 DEF Parted
      <4>3. QED
        BY <1>6, <2>2, <4>2
    <3>4. QED
      BY <3>2, <3>3
  <2>7. QED
    BY <1>4, <2>2, <2>4, <2>5, <2>6
<1>15. QED
  BY <1>5, <1>6, <1>9, <1>11, <1>12, <1>13, <1>14 DEF InnerFits

-----------------------------------------------------------------------------
\* Pages that are cut in two, or joined.

\* The internal pages a and b hold between them what page holds, a the first
\* left children; the key in the middle is in neither.
CutAt(a, b, page, left) ==
  /\ a.leaf = FALSE /\ b.leaf = FALSE /\ page.leaf = FALSE
  /\ a.keys \in Seq(Key) /\ b.keys \in Seq(Key) /\ page.keys \in Seq(Key)
  /\ a.children \in Seq(Int) /\ b.children \in Seq(Int) /\ page.children \in Seq(Int)
  /\ Len(page.children) = Len(page.keys) + 1
  /\ left \in 1 .. Len(page.keys)
  /\ Len(a.keys) + 1 = left /\ Begins(a.keys, page.keys, Len(a.keys)) /\ Ends(b.keys, page.keys, left)
  /\ Begins(a.children, page.children, left) /\ Ends(b.children, page.children, left)

\* The lengths and the keys of such pages.
CutKeysAre(a, b, page, left, m, n) ==
  /\ left \in Nat /\ left = m + 1 /\ Len(page.keys) = m + 1 + n
  /\ Len(a.keys) = m /\ Len(b.keys) = n
  /\ a.keys \in [1 .. m -> Int] /\ b.keys \in [1 .. n -> Int]
  /\ page.keys \in [1 .. m + 1 + n -> Int]
  /\ a.keys \in Seq(Int) /\ b.keys \in Seq(Int) /\ page.keys \in Seq(Int)
  /\ \A i \in 1 .. m : a.keys[i] = page.keys[i]
  /\ \A i \in 1 .. n : b.keys[i] = page.keys[i + left]

\* The keys of two halves and of the page they are cut from.
LEMMA CutKeys ==
  ASSUME NEW a, NEW b, NEW page, NEW left, CutAt(a, b, page, left)
  PROVE  \E m, n \in Nat : CutKeysAre(a, b, page, left, m, n)
<1>1. /\ a.keys \in Seq(Key) /\ b.keys \in Seq(Key) /\ page.keys \in Seq(Key)
      /\ left \in 1 .. Len(page.keys) /\ Len(a.keys) + 1 = left
      /\ Begins(a.keys, page.keys, Len(a.keys)) /\ Ends(b.keys, page.keys, left)
  BY DEF CutAt
<1>2. PICK m \in Nat : m = Len(a.keys)
  BY <1>1
<1>3. PICK n \in Nat : n = Len(b.keys)
  BY <1>1
<1>4. left = m + 1 /\ left \in Nat
  BY <1>1, <1>2
<1>5. Len(page.keys) = m + 1 + n
  <2>1. Len(b.keys) + left = Len(page.keys)
    BY <1>1 DEF Ends
  <2>2. n + left = Len(page.keys)
    BY <1>3, <2>1
  <2>3. n + left = m + 1 + n
    BY <1>4
  <2>4. QED
    BY <2>2, <2>3
<1>6. /\ a.keys \in Seq(Int) /\ b.keys \in Seq(Int) /\ page.keys \in Seq(Int)
      /\ a.keys \in [1 .. m -> Int] /\ b.keys \in [1 .. n -> Int]
      /\ page.keys \in [1 .. m + 1 + n -> Int]
  BY <1>1, <1>2, <1>3, <1>5, KeysAreNumbers
<1>7. \A i \in 1 .. m : a.keys[i] = page.keys[i]
  BY <1>1, <1>2 DEF Begins
<1>8. \A i \in 1 .. n : b.keys[i] = page.keys[i + left]
  BY <1>1, <1>3 DEF Ends
<1>9. QED
  BY <1>2, <1>3, <1>4, <1>5, <1>6, <1>7, <1>8 DEF CutKeysAre

\* A search turns in the halves as it turned in the page they are cut from.
LEMMA CutSlots ==
  ASSUME NEW a, NEW b, NEW page, NEW left, CutAt(a, b, page, left), Ascending(page.keys),
         NEW sep, sep = page.keys[left]
  PROVE  /\ Ascending(a.keys) /\ Ascending(b.keys)
         /\ \A k \in Int :
              /\ k < sep => ChildSlot(page, k) = ChildSlot(a, k) /\ ChildSlot(a, k) <= left
              /\ sep <= k => ChildSlot(page, k) = ChildSlot(b, k) + left /\ left < ChildSlot(page, k)
<1>0. PICK m, n \in Nat : CutKeysAre(a, b, page, left, m, n)
  BY CutKeys
<1>1. /\ left \in Nat /\ left = m + 1 /\ Len(page.keys) = m + 1 + n
      /\ Len(a.keys) = m /\ Len(b.keys) = n
      /\ a.keys \in [1 .. m -> Int] /\ b.keys \in [1 .. n -> Int]
      /\ page.keys \in [1 .. m + 1 + n -> Int]
      /\ a.keys \in Seq(Int) /\ b.keys \in Seq(Int) /\ page.keys \in Seq(Int)
      /\ \A i \in 1 .. m : a.keys[i] = page.keys[i]
      /\ \A i \in 1 .. n : b.keys[i] = page.keys[i + left]
  BY <1>0 DEF CutKeysAre
<1>a. left \in Nat /\ left = m + 1
  BY <1>1
<1>2. PICK f \in [1 .. m + 1 + n -> Int] : f = page.keys
  BY <1>1
<1>3. PICK g \in [1 .. m -> Int] : g = a.keys
  BY <1>1
<1>4. PICK h \in [1 .. n -> Int] : h = b.keys
  BY <1>1
<1>5. /\ \A i \in 1 .. m : g[i] = f[i]
      /\ \A i \in 1 .. n : h[i] = f[i + left]
      /\ \A i, j \in 1 .. m + 1 + n : i <= j => f[i] <= f[j]
      /\ sep = f[left] /\ sep \in Int
  BY <1>1, <1>2, <1>3, <1>4 DEF Ascending
<1>6. \A i, j \in 1 .. m : i <= j => g[i] <= g[j]
  <2> TAKE i, j \in 1 .. m
  <2>1. i \in 1 .. m + 1 + n /\ j \in 1 .. m + 1 + n
    OBVIOUS
  <2>2. QED
    BY <1>5, <2>1
<1>7. \A i, j \in 1 .. n : i <= j => h[i] <= h[j]
  <2> SUFFICES ASSUME NEW i \in 1 .. n, NEW j \in 1 .. n, i <= j PROVE h[i] <= h[j]
    OBVIOUS
  <2>1. i + left \in 1 .. m + 1 + n /\ j + left \in 1 .. m + 1 + n /\ i + left <= j + left
    BY <1>a
  <2>2. QED
    BY <1>5, <2>1
<1>8. Ascending(a.keys) /\ Ascending(b.keys)
  BY <1>1, <1>3, <1>4, <1>6, <1>7 DEF Ascending
<1>9. ASSUME NEW k \in Int
      PROVE  ChildSlot(page, k) \in 1 .. m + 1 + n + 1 /\ \A i \in 1 .. m + 1 + n : f[i] <= k <=> i < ChildSlot(page, k)
  BY <1>1, <1>2, ChildSlotFacts
<1>10. ASSUME NEW k \in Int, k < sep
       PROVE  ChildSlot(page, k) = ChildSlot(a, k) /\ ChildSlot(a, k) <= left
  <2>1. PICK s \in 1 .. m + 1 + n + 1 : s = ChildSlot(page, k) /\ \A i \in 1 .. m + 1 + n : f[i] <= k <=> i < s
    BY <1>9
  <2>2. ~ (left < s)
    <3>1. left \in 1 .. m + 1 + n /\ ~ (f[left] <= k)
      BY <1>1, <1>5, <1>10
    <3>2. QED
      BY <2>1, <3>1
  <2>3. s \in 1 .. m + 1
    BY <1>1, <2>1, <2>2
  <2>4. ASSUME NEW i \in 1 .. m PROVE g[i] <= k <=> i < s
    <3>1. i \in 1 .. m + 1 + n /\ g[i] = f[i]
      BY <1>5
    <3>2. QED
      BY <2>1, <3>1
  <2>5. \A i \in 1 .. m : s <= i => k < g[i]
    BY <2>3, <2>4
  <2>6. ChildSlot(a, k) = s
    BY <1>1, <1>3, <1>8, <2>3, <2>4, <2>5, ChildSlotIs
  <2>7. QED
    BY <1>1, <2>1, <2>2, <2>6
<1>11. ASSUME NEW k \in Int, sep <= k
       PROVE  ChildSlot(page, k) = ChildSlot(b, k) + left /\ left < ChildSlot(page, k)
  <2>1. PICK s \in 1 .. m + 1 + n + 1 : s = ChildSlot(page, k) /\ \A i \in 1 .. m + 1 + n : f[i] <= k <=> i < s
    BY <1>9
  <2>2. left < s
    <3>1. left \in 1 .. m + 1 + n /\ f[left] <= k
      BY <1>a, <1>5, <1>11
    <3>2. QED
      BY <2>1, <3>1
  <2>3. PICK t \in 1 .. n + 1 : s = t + left
    <3>1. s - left \in 1 .. n + 1 /\ s = (s - left) + left
      BY <1>a, <2>2
    <3>2. QED
      BY <3>1
  <2>4. ASSUME NEW i \in 1 .. n PROVE h[i] <= k <=> i < t
    <3>1. i + left \in 1 .. m + 1 + n /\ h[i] = f[i + left]
      BY <1>1, <1>5
    <3>2. f[i + left] <= k <=> i + left < s
      BY <2>1, <3>1
    <3>3. QED
      BY <1>1, <2>3, <3>1, <3>2
  <2>5. \A i \in 1 .. n : t <= i => k < h[i]
    BY <2>3, <2>4
  <2>6. ChildSlot(b, k) = t
    BY <1>1, <1>4, <1>8, <2>3, <2>4, <2>5, ChildSlotIs
  <2>7. QED
    BY <2>1, <2>2, <2>3, <2>6
<1>12. QED
  BY <1>8, <1>10, <1>11

\* Keys stay in order when two pages are joined around a separator.
LEMMA JoinedAscending ==
  ASSUME NEW a, NEW b, NEW page, NEW left, CutAt(a, b, page, left),
         Ascending(a.keys), Ascending(b.keys), NEW sep, sep = page.keys[left],
         \A i \in 1 .. Len(a.keys) : a.keys[i] <= sep,
         \A i \in 1 .. Len(b.keys) : sep <= b.keys[i]
  PROVE  Ascending(page.keys)
<1>0. PICK m, n \in Nat : CutKeysAre(a, b, page, left, m, n)
  BY CutKeys
<1>1. /\ left \in Nat /\ left = m + 1 /\ Len(page.keys) = m + 1 + n
      /\ Len(a.keys) = m /\ Len(b.keys) = n
      /\ a.keys \in [1 .. m -> Int] /\ b.keys \in [1 .. n -> Int]
      /\ page.keys \in [1 .. m + 1 + n -> Int]
      /\ a.keys \in Seq(Int) /\ b.keys \in Seq(Int) /\ page.keys \in Seq(Int)
      /\ \A i \in 1 .. m : a.keys[i] = page.keys[i]
      /\ \A i \in 1 .. n : b.keys[i] = page.keys[i + left]
  BY <1>0 DEF CutKeysAre
<1>a. left \in Nat /\ left = m + 1
  BY <1>1
<1>2. PICK f \in [1 .. m + 1 + n -> Int] : f = page.keys
  BY <1>1
<1>3. PICK g \in [1 .. m -> Int] : g = a.keys
  BY <1>1
<1>4. PICK h \in [1 .. n -> Int] : h = b.keys
  BY <1>1
<1>5. /\ \A i \in 1 .. m : g[i] = f[i] /\ g[i] <= sep
      /\ \A i \in 1 .. n : h[i] = f[i + left] /\ sep <= h[i]
      /\ sep = f[left] /\ sep \in Int
  BY <1>1, <1>2, <1>3, <1>4
<1>6. /\ \A i, j \in 1 .. m : i <= j => g[i] <= g[j]
      /\ \A i, j \in 1 .. n : i <= j => h[i] <= h[j]
  BY <1>1, <1>3, <1>4 DEF Ascending
<1>7. \A i \in 1 .. m + 1 + n : i \in 1 .. m \/ i = left \/ \E j \in 1 .. n : i = j + left
  <2> TAKE i \in 1 .. m + 1 + n
  <2> SUFFICES ASSUME left < i PROVE \E j \in 1 .. n : i = j + left
    BY <1>1
  <2>1. i - left \in 1 .. n /\ i = (i - left) + left
    BY <1>1
  <2>2. QED
    BY <2>1
<1>8. ASSUME NEW i \in 1 .. m + 1 + n, NEW j \in 1 .. m + 1 + n, i <= j PROVE f[i] <= f[j]
  <2>1. CASE i \in 1 .. m /\ j \in 1 .. m
    BY <1>5, <1>6, <1>8, <2>1
  <2>2. CASE i \in 1 .. m /\ ~ (j \in 1 .. m)
    <3>1. f[i] <= sep
      BY <1>5, <2>2
    <3>2. sep <= f[j]
      <4>1. CASE j = left
        BY <1>5, <4>1
      <4>2. CASE \E q \in 1 .. n : j = q + left
        <5>1. PICK q \in 1 .. n : j = q + left
          BY <4>2
        <5>2. QED
          BY <1>5, <5>1
      <4>3. QED
        BY <1>7, <2>2, <4>1, <4>2
    <3>3. QED
      BY <1>5, <3>1, <3>2
  <2>3. CASE i = left
    <3>1. CASE j = left
      BY <1>5, <2>3, <3>1
    <3>2. CASE \E q \in 1 .. n : j = q + left
      <4>1. PICK q \in 1 .. n : j = q + left
        BY <3>2
      <4>2. QED
        BY <1>5, <2>3, <4>1
    <3>3. ~ (j \in 1 .. m)
      BY <1>1, <1>8, <2>3
    <3>4. QED
      BY <1>7, <3>1, <3>2, <3>3
  <2>4. CASE \E q \in 1 .. n : i = q + left
    <3>1. PICK q \in 1 .. n : i = q + left
      BY <2>4
    <3>2. ~ (j \in 1 .. m) /\ j # left
      BY <1>1, <1>8, <3>1
    <3>3. PICK r \in 1 .. n : j = r + left
      BY <1>7, <3>2
    <3>4. q <= r
      BY <1>1, <1>8, <3>1, <3>3
    <3>5. h[q] <= h[r]
      BY <1>6, <3>4
    <3>6. QED
      BY <1>5, <3>1, <3>3, <3>5
  <2>5. QED
    BY <1>7, <2>1, <2>2, <2>3, <2>4
<1>9. QED
  BY <1>1, <1>2, <1>8 DEF Ascending

\* The children of such pages.
CutChildrenAre(a, b, page, left, r) ==
  /\ left \in Nat /\ r \in Nat /\ 1 <= left /\ 1 <= r
  /\ Len(a.children) = left /\ Len(b.children) = r
  /\ Len(page.children) = left + r /\ Len(page.keys) + 1 = left + r
  /\ Len(a.keys) + 1 = left /\ Len(b.keys) + 1 = r
  /\ \A i \in 1 .. left : a.children[i] = page.children[i]
  /\ \A i \in 1 .. r : b.children[i] = page.children[i + left]

\* The children of two halves and of the page they are cut from.
LEMMA CutChildren ==
  ASSUME NEW a, NEW b, NEW page, NEW left, CutAt(a, b, page, left)
  PROVE  \E r \in Nat : CutChildrenAre(a, b, page, left, r)
<1>1. PICK m, n \in Nat : CutKeysAre(a, b, page, left, m, n)
  BY CutKeys
<1>2. left \in Nat /\ left = m + 1 /\ Len(page.keys) = m + 1 + n /\ Len(a.keys) = m /\ Len(b.keys) = n
  BY <1>1 DEF CutKeysAre
<1>3. /\ Begins(a.children, page.children, left) /\ Ends(b.children, page.children, left)
      /\ b.children \in Seq(Int) /\ Len(page.children) = Len(page.keys) + 1
  BY DEF CutAt
<1>4. /\ Len(a.children) = left /\ \A i \in 1 .. left : a.children[i] = page.children[i]
  BY <1>3 DEF Begins
<1>5. PICK r \in Nat : r = Len(b.children)
  BY <1>3
<1>6. r + left = Len(page.children) /\ \A i \in 1 .. r : b.children[i] = page.children[i + left]
  BY <1>3, <1>5 DEF Ends
<1>7. r + left = m + 1 + n + 1
  BY <1>2, <1>3, <1>6
<1>8. /\ 1 <= left /\ 1 <= r /\ r + left = left + r
      /\ m + 1 + n + 1 = left + r /\ m + 1 = left /\ n + 1 = r
  BY <1>2, <1>7
<1>9. /\ Len(page.children) = left + r /\ Len(page.keys) + 1 = left + r
      /\ Len(a.keys) + 1 = left /\ Len(b.keys) + 1 = r
  BY <1>2, <1>6, <1>8
<1>10. QED
  BY <1>2, <1>4, <1>5, <1>6, <1>8, <1>9 DEF CutChildrenAre

\* The halves of an internal page fit: each stands for the keys on its side of
\* the separator (SplitPage, BorrowFromPage).
LEMMA CutFits ==
  ASSUME NEW page, NEW F \in SUBSET Int, NEW below, InnerFits(page, F, below),
         NEW a, NEW b, NEW left, CutAt(a, b, page, left), NEW sep, sep = page.keys[left]
  PROVE  /\ sep \in Key /\ sep \in F
         /\ InnerFits(a, {k \in F : k < sep}, below)
         /\ InnerFits(b, {k \in F : sep <= k}, below)
<1>1. PICK r \in Nat : CutChildrenAre(a, b, page, left, r)
  BY CutChildren
<1>2. PICK m, n \in Nat : CutKeysAre(a, b, page, left, m, n)
  BY CutKeys
<1>3. /\ left \in Nat /\ 1 <= left /\ 1 <= r
      /\ Len(a.children) = left /\ Len(b.children) = r /\ Len(page.children) = left + r
      /\ \A i \in 1 .. left : a.children[i] = page.children[i]
      /\ \A i \in 1 .. r : b.children[i] = page.children[i + left]
  BY <1>1 DEF CutChildrenAre
<1>4. /\ left = m + 1 /\ Len(page.keys) = m + 1 + n /\ Len(a.keys) = m /\ Len(b.keys) = n
      /\ \A i \in 1 .. m : a.keys[i] = page.keys[i]
      /\ \A i \in 1 .. n : b.keys[i] = page.keys[i + left]
  BY <1>2 DEF CutKeysAre
<1>5. Len(a.children) = Len(a.keys) + 1 /\ Len(b.children) = Len(b.keys) + 1
  BY <1>1 DEF CutChildrenAre
<1>6. /\ a.leaf = FALSE /\ b.leaf = FALSE
      /\ a.keys \in Seq(Key) /\ b.keys \in Seq(Key)
      /\ a.children \in Seq(Int) /\ b.children \in Seq(Int)
  BY DEF CutAt
<1>7. /\ Ascending(page.keys) /\ page.keys \in Seq(Key)
      /\ \A i \in 1 .. m + 1 + n : page.keys[i] \in F
      /\ \A k \in F : below[k] = page.children[ChildSlot(page, k)]
      /\ \A i \in 1 .. left + r : \E k \in F : ChildSlot(page, k) = i
      /\ \A j \in F, k \in Int : below[j] = below[k] => k \in F /\ ChildSlot(page, j) = ChildSlot(page, k)
  BY <1>3, <1>4 DEF InnerFits
<1>8. left \in 1 .. Len(page.keys) /\ left \in 1 .. m + 1 + n
  BY <1>3, <1>4
<1>9. sep \in Key /\ sep \in F /\ sep \in Int
  <2>1. sep \in Key
    BY <1>7, <1>8
  <2>2. sep \in F
    BY <1>7, <1>8
  <2>3. QED
    BY <2>1, <2>2
<1>10. /\ Ascending(a.keys) /\ Ascending(b.keys)
       /\ \A k \in Int :
            /\ k < sep => ChildSlot(page, k) = ChildSlot(a, k) /\ ChildSlot(a, k) <= left
            /\ sep <= k => ChildSlot(page, k) = ChildSlot(b, k) + left /\ left < ChildSlot(page, k)
  BY <1>7, CutSlots
<1>11. \A k \in F : /\ k \in Int
                    /\ ChildSlot(page, k) \in 1 .. left + r
                    /\ k < sep => ChildSlot(a, k) \in 1 .. left
                    /\ sep <= k => ChildSlot(b, k) \in 1 .. r
  <2> SUFFICES ASSUME NEW k \in F
               PROVE  /\ ChildSlot(page, k) \in 1 .. left + r
                      /\ ChildSlot(a, k) \in 1 .. Len(a.children)
                      /\ ChildSlot(b, k) \in 1 .. Len(b.children)
    BY <1>3
  <2>1. k \in Int /\ Len(page.children) = Len(page.keys) + 1
    BY DEF InnerFits
  <2>2. QED
    BY <1>3, <1>5, <1>7, <1>10, <2>1, ChildSlotFacts
<1>12. InnerFits(a, {k \in F : k < sep}, below)
  <2> DEFINE G == {k \in F : k < sep}
  <2>1. ASSUME NEW i \in 1 .. m PROVE a.keys[i] \in G
    <3>1. i \in 1 .. Len(page.keys) /\ i < left /\ a.keys[i] = page.keys[i]
      BY <1>4
    <3>2. page.keys[i] < sep
      BY <1>8, <3>1, KeysDiffer
    <3>3. QED
      BY <1>4, <1>7, <3>1, <3>2
  <2>2. ASSUME NEW k \in G PROVE below[k] = a.children[ChildSlot(a, k)]
    BY <1>3, <1>7, <1>10, <1>11
  <2>3. ASSUME NEW i \in 1 .. left PROVE \E k \in G : ChildSlot(a, k) = i
    <3>1. i \in 1 .. left + r
      BY <1>3
    <3>2. PICK k \in F : ChildSlot(page, k) = i
      BY <1>7, <3>1
    <3>3. ~ (sep <= k) /\ k \in Int
      BY <1>3, <1>10, <1>11, <3>2
    <3>4. k < sep
      BY <1>9, <3>3
    <3>5. QED
      BY <1>10, <1>11, <3>2, <3>4
  <2>4. ASSUME NEW j \in G, NEW k \in Int, below[j] = below[k]
        PROVE  k \in G /\ ChildSlot(a, j) = ChildSlot(a, k)
    <3>1. k \in F /\ ChildSlot(page, j) = ChildSlot(page, k) /\ j \in F /\ j < sep
      BY <1>7, <2>4
    <3>2. ~ (sep <= k)
      BY <1>3, <1>10, <1>11, <3>1
    <3>3. k < sep
      BY <1>9, <3>2
    <3>4. QED
      BY <1>10, <1>11, <3>1, <3>3
  <2>5. \A i \in 1 .. Len(a.keys) : a.keys[i] \in G
    BY <1>4, <2>1
  <2>6. \A i \in 1 .. Len(a.children) : \E k \in G : ChildSlot(a, k) = i
    BY <1>3, <2>3
  <2> HIDE DEF G
  <2>7. InnerFits(a, G, below)
    BY <1>5, <1>6, <1>10, <2>2, <2>4, <2>5, <2>6 DEF InnerFits
  <2>8. QED
    BY <2>7 DEF G
<1>13. InnerFits(b, {k \in F : sep <= k}, below)
  <2> DEFINE G == {k \in F : sep <= k}
  <2>1. ASSUME NEW i \in 1 .. n PROVE b.keys[i] \in G
    <3>0. left \in Nat /\ left = m + 1 /\ b.keys[i] = page.keys[i + left]
      BY <1>3, <1>4
    <3>1. i + left \in 1 .. m + 1 + n /\ left <= i + left /\ b.keys[i] = page.keys[i + left]
      BY <3>0
    <3>2. sep <= page.keys[i + left]
      BY <1>4, <1>7, <1>8, <3>1 DEF Ascending
    <3>3. QED
      BY <1>7, <3>1, <3>2
  <2>2. ASSUME NEW k \in G PROVE below[k] = b.children[ChildSlot(b, k)]
    BY <1>3, <1>7, <1>10, <1>11
  <2>3. ASSUME NEW i \in 1 .. r PROVE \E k \in G : ChildSlot(b, k) = i
    <3>1. i + left \in 1 .. left + r /\ ~ (i + left <= left)
      BY <1>3
    <3>2. PICK k \in F : ChildSlot(page, k) = i + left
      BY <1>7, <3>1
    <3>3. ~ (k < sep) /\ k \in Int
      BY <1>10, <1>11, <3>1, <3>2
    <3>4. sep <= k
      BY <1>9, <3>3
    <3>5. ChildSlot(b, k) + left = i + left /\ ChildSlot(b, k) \in 1 .. r
      BY <1>10, <1>11, <3>2, <3>4
    <3>6. ChildSlot(b, k) = i
      BY <1>3, <3>5
    <3>7. QED
      BY <3>4, <3>6
  <2>4. ASSUME NEW j \in G, NEW k \in Int, below[j] = below[k]
        PROVE  k \in G /\ ChildSlot(b, j) = ChildSlot(b, k)
    <3>1. k \in F /\ ChildSlot(page, j) = ChildSlot(page, k) /\ j \in F /\ sep <= j
      BY <1>7, <2>4
    <3>2. ~ (k < sep)
      BY <1>3, <1>10, <1>11, <3>1
    <3>3. sep <= k
      BY <1>9, <3>2
    <3>4. /\ ChildSlot(b, j) + left = ChildSlot(b, k) + left
          /\ ChildSlot(b, j) \in 1 .. r /\ ChildSlot(b, k) \in 1 .. r
      BY <1>10, <1>11, <3>1, <3>3
    <3>5. QED
      BY <1>3, <3>1, <3>3, <3>4
  <2>5. \A i \in 1 .. Len(b.keys) : b.keys[i] \in G
    BY <1>4, <2>1
  <2>6. \A i \in 1 .. Len(b.children) : \E k \in G : ChildSlot(b, k) = i
    BY <1>3, <2>3
  <2> HIDE DEF G
  <2>7. InnerFits(b, G, below)
    BY <1>5, <1>6, <1>10, <2>2, <2>4, <2>5, <2>6 DEF InnerFits
  <2>8. QED
    BY <2>7 DEF G
<1>14. QED
  BY <1>9, <1>12, <1>13

\* Two internal pages joined around their separator fit (MergePage).
LEMMA JoinFits ==
  ASSUME NEW page, NEW below, NEW a, NEW b, NEW left, CutAt(a, b, page, left),
         NEW sep, sep = page.keys[left],
         NEW Fa \in SUBSET Int, NEW Fb \in SUBSET Int, InnerFits(a, Fa, below), InnerFits(b, Fb, below),
         \A k \in Fa : k < sep, \A k \in Fb : sep <= k, sep \in Fb
  PROVE  InnerFits(page, Fa \cup Fb, below)
<1>1. PICK r \in Nat : CutChildrenAre(a, b, page, left, r)
  BY CutChildren
<1>2. PICK m, n \in Nat : CutKeysAre(a, b, page, left, m, n)
  BY CutKeys
<1>3. /\ left \in Nat /\ 1 <= left /\ 1 <= r
      /\ Len(a.children) = left /\ Len(b.children) = r /\ Len(page.children) = left + r
      /\ \A i \in 1 .. left : a.children[i] = page.children[i]
      /\ \A i \in 1 .. r : b.children[i] = page.children[i + left]
  BY <1>1 DEF CutChildrenAre
<1>4. /\ left = m + 1 /\ Len(page.keys) = m + 1 + n /\ Len(a.keys) = m /\ Len(b.keys) = n
      /\ \A i \in 1 .. m : a.keys[i] = page.keys[i]
      /\ \A i \in 1 .. n : b.keys[i] = page.keys[i + left]
  BY <1>2 DEF CutKeysAre
<1>5. /\ page.leaf = FALSE /\ page.keys \in Seq(Key) /\ page.children \in Seq(Int)
      /\ Len(page.children) = Len(page.keys) + 1
  BY DEF CutAt
<1>6. /\ Ascending(a.keys) /\ Ascending(b.keys)
      /\ Len(a.children) = Len(a.keys) + 1 /\ Len(b.children) = Len(b.keys) + 1
      /\ \A i \in 1 .. m : a.keys[i] \in Fa
      /\ \A i \in 1 .. n : b.keys[i] \in Fb
  BY <1>4 DEF InnerFits
<1>7. /\ \A k \in Fa : below[k] = a.children[ChildSlot(a, k)]
      /\ \A i \in 1 .. left : \E k \in Fa : ChildSlot(a, k) = i
      /\ \A j \in Fa, k \in Int : below[j] = below[k] => k \in Fa /\ ChildSlot(a, j) = ChildSlot(a, k)
  BY <1>3 DEF InnerFits
<1>8. /\ \A k \in Fb : below[k] = b.children[ChildSlot(b, k)]
      /\ \A i \in 1 .. r : \E k \in Fb : ChildSlot(b, k) = i
      /\ \A j \in Fb, k \in Int : below[j] = below[k] => k \in Fb /\ ChildSlot(b, j) = ChildSlot(b, k)
  BY <1>3 DEF InnerFits
<1>9. sep \in Int
  OBVIOUS
<1>10. Ascending(page.keys)
  <2>1. ASSUME NEW i \in 1 .. Len(a.keys) PROVE a.keys[i] <= sep
    <3>1. a.keys[i] \in Fa
      BY <1>4, <1>6
    <3>2. a.keys[i] < sep /\ a.keys[i] \in Int
      BY <3>1
    <3>3. QED
      BY <1>9, <3>2
  <2>2. \A i \in 1 .. Len(b.keys) : sep <= b.keys[i]
    BY <1>4, <1>6
  <2>3. QED
    BY <1>6, <2>1, <2>2, JoinedAscending
<1>11. \A k \in Int :
         /\ k < sep => ChildSlot(page, k) = ChildSlot(a, k) /\ ChildSlot(a, k) <= left
         /\ sep <= k => ChildSlot(page, k) = ChildSlot(b, k) + left /\ left < ChildSlot(page, k)
  BY <1>10, CutSlots
<1>12. /\ \A k \in Fa : ChildSlot(a, k) \in 1 .. left /\ k \in Int /\ k < sep /\ ChildSlot(page, k) = ChildSlot(a, k)
       /\ \A k \in Fb : ChildSlot(b, k) \in 1 .. r /\ k \in Int /\ sep <= k /\ ChildSlot(page, k) = ChildSlot(b, k) + left
  <2>1. \A k \in Int : ChildSlot(a, k) \in 1 .. Len(a.keys) + 1 /\ ChildSlot(b, k) \in 1 .. Len(b.keys) + 1
    BY <1>6, ChildSlotFacts
  <2>2. Len(a.keys) + 1 = left /\ Len(b.keys) + 1 = r
    BY <1>3, <1>6
  <2>3. QED
    BY <1>11, <2>1, <2>2
<1> DEFINE F == Fa \cup Fb
<1>13. \A i \in 1 .. Len(page.keys) : page.keys[i] \in F
  <2> TAKE i \in 1 .. Len(page.keys)
  <2>1. CASE i \in 1 .. m
    BY <1>4, <1>6, <2>1
  <2>2. CASE i = left
    BY <2>2
  <2>3. CASE left < i
    <3>0. left \in Nat /\ left = m + 1 /\ i \in 1 .. m + 1 + n
      BY <1>3, <1>4
    <3>1. i - left \in 1 .. n /\ i = (i - left) + left
      BY <2>3, <3>0
    <3>2. PICK q \in 1 .. n : i = q + left
      BY <3>1
    <3>3. QED
      BY <1>4, <1>6, <3>2
  <2>4. QED
    BY <1>3, <1>4, <2>1, <2>2, <2>3
<1>14. ASSUME NEW k \in F PROVE below[k] = page.children[ChildSlot(page, k)]
  <2>1. CASE k \in Fa
    BY <1>3, <1>7, <1>12, <2>1
  <2>2. CASE k \in Fb
    <3>1. PICK s \in 1 .. r : s = ChildSlot(b, k) /\ ChildSlot(page, k) = s + left
      BY <1>12, <2>2
    <3>2. below[k] = b.children[s]
      BY <1>8, <2>2, <3>1
    <3>3. QED
      BY <1>3, <3>1, <3>2
  <2>3. QED
    BY <2>1, <2>2
<1>15. ASSUME NEW i \in 1 .. Len(page.children) PROVE \E k \in F : ChildSlot(page, k) = i
  <2>1. CASE i <= left
    <3>1. i \in 1 .. left
      BY <1>3, <2>1
    <3>2. PICK k \in Fa : ChildSlot(a, k) = i
      BY <1>7, <3>1
    <3>3. QED
      BY <1>12, <3>2
  <2>2. CASE ~(i <= left)
    <3>1. i - left \in 1 .. r /\ i = (i - left) + left
      BY <1>3, <2>2
    <3>2. PICK q \in 1 .. r : i = q + left
      BY <3>1
    <3>3. PICK k \in Fb : ChildSlot(b, k) = q
      BY <1>8
    <3>4. QED
      BY <1>12, <3>2, <3>3
  <2>3. QED
    BY <2>1, <2>2
<1>16. ASSUME NEW j \in F, NEW k \in Int, below[j] = below[k]
       PROVE  k \in F /\ ChildSlot(page, j) = ChildSlot(page, k)
  <2>1. CASE j \in Fa
    <3>1. k \in Fa /\ ChildSlot(a, j) = ChildSlot(a, k)
      BY <1>7, <1>16, <2>1
    <3>2. QED
      BY <1>12, <2>1, <3>1
  <2>2. CASE j \in Fb
    <3>1. k \in Fb /\ ChildSlot(b, j) = ChildSlot(b, k)
      BY <1>8, <1>16, <2>2
    <3>2. QED
      BY <1>12, <2>2, <3>1
  <2>3. QED
    BY <2>1, <2>2
<1> HIDE DEF F
<1>17. InnerFits(page, F, below)
  BY <1>5, <1>10, <1>13, <1>14, <1>15, <1>16 DEF InnerFits
<1>18. QED
  BY <1>17 DEF F

-----------------------------------------------------------------------------
\* A child that is merged away leaves its parent.

\* Keys stay in order when one is taken out.
LEMMA RemovedAscending ==
  ASSUME NEW big, Ascending(big), NEW small, small \in Seq(Int), NEW d \in 1 .. Len(big),
         Removed(small, big, d)
  PROVE  Ascending(small)
<1>1. PICK n \in Nat : n = Len(small) /\ Len(big) = n + 1
  BY DEF Removed, Ascending
<1>2. PICK f \in [1 .. n + 1 -> Int] : f = big
  BY <1>1 DEF Ascending
<1>3. PICK g \in [1 .. n -> Int] : g = small
  BY <1>1
<1>4. /\ \A i, j \in 1 .. n + 1 : i <= j => f[i] <= f[j]
      /\ \A i \in 1 .. n : i < d => g[i] = f[i]
      /\ \A i \in 1 .. n : d <= i => g[i] = f[i + 1]
      /\ d \in 1 .. n + 1
  BY <1>1, <1>2, <1>3 DEF Removed, Ascending
<1>5. ASSUME NEW i \in 1 .. n, NEW j \in 1 .. n, i <= j PROVE g[i] <= g[j]
  <2>1. i \in 1 .. n + 1 /\ j \in 1 .. n + 1 /\ i + 1 \in 1 .. n + 1 /\ j + 1 \in 1 .. n + 1
    OBVIOUS
  <2>2. CASE j < d
    BY <1>4, <1>5, <2>1, <2>2
  <2>3. CASE i < d /\ d <= j
    BY <1>4, <1>5, <2>1, <2>3
  <2>4. CASE d <= i
    BY <1>4, <1>5, <2>1, <2>4
  <2>5. QED
    BY <1>4, <1>5, <2>2, <2>3, <2>4
<1>6. QED
  BY <1>1, <1>3, <1>5 DEF Ascending

\* The slots of a page that has lost its key at d.
LEMMA SlotsAfterRemove ==
  ASSUME NEW page, Ascending(page.keys), NEW new, new.keys \in Seq(Int),
         NEW d \in 1 .. Len(page.keys), Removed(new.keys, page.keys, d)
  PROVE  /\ Ascending(new.keys)
         /\ \A k \in Int :
              /\ ChildSlot(page, k) <= d => ChildSlot(new, k) = ChildSlot(page, k)
              /\ d < ChildSlot(page, k) => ChildSlot(page, k) = ChildSlot(new, k) + 1
<1>1. PICK n \in Nat : n = Len(new.keys) /\ Len(page.keys) = n + 1
  BY DEF Removed, Ascending
<1>2. PICK f \in [1 .. n + 1 -> Int] : f = page.keys
  BY <1>1 DEF Ascending
<1>3. PICK g \in [1 .. n -> Int] : g = new.keys
  BY <1>1
<1>4. /\ \A i \in 1 .. n : i < d => g[i] = f[i]
      /\ \A i \in 1 .. n : d <= i => g[i] = f[i + 1]
      /\ d \in 1 .. n + 1
  BY <1>1, <1>2, <1>3 DEF Removed
<1>5. Ascending(new.keys)
  BY RemovedAscending
<1>6. ASSUME NEW k \in Int
      PROVE  ChildSlot(page, k) \in 1 .. n + 2 /\ \A i \in 1 .. n + 1 : f[i] <= k <=> i < ChildSlot(page, k)
  <2>1. ChildSlot(page, k) \in 1 .. Len(page.keys) + 1 /\ \A i \in 1 .. Len(page.keys) : page.keys[i] <= k <=> i < ChildSlot(page, k)
    BY ChildSlotFacts
  <2>2. QED
    BY <1>1, <1>2, <2>1
<1>7. ASSUME NEW k \in Int, ChildSlot(page, k) <= d PROVE ChildSlot(new, k) = ChildSlot(page, k)
  <2>1. PICK s \in 1 .. n + 2 : s = ChildSlot(page, k) /\ \A i \in 1 .. n + 1 : f[i] <= k <=> i < s
    BY <1>6
  <2>2. s \in 1 .. n + 1 /\ s <= d
    BY <1>4, <1>7, <2>1
  <2>3. ASSUME NEW i \in 1 .. n PROVE g[i] <= k <=> i < s
    <3>1. i \in 1 .. n + 1 /\ i + 1 \in 1 .. n + 1
      OBVIOUS
    <3>2. CASE i < d
      BY <1>4, <2>1, <3>1, <3>2
    <3>3. CASE d <= i
      <4>1. g[i] = f[i + 1] /\ ~ (i + 1 < s) /\ ~ (i < s)
        BY <1>4, <2>2, <3>3
      <4>2. QED
        BY <2>1, <3>1, <4>1
    <3>4. QED
      BY <1>4, <3>2, <3>3
  <2>4. \A i \in 1 .. n : s <= i => k < g[i]
    BY <2>2, <2>3
  <2>5. ChildSlot(new, k) = s
    BY <1>1, <1>3, <1>5, <2>2, <2>3, <2>4, ChildSlotIs
  <2>6. QED
    BY <2>1, <2>5
<1>8. ASSUME NEW k \in Int, d < ChildSlot(page, k) PROVE ChildSlot(page, k) = ChildSlot(new, k) + 1
  <2>1. PICK s \in 1 .. n + 2 : s = ChildSlot(page, k) /\ \A i \in 1 .. n + 1 : f[i] <= k <=> i < s
    BY <1>6
  <2>2. PICK t \in 1 .. n + 1 : s = t + 1 /\ d <= t
    <3>1. s - 1 \in 1 .. n + 1 /\ s = (s - 1) + 1 /\ d <= s - 1
      BY <1>4, <1>8, <2>1
    <3>2. QED
      BY <3>1
  <2>3. ASSUME NEW i \in 1 .. n PROVE g[i] <= k <=> i < t
    <3>1. i \in 1 .. n + 1 /\ i + 1 \in 1 .. n + 1
      OBVIOUS
    <3>2. CASE i < d
      <4>1. g[i] = f[i] /\ i < s /\ i < t
        BY <1>4, <2>2, <3>2
      <4>2. QED
        BY <2>1, <3>1, <4>1
    <3>3. CASE d <= i
      <4>1. g[i] = f[i + 1] /\ (i + 1 < s <=> i < t)
        BY <1>4, <2>2, <3>3
      <4>2. QED
        BY <2>1, <3>1, <4>1
    <3>4. QED
      BY <1>4, <3>2, <3>3
  <2>4. \A i \in 1 .. n : t <= i => k < g[i]
    BY <2>2, <2>3
  <2>5. ChildSlot(new, k) = t
    BY <1>1, <1>3, <1>5, <2>2, <2>3, <2>4, ChildSlotIs
  <2>6. QED
    BY <2>1, <2>2, <2>5
<1>9. QED
  BY <1>5, <1>7, <1>8

\* Larger keys turn no further left.
LEMMA SlotsMonotone ==
  ASSUME NEW page, Ascending(page.keys), NEW j \in Int, NEW k \in Int, j <= k
  PROVE  ChildSlot(page, j) <= ChildSlot(page, k)
<1>1. PICK n \in Nat : n = Len(page.keys)
  BY DEF Ascending
<1>2. PICK s \in 1 .. n + 1 : s = ChildSlot(page, j) /\ \A i \in 1 .. n : page.keys[i] <= j <=> i < s
  BY <1>1, ChildSlotFacts
<1>3. PICK t \in 1 .. n + 1 : t = ChildSlot(page, k) /\ \A i \in 1 .. n : page.keys[i] <= k <=> i < t
  BY <1>1, ChildSlotFacts
<1>4. \A i \in 1 .. n : page.keys[i] \in Int
  BY <1>1 DEF Ascending
<1>5. ~ (t < s)
  <2> SUFFICES ASSUME t < s PROVE FALSE
    OBVIOUS
  <2>1. t \in 1 .. n /\ page.keys[t] <= j /\ ~ (page.keys[t] <= k)
    BY <1>2, <1>3
  <2>2. QED
    BY <1>4, <2>1
<1>6. QED
  BY <1>2, <1>3, <1>5

\* Children next to each other: the keys of the left one are below the
\* separator, those of the right one are not.
LEMMA Neighbours ==
  ASSUME NEW page, NEW F \in SUBSET Int, NEW see, InnerFits(page, F, see),
         NEW d \in 1 .. Len(page.keys), NEW l, l = page.children[d], NEW r, r = page.children[d + 1],
         NEW sep, sep = page.keys[d]
  PROVE  /\ sep \in F /\ sep \in Key /\ see[sep] = r /\ l # r
         /\ \A k \in Int : see[k] = l => k \in F /\ ChildSlot(page, k) = d /\ k < sep
         /\ \A k \in Int : see[k] = r => k \in F /\ ChildSlot(page, k) = d + 1 /\ sep <= k
         /\ \E k \in Int : see[k] = l
<1>1. PICK n \in Nat : n = Len(page.keys) /\ Len(page.children) = n + 1 /\ d \in 1 .. n
  BY DEF InnerFits
<1>2. /\ Ascending(page.keys) /\ page.keys \in Seq(Key)
      /\ \A i \in 1 .. n : page.keys[i] \in F
      /\ \A k \in F : see[k] = page.children[ChildSlot(page, k)]
      /\ \A i \in 1 .. n + 1 : \E k \in F : ChildSlot(page, k) = i
      /\ \A j \in F, k \in Int : see[j] = see[k] => k \in F /\ ChildSlot(page, j) = ChildSlot(page, k)
  BY <1>1 DEF InnerFits
<1>3. \A k \in Int : ChildSlot(page, k) \in 1 .. n + 1 /\ (sep <= k <=> d < ChildSlot(page, k))
  BY <1>1, <1>2, ChildSlotFacts
<1>4. sep \in F /\ sep \in Int
  BY <1>1, <1>2
<1>5. sep \in Key
  BY <1>1, <1>2
<1>6. \A k \in Int : k < sep \/ sep <= k
  BY <1>4
<1>7. \A k \in Int : see[k] = l => k \in F /\ ChildSlot(page, k) = d /\ k < sep
  <2>1. PICK j \in F : ChildSlot(page, j) = d
    BY <1>1, <1>2
  <2>2. see[j] = l
    BY <1>2, <2>1
  <2>3. ASSUME NEW k \in Int, see[k] = l PROVE k \in F /\ ChildSlot(page, k) = d
    BY <1>2, <2>1, <2>2, <2>3
  <2>4. ASSUME NEW k \in Int, see[k] = l PROVE k < sep
    <3>a. sep <= k <=> d < ChildSlot(page, k)
      BY <1>3
    <3>b. ChildSlot(page, k) = d /\ d \in Int
      BY <1>1, <2>3, <2>4
    <3>1. ~ (sep <= k)
      BY <3>a, <3>b
    <3>2. QED
      BY <1>6, <3>1
  <2>5. QED
    BY <2>3, <2>4
<1>8. \A k \in Int : see[k] = r => k \in F /\ ChildSlot(page, k) = d + 1 /\ sep <= k
  <2>1. PICK j \in F : ChildSlot(page, j) = d + 1
    BY <1>1, <1>2
  <2>2. see[j] = r
    BY <1>2, <2>1
  <2>3. ASSUME NEW k \in Int, see[k] = r PROVE k \in F /\ ChildSlot(page, k) = d + 1
    BY <1>2, <2>1, <2>2, <2>3
  <2>4. QED
    BY <1>1, <1>3, <2>3
<1>9. \E k \in Int : see[k] = l
  <2>1. PICK j \in F : ChildSlot(page, j) = d
    BY <1>1, <1>2
  <2>2. QED
    BY <1>2, <2>1
<1>10. l # r
  BY <1>1, <1>7, <1>8, <1>9
<1>11. see[sep] = r
  <2>0. sep <= sep
    BY <1>4
  <2>1. d < ChildSlot(page, sep) /\ ChildSlot(page, sep) \in 1 .. n + 1
    BY <1>3, <1>4, <2>0
  <2>2. ~ (d + 1 < ChildSlot(page, sep))
    <3> SUFFICES ASSUME d + 1 < ChildSlot(page, sep) PROVE FALSE
      OBVIOUS
    <3>1. d + 1 \in 1 .. Len(page.keys)
      BY <1>1, <2>1
    <3>2. page.keys[d + 1] <= sep
      BY <1>2, <1>4, <3>1, ChildSlotFacts
    <3>3. sep < page.keys[d + 1]
      BY <1>1, <3>1, KeysDiffer
    <3>4. page.keys[d + 1] \in Int
      BY <1>1, <1>2, <3>1
    <3>5. QED
      BY <1>4, <3>2, <3>3, <3>4
  <2>3. ChildSlot(page, sep) = d + 1
    BY <1>1, <2>1, <2>2
  <2>4. QED
    BY <1>2, <1>4, <2>3
<1>12. QED
  BY <1>4, <1>5, <1>7, <1>8, <1>9, <1>10, <1>11

\* row is see after page l has taken over the keys of page r.
Given(row, see, l, r) ==
  \A k \in Int : (see[k] = r => row[k] = l) /\ (see[k] # r => row[k] = see[k])

\* new is page without its key at d and the child after it.
Dropped(new, page, d) ==
  /\ new.leaf = FALSE
  /\ new.keys \in Seq(Key) /\ new.keys \in Seq(Int) /\ new.children \in Seq(Int)
  /\ Removed(new.keys, page.keys, d) /\ Removed(new.children, page.children, d + 1)

\* DropChild takes out a key and the child after it ...
LEMMA DropAtSlot ==
  ASSUME NEW page, NEW F, NEW see, InnerFits(page, F, see), NEW d \in 1 .. Len(page.keys),
         NEW new, new = Internal(RemoveAt(page.keys, d), RemoveAt(page.children, d + 1))
  PROVE  Dropped(new, page, d)
<1>1. page.keys \in Seq(Key) /\ page.children \in Seq(Int) /\ Len(page.children) = Len(page.keys) + 1
  BY DEF InnerFits
<1>2. d + 1 \in 1 .. Len(page.children)
  BY <1>1
<1>3. /\ new.leaf = FALSE /\ new.keys = RemoveAt(page.keys, d)
      /\ new.children = RemoveAt(page.children, d + 1)
  BY DEF Internal
<1>4. RemoveAt(page.keys, d) \in Seq(Key) /\ Removed(RemoveAt(page.keys, d), page.keys, d)
  BY <1>1, RemovedOne
<1>5. /\ RemoveAt(page.children, d + 1) \in Seq(Int)
      /\ Removed(RemoveAt(page.children, d + 1), page.children, d + 1)
  BY <1>1, <1>2, RemovedOne
<1>6. RemoveAt(page.keys, d) \in Seq(Int)
  BY <1>4, KeysAreNumbers
<1>7. QED
  BY <1>3, <1>4, <1>5, <1>6 DEF Dropped

\* ... so that the page fits when the child before it has taken over.
LEMMA DropFits ==
  ASSUME NEW page, NEW F \in SUBSET Int, NEW see, InnerFits(page, F, see),
         NEW d \in 1 .. Len(page.keys), NEW l, l = page.children[d], NEW r, r = page.children[d + 1],
         NEW row, Given(row, see, l, r), NEW new, Dropped(new, page, d)
  PROVE  InnerFits(new, F, row)
<1>1. PICK n \in Nat : Len(page.keys) = n + 1 /\ Len(page.children) = n + 2
                       /\ Len(new.keys) = n /\ Len(new.children) = n + 1
  <2>1. Len(page.children) = Len(page.keys) + 1 /\ Len(new.keys) \in Nat /\ Len(new.children) \in Nat
    BY DEF InnerFits, Dropped
  <2>2. Len(new.keys) + 1 = Len(page.keys) /\ Len(new.children) + 1 = Len(page.children)
    BY DEF Dropped, Removed
  <2>3. PICK n \in Nat : n = Len(new.keys)
    BY <2>1
  <2>4. PICK c \in Nat : c = Len(new.children)
    BY <2>1
  <2>5. Len(page.keys) = n + 1
    BY <2>2, <2>3
  <2>6. Len(page.children) = n + 1 + 1
    BY <2>1, <2>5
  <2>7. c + 1 = Len(page.children)
    BY <2>2, <2>4
  <2>8. c = n + 1 /\ n + 1 + 1 = n + 2
    BY <2>6, <2>7
  <2>9. QED
    BY <2>3, <2>4, <2>5, <2>6, <2>8
<1>2. /\ Ascending(page.keys)
      /\ \A i \in 1 .. n + 1 : page.keys[i] \in F
      /\ \A k \in F : see[k] = page.children[ChildSlot(page, k)]
      /\ \A i \in 1 .. n + 2 : \E k \in F : ChildSlot(page, k) = i
      /\ \A j \in F, k \in Int : see[j] = see[k] => k \in F /\ ChildSlot(page, j) = ChildSlot(page, k)
  BY <1>1 DEF InnerFits
<1>3. new.leaf = FALSE /\ new.keys \in Seq(Key) /\ new.keys \in Seq(Int) /\ new.children \in Seq(Int)
  BY DEF Dropped
<1>4. d \in 1 .. n + 1
  BY <1>1
<1>5. /\ \A i \in 1 .. n : new.keys[i] = page.keys[i] \/ new.keys[i] = page.keys[i + 1]
      /\ \A i \in 1 .. n + 1 : i <= d => new.children[i] = page.children[i]
      /\ \A i \in 1 .. n + 1 : d < i => new.children[i] = page.children[i + 1]
  <2>1. Removed(new.keys, page.keys, d) /\ Removed(new.children, page.children, d + 1)
    BY DEF Dropped
  <2>2. \A i \in 1 .. n : new.keys[i] = page.keys[i] \/ new.keys[i] = page.keys[i + 1]
    BY <1>1, <1>4, <2>1 DEF Removed
  <2>3. \A i \in 1 .. n + 1 : i <= d => new.children[i] = page.children[i]
    BY <1>1, <1>4, <2>1 DEF Removed
  <2>4. \A i \in 1 .. n + 1 : d < i => new.children[i] = page.children[i + 1]
    BY <1>1, <1>4, <2>1 DEF Removed
  <2>5. QED
    BY <2>2, <2>3, <2>4
<1>6. /\ Ascending(new.keys)
      /\ \A k \in Int :
           /\ ChildSlot(page, k) <= d => ChildSlot(new, k) = ChildSlot(page, k)
           /\ d < ChildSlot(page, k) => ChildSlot(page, k) = ChildSlot(new, k) + 1
  <2>1. Removed(new.keys, page.keys, d)
    BY DEF Dropped
  <2>2. QED
    BY <1>2, <1>3, <2>1, SlotsAfterRemove
<1>7. /\ \A k \in Int : see[k] = l => k \in F /\ ChildSlot(page, k) = d
      /\ \A k \in Int : see[k] = r => k \in F /\ ChildSlot(page, k) = d + 1
  BY Neighbours
<1>8. \A k \in Int : ChildSlot(page, k) \in 1 .. n + 2 /\ ChildSlot(new, k) \in 1 .. n + 1
  <2> TAKE k \in Int
  <2>1. ChildSlot(page, k) \in 1 .. Len(page.keys) + 1
    BY <1>2, ChildSlotFacts
  <2>2. ChildSlot(new, k) \in 1 .. Len(new.keys) + 1
    BY <1>6, ChildSlotFacts
  <2>3. QED
    BY <1>1, <2>1, <2>2
<1>9. \A i \in 1 .. Len(new.keys) : new.keys[i] \in F
  <2> TAKE i \in 1 .. Len(new.keys)
  <2>1. i \in 1 .. n /\ i \in 1 .. n + 1 /\ i + 1 \in 1 .. n + 1
    BY <1>1
  <2>2. QED
    BY <1>2, <1>5, <2>1
<1>10. ASSUME NEW k \in F PROVE row[k] = new.children[ChildSlot(new, k)]
  <2>1. PICK s \in 1 .. n + 2 : s = ChildSlot(page, k) /\ see[k] = page.children[s] /\ k \in Int
    BY <1>2, <1>8
  <2>2. CASE s <= d
    <3>1. see[k] # r
      BY <1>4, <1>7, <2>1, <2>2
    <3>2. row[k] = see[k]
      BY <2>1, <3>1 DEF Given
    <3>3. ChildSlot(new, k) = s /\ s \in 1 .. n + 1
      BY <1>4, <1>6, <2>1, <2>2
    <3>4. QED
      BY <1>5, <2>1, <2>2, <3>2, <3>3
  <2>3. CASE s = d + 1
    <3>1. row[k] = l
      BY <2>1, <2>3 DEF Given
    <3>0. d < s
      BY <1>4, <2>3
    <3>2. s = ChildSlot(new, k) + 1 /\ ChildSlot(new, k) \in 1 .. n + 1
      BY <1>6, <1>8, <2>1, <3>0
    <3>3. ChildSlot(new, k) = d
      BY <1>4, <2>3, <3>2
    <3>4. QED
      BY <1>4, <1>5, <3>1, <3>3
  <2>4. CASE d + 1 < s
    <3>1. see[k] # r
      BY <1>4, <1>7, <2>1, <2>4
    <3>2. row[k] = see[k]
      BY <2>1, <3>1 DEF Given
    <3>0. d < s
      BY <1>4, <2>4
    <3>3. PICK t \in 1 .. n + 1 : t = ChildSlot(new, k) /\ s = t + 1
      BY <1>6, <1>8, <2>1, <3>0
    <3>4. d < t
      BY <1>4, <2>4, <3>3
    <3>5. QED
      BY <1>5, <2>1, <3>2, <3>3, <3>4
  <2>5. QED
    BY <1>4, <2>2, <2>3, <2>4
<1>11. ASSUME NEW i \in 1 .. Len(new.children) PROVE \E k \in F : ChildSlot(new, k) = i
  <2>1. i \in 1 .. n + 1 /\ i \in 1 .. n + 2 /\ i + 1 \in 1 .. n + 2
    BY <1>1
  <2>2. CASE i <= d
    <3>1. PICK k \in F : ChildSlot(page, k) = i
      BY <1>2, <2>1
    <3>2. QED
      BY <1>6, <2>2, <3>1
  <2>3. CASE d < i
    <3>1. PICK k \in F : ChildSlot(page, k) = i + 1
      BY <1>2, <2>1
    <3>2. k \in Int /\ d < i + 1
      BY <1>4, <2>3
    <3>3. i + 1 = ChildSlot(new, k) + 1 /\ ChildSlot(new, k) \in 1 .. n + 1
      BY <1>6, <1>8, <3>1, <3>2
    <3>4. ChildSlot(new, k) = i
      BY <3>3
    <3>5. QED
      BY <3>4
  <2>4. QED
    BY <1>4, <2>2, <2>3
<1>12. ASSUME NEW j \in F, NEW k \in Int, row[j] = row[k]
       PROVE  k \in F /\ ChildSlot(new, j) = ChildSlot(new, k)
  <2>1. CASE row[j] = l
    <3>1. (see[j] = l \/ see[j] = r) /\ (see[k] = l \/ see[k] = r)
      BY <1>12, <2>1 DEF Given
    <3>2. \A x \in Int : see[x] = l \/ see[x] = r => x \in F /\ ChildSlot(new, x) = d
      <4> TAKE x \in Int
      <4>1. CASE see[x] = l
        BY <1>4, <1>6, <1>7, <4>1
      <4>2. CASE see[x] = r
        <5>1. x \in F /\ d + 1 = ChildSlot(new, x) + 1 /\ ChildSlot(new, x) \in 1 .. n + 1
          BY <1>4, <1>6, <1>7, <1>8, <4>2
        <5>2. ChildSlot(new, x) = d
          BY <1>4, <5>1
        <5>3. QED
          BY <5>1, <5>2
      <4>3. QED
        BY <4>1, <4>2
    <3>3. QED
      BY <3>1, <3>2
  <2>2. CASE row[j] # l
    <3>1. see[j] = see[k]
      BY <1>12, <2>2 DEF Given
    <3>2. k \in F /\ ChildSlot(page, j) = ChildSlot(page, k) /\ j \in Int
      BY <1>2, <3>1
    <3>3. CASE ChildSlot(page, j) <= d
      BY <1>6, <3>2, <3>3
    <3>4. CASE d < ChildSlot(page, j)
      <4>1. /\ ChildSlot(new, j) + 1 = ChildSlot(new, k) + 1
            /\ ChildSlot(new, j) \in 1 .. n + 1 /\ ChildSlot(new, k) \in 1 .. n + 1
        BY <1>6, <1>8, <3>2, <3>4
      <4>2. ChildSlot(new, j) = ChildSlot(new, k)
        BY <4>1
      <4>3. QED
        BY <3>2, <4>2
    <3>5. QED
      BY <1>4, <1>8, <3>2, <3>3, <3>4
  <2>3. QED
    BY <2>1, <2>2
<1>13. Len(new.children) = Len(new.keys) + 1
  BY <1>1
<1>14. QED
  BY <1>3, <1>6, <1>9, <1>10, <1>11, <1>12, <1>13 DEF InnerFits

\* What a page with an interval of keys sends to one child is an interval.
LEMMA ChildrenConvex ==
  ASSUME NEW page, NEW F \in SUBSET Int, NEW see, InnerFits(page, F, see),
         \A i \in F, k \in F, j \in Int : i < j /\ j < k => j \in F,
         NEW i \in Int, NEW j \in Int, NEW k \in Int, i < j, j < k, i \in F, see[i] = see[k]
  PROVE  see[j] = see[i]
<1>1. /\ Ascending(page.keys) /\ Len(page.keys) \in Nat
      /\ \A m \in F : see[m] = page.children[ChildSlot(page, m)]
      /\ k \in F /\ ChildSlot(page, i) = ChildSlot(page, k)
  BY DEF InnerFits
<1>2. j \in F
  BY <1>1
<1>3. /\ ChildSlot(page, i) <= ChildSlot(page, j) /\ ChildSlot(page, j) <= ChildSlot(page, k)
      /\ ChildSlot(page, i) \in Int /\ ChildSlot(page, j) \in Int
  <2>1. ChildSlot(page, i) <= ChildSlot(page, j)
    BY <1>1, SlotsMonotone
  <2>2. ChildSlot(page, j) <= ChildSlot(page, k)
    BY <1>1, SlotsMonotone
  <2>3. ChildSlot(page, i) \in Int /\ ChildSlot(page, j) \in Int
    BY <1>1, ChildSlotFacts
  <2>4. QED
    BY <2>1, <2>2, <2>3
<1>4. ChildSlot(page, j) = ChildSlot(page, i)
  BY <1>1, <1>3
<1>5. QED
  BY <1>1, <1>2, <1>4

-----------------------------------------------------------------------------
\* Leaves.

\* The leaves a and b hold between them the entries of page, a the first left.
LeafCut(a, b, page, left) ==
  /\ a.leaf = TRUE /\ b.leaf = TRUE /\ page.leaf = TRUE
  /\ a.entries \in Seq(Key \X Value) /\ b.entries \in Seq(Key \X Value)
  /\ page.entries \in Seq(Key \X Value)
  /\ left \in 0 .. Len(page.entries)
  /\ Begins(a.entries, page.entries, left) /\ Ends(b.entries, page.entries, left)

\* The lengths and the entries of such leaves.
LeafCutAre(a, b, page, left, r) ==
  /\ left \in Nat /\ r \in Nat
  /\ Len(a.entries) = left /\ Len(b.entries) = r /\ Len(page.entries) = left + r
  /\ \A i \in 1 .. left : a.entries[i] = page.entries[i]
  /\ \A i \in 1 .. r : b.entries[i] = page.entries[i + left]

\* The entries of two leaves and of the leaf they are cut from.
LEMMA LeafCutParts ==
  ASSUME NEW a, NEW b, NEW page, NEW left, LeafCut(a, b, page, left)
  PROVE  \E r \in Nat : LeafCutAre(a, b, page, left, r)
<1>1. /\ Begins(a.entries, page.entries, left) /\ Ends(b.entries, page.entries, left)
      /\ left \in Nat /\ b.entries \in Seq(Key \X Value)
  BY DEF LeafCut
<1>2. Len(a.entries) = left /\ \A i \in 1 .. left : a.entries[i] = page.entries[i]
  BY <1>1 DEF Begins
<1>3. PICK r \in Nat : r = Len(b.entries)
  BY <1>1
<1>4. r + left = Len(page.entries)
  BY <1>1, <1>3 DEF Ends
<1>5. \A i \in 1 .. r : b.entries[i] = page.entries[i + left]
  BY <1>1, <1>3 DEF Ends
<1>6. r + left = left + r
  BY <1>1
<1>7. QED
  BY <1>1, <1>2, <1>3, <1>4, <1>5, <1>6 DEF LeafCutAre

\* The keys of a sequence of entries.
LEMMA EntryKeys ==
  ASSUME NEW entries, entries \in Seq(Key \X Value), NEW n, n = Len(entries)
  PROVE  /\ n \in Nat
         /\ \A i \in 1 .. n : entries[i] \in Key \X Value /\ entries[i][1] \in Key /\ entries[i][1] \in Int
<1>1. n \in Nat
  OBVIOUS
<1>2. \A i \in 1 .. n : entries[i] \in Key \X Value /\ entries[i][1] \in Key /\ entries[i][1] \in Int
  BY EntryFacts
<1>3. QED
  BY <1>1, <1>2

\* The first key that is cut off.
CutKey(page, left, sep) == left < Len(page.entries) /\ sep = page.entries[left + 1][1]

\* The two leaves fit the keys below sep and those from it on.
LeafPartsFit(a, b, F, sep) ==
  /\ sep \in Key /\ sep \in F
  /\ LeafFits(a, {k \in F : k < sep}) /\ LeafFits(b, {k \in F : sep <= k})

\* The halves of a leaf fit: each has the entries on its side of the separator.
LEMMA LeafCutFits ==
  ASSUME NEW page, NEW F \in SUBSET Int, LeafFits(page, F), NEW a, NEW b, NEW left,
         LeafCut(a, b, page, left), NEW sep, CutKey(page, left, sep)
  PROVE  LeafPartsFit(a, b, F, sep)
<1>0. left < Len(page.entries) /\ sep = page.entries[left + 1][1]
  BY DEF CutKey
<1>1. PICK r \in Nat : LeafCutAre(a, b, page, left, r)
  BY LeafCutParts
<1>2. PICK n \in Nat : n = Len(page.entries) /\ n = left + r /\ left \in Nat /\ left < n
  BY <1>0, <1>1 DEF LeafCutAre
<1>3. /\ \A i \in 1 .. n : page.entries[i][1] \in Key /\ page.entries[i][1] \in Int /\ page.entries[i][1] \in F
      /\ \A i, j \in 1 .. n : i < j => page.entries[i][1] < page.entries[j][1]
  <2>1. page.entries \in Seq(Key \X Value)
    BY DEF LeafFits
  <2>2. \A i \in 1 .. n : page.entries[i][1] \in Key /\ page.entries[i][1] \in Int
    BY <1>2, <2>1, EntryKeys
  <2>3. QED
    BY <1>2, <2>2 DEF LeafFits
<1>4. PICK f \in [1 .. n -> Int] : \A i \in 1 .. n : f[i] = page.entries[i][1]
  <2>1. [i \in 1 .. n |-> page.entries[i][1]] \in [1 .. n -> Int]
    BY <1>3
  <2>2. QED
    BY <2>1
<1>5. \A i, j \in 1 .. n : i < j => f[i] < f[j]
  BY <1>3, <1>4
<1>6. /\ \A i \in 1 .. left : a.entries[i] = page.entries[i]
      /\ \A i \in 1 .. r : b.entries[i] = page.entries[i + left]
      /\ Len(a.entries) = left /\ Len(b.entries) = r
  BY <1>1 DEF LeafCutAre
<1>7. left + 1 \in 1 .. n /\ sep = f[left + 1] /\ sep \in Int
  <2>1. left + 1 \in 1 .. n
    BY <1>2
  <2>2. QED
    BY <1>0, <1>4, <2>1
<1>8. \A i \in 1 .. left : a.entries[i][1] = f[i] /\ f[i] < sep /\ f[i] \in F
  <2> SUFFICES ASSUME NEW i \in 1 .. left PROVE a.entries[i][1] = f[i] /\ f[i] < sep /\ f[i] \in F
    OBVIOUS
  <2>1. i \in 1 .. n /\ i < left + 1
    BY <1>2
  <2>2. QED
    BY <1>3, <1>4, <1>5, <1>6, <1>7, <2>1
<1>9. \A i \in 1 .. r : i + left \in 1 .. n /\ b.entries[i][1] = f[i + left] /\ sep <= f[i + left] /\ f[i + left] \in F
  <2> SUFFICES ASSUME NEW i \in 1 .. r
               PROVE  i + left \in 1 .. n /\ b.entries[i][1] = f[i + left] /\ sep <= f[i + left] /\ f[i + left] \in F
    OBVIOUS
  <2>1. i + left \in 1 .. n /\ (left + 1 < i + left \/ left + 1 = i + left)
    BY <1>2
  <2>2. b.entries[i][1] = f[i + left] /\ f[i + left] \in F
    BY <1>3, <1>4, <1>6, <2>1
  <2>3. sep < f[i + left] \/ sep = f[i + left]
    BY <1>5, <1>7, <2>1
  <2>4. sep <= f[i + left]
    BY <1>7, <2>1, <2>3
  <2>5. QED
    BY <2>1, <2>2, <2>4
<1>10. /\ a.leaf = TRUE /\ b.leaf = TRUE
       /\ a.entries \in Seq(Key \X Value) /\ b.entries \in Seq(Key \X Value)
  BY DEF LeafCut
<1>11. LeafFits(a, {k \in F : k < sep})
  <2>1. ASSUME NEW i \in 1 .. left, NEW j \in 1 .. left, i < j PROVE a.entries[i][1] < a.entries[j][1]
    <3>1. i \in 1 .. n /\ j \in 1 .. n
      BY <1>2
    <3>2. QED
      BY <1>5, <1>8, <2>1, <3>1
  <2>2. QED
    BY <1>6, <1>8, <1>10, <2>1 DEF LeafFits
<1>12. LeafFits(b, {k \in F : sep <= k})
  <2>1. ASSUME NEW i \in 1 .. r, NEW j \in 1 .. r, i < j PROVE b.entries[i][1] < b.entries[j][1]
    <3>1. i + left \in 1 .. n /\ j + left \in 1 .. n /\ i + left < j + left
      BY <1>2, <2>1
    <3>2. QED
      BY <1>5, <1>9, <3>1
  <2>2. QED
    BY <1>6, <1>9, <1>10, <2>1 DEF LeafFits
<1>13. sep \in Key /\ sep \in F
  BY <1>3, <1>4, <1>7
<1>14. QED
  BY <1>11, <1>12, <1>13 DEF LeafPartsFit

\* Two neighbouring leaves joined fit.
LEMMA LeafJoinFits ==
  ASSUME NEW page, NEW a, NEW b, NEW left, LeafCut(a, b, page, left),
         NEW Fa \in SUBSET Int, NEW Fb \in SUBSET Int, LeafFits(a, Fa), LeafFits(b, Fb),
         NEW sep \in Int, \A k \in Fa : k < sep, \A k \in Fb : sep <= k
  PROVE  LeafFits(page, Fa \cup Fb)
<1>1. PICK r \in Nat : LeafCutAre(a, b, page, left, r)
  BY LeafCutParts
<1>2. PICK n \in Nat : n = Len(page.entries) /\ n = left + r /\ left \in Nat
  BY <1>1 DEF LeafCutAre
<1>3. page.leaf = TRUE /\ page.entries \in Seq(Key \X Value)
  BY DEF LeafCut
<1>4. PICK f \in [1 .. n -> Int] : \A i \in 1 .. n : f[i] = page.entries[i][1]
  <2>1. \A i \in 1 .. n : page.entries[i][1] \in Int
    BY <1>2, <1>3, EntryKeys
  <2>2. [i \in 1 .. n |-> page.entries[i][1]] \in [1 .. n -> Int]
    BY <2>1
  <2>3. QED
    BY <2>2
<1>5. /\ \A i \in 1 .. left : a.entries[i] = page.entries[i]
      /\ \A i \in 1 .. r : b.entries[i] = page.entries[i + left]
      /\ Len(a.entries) = left /\ Len(b.entries) = r
  BY <1>1 DEF LeafCutAre
<1>6. /\ \A i \in 1 .. left : a.entries[i][1] \in Fa
      /\ \A i, j \in 1 .. left : i < j => a.entries[i][1] < a.entries[j][1]
      /\ \A i \in 1 .. r : b.entries[i][1] \in Fb
      /\ \A i, j \in 1 .. r : i < j => b.entries[i][1] < b.entries[j][1]
  BY <1>5 DEF LeafFits
<1>7. \A i \in 1 .. left : i \in 1 .. n /\ f[i] = a.entries[i][1] /\ f[i] \in Fa /\ f[i] < sep
  <2> SUFFICES ASSUME NEW i \in 1 .. left PROVE i \in 1 .. n /\ f[i] = a.entries[i][1]
    BY <1>6
  <2>1. i \in 1 .. n
    BY <1>2
  <2>2. QED
    BY <1>4, <1>5, <2>1
<1>8. \A i \in 1 .. r : i + left \in 1 .. n /\ f[i + left] = b.entries[i][1] /\ f[i + left] \in Fb /\ sep <= f[i + left]
  <2> SUFFICES ASSUME NEW i \in 1 .. r PROVE i + left \in 1 .. n /\ f[i + left] = b.entries[i][1]
    BY <1>6
  <2>1. i + left \in 1 .. n
    BY <1>2
  <2>2. QED
    BY <1>4, <1>5, <2>1
<1>9. \A i \in 1 .. n : i \in 1 .. left \/ \E q \in 1 .. r : i = q + left
  <2> SUFFICES ASSUME NEW i \in 1 .. n, left < i PROVE \E q \in 1 .. r : i = q + left
    BY <1>2
  <2>1. i - left \in 1 .. r /\ i = (i - left) + left
    BY <1>2
  <2>2. QED
    BY <2>1
<1>10. ASSUME NEW i \in 1 .. n, NEW j \in 1 .. n, i < j PROVE f[i] < f[j]
  <2>1. CASE i \in 1 .. left /\ j \in 1 .. left
    BY <1>6, <1>7, <1>10, <2>1
  <2>2. CASE i \in 1 .. left /\ \E q \in 1 .. r : j = q + left
    <3>1. PICK q \in 1 .. r : j = q + left
      BY <2>2
    <3>2. f[i] < sep /\ sep <= f[j] /\ f[i] \in Int /\ f[j] \in Int
      BY <1>7, <1>8, <2>2, <3>1
    <3>3. QED
      BY <3>2
  <2>3. CASE \E q \in 1 .. r : i = q + left
    <3>1. PICK q \in 1 .. r : i = q + left
      BY <2>3
    <3>2. ~ (j \in 1 .. left)
      BY <1>2, <1>10, <3>1
    <3>3. PICK s \in 1 .. r : j = s + left
      BY <1>9, <3>2
    <3>4. q < s
      BY <1>2, <1>10, <3>1, <3>3
    <3>5. QED
      BY <1>6, <1>8, <3>1, <3>3, <3>4
  <2>4. QED
    BY <1>9, <2>1, <2>2, <2>3
<1>11. \A i \in 1 .. n : f[i] \in Fa \cup Fb
  <2> TAKE i \in 1 .. n
  <2>1. CASE i \in 1 .. left
    BY <1>7, <2>1
  <2>2. CASE \E q \in 1 .. r : i = q + left
    BY <1>8, <2>2
  <2>3. QED
    BY <1>9, <2>1, <2>2
<1>12. /\ \A i, j \in 1 .. n : i < j => page.entries[i][1] < page.entries[j][1]
       /\ \A i \in 1 .. n : page.entries[i][1] \in Fa \cup Fb
  BY <1>4, <1>10, <1>11
<1>13. QED
  BY <1>2, <1>3, <1>12 DEF LeafFits

\* A leaf fits when an entry is put in where EntrySlot says ...
LEMMA LeafInsertFits ==
  ASSUME NEW page, NEW F \in SUBSET Int, LeafFits(page, F), NEW key \in Key, key \in F,
         NEW value \in Value, NEW slot, slot = EntrySlot(page, key), ~ HasKeyAt(page, slot, key),
         NEW new, new.leaf = TRUE, new.entries \in Seq(Key \X Value),
         Inserted(new.entries, page.entries, slot, <<key, value>>)
  PROVE  LeafFits(new, F)
<1>1. page.entries \in Seq(Key \X Value) /\ key \in Int
  BY SizeAssumption DEF LeafFits
<1>2. PICK n \in Nat : n = Len(page.entries)
  BY <1>1
<1>3. PICK f \in [1 .. n -> Int] : \A i \in 1 .. n : f[i] = page.entries[i][1]
  <2>1. \A i \in 1 .. n : page.entries[i][1] \in Int
    BY <1>1, <1>2, EntryKeys
  <2>2. [i \in 1 .. n |-> page.entries[i][1]] \in [1 .. n -> Int]
    BY <2>1
  <2>3. QED
    BY <2>2
<1>4. /\ \A i, j \in 1 .. n : i < j => f[i] < f[j]
      /\ \A i \in 1 .. n : f[i] \in F
  BY <1>2, <1>3 DEF LeafFits
<1>5. slot \in 1 .. n + 1 /\ \A i \in 1 .. n : f[i] < key <=> i < slot
  <2>1. /\ EntrySlot(page, key) \in 1 .. Len(page.entries) + 1
        /\ \A i \in 1 .. Len(page.entries) : page.entries[i][1] < key <=> i < EntrySlot(page, key)
    <3>1. \A i, j \in 1 .. Len(page.entries) : i < j => page.entries[i][1] < page.entries[j][1]
      BY DEF LeafFits
    <3>2. QED
      BY <1>1, <3>1, EntrySlotFacts
  <2>2. QED
    BY <1>2, <1>3, <2>1
<1>6. \A i \in 1 .. n : slot <= i => key < f[i]
  <2> SUFFICES ASSUME NEW i \in 1 .. n, slot <= i PROVE key < f[i]
    OBVIOUS
  <2>1. slot \in 1 .. n /\ f[slot] # key
    BY <1>2, <1>3, <1>5 DEF HasKeyAt
  <2>2. key < f[slot]
    <3>1. ~ (f[slot] < key) /\ f[slot] \in Int
      BY <1>5, <2>1
    <3>2. QED
      BY <1>1, <2>1, <3>1
  <2>3. slot = i \/ f[slot] < f[i]
    BY <1>4, <2>1
  <2>4. QED
    BY <1>1, <2>1, <2>2, <2>3
<1>7. Len(new.entries) = n + 1
  BY <1>2 DEF Inserted
<1>8. PICK g \in [1 .. n + 1 -> Int] : \A i \in 1 .. n + 1 : g[i] = new.entries[i][1]
  <2>1. \A i \in 1 .. n + 1 : new.entries[i][1] \in Int
    BY <1>7, EntryKeys
  <2>2. [i \in 1 .. n + 1 |-> new.entries[i][1]] \in [1 .. n + 1 -> Int]
    BY <2>1
  <2>3. QED
    BY <2>2
<1>9. /\ \A i \in 1 .. n : i < slot => g[i] = f[i]
      /\ g[slot] = key
      /\ \A i \in 1 .. n : slot <= i => g[i + 1] = f[i]
  <2>1. \A i \in 1 .. n : i < slot => new.entries[i] = page.entries[i]
    BY <1>2 DEF Inserted
  <2>2. new.entries[slot] = <<key, value>>
    BY DEF Inserted
  <2>3. \A i \in 1 .. n : slot <= i => new.entries[i + 1] = page.entries[i]
    BY <1>2 DEF Inserted
  <2>4. \A i \in 1 .. n : i \in 1 .. n + 1 /\ i + 1 \in 1 .. n + 1
    OBVIOUS
  <2>5. ASSUME NEW i \in 1 .. n, i < slot PROVE g[i] = f[i]
    BY <1>3, <1>8, <2>1, <2>4, <2>5
  <2>6. ASSUME NEW i \in 1 .. n, slot <= i PROVE g[i + 1] = f[i]
    BY <1>3, <1>8, <2>3, <2>4, <2>6
  <2>7. g[slot] = key
    BY <1>5, <1>8, <2>2
  <2>8. QED
    BY <2>5, <2>6, <2>7
<1>10. \A i \in 1 .. n + 1 :
         \/ i \in 1 .. n /\ i < slot
         \/ i = slot
         \/ \E m \in 1 .. n : slot <= m /\ i = m + 1
  <2> SUFFICES ASSUME NEW i \in 1 .. n + 1, slot < i PROVE \E m \in 1 .. n : slot <= m /\ i = m + 1
    BY <1>5
  <2>1. i - 1 \in 1 .. n /\ slot <= i - 1 /\ i = (i - 1) + 1
    BY <1>5
  <2>2. QED
    BY <2>1
<1>11. ASSUME NEW i \in 1 .. n + 1, NEW j \in 1 .. n + 1, i < j PROVE g[i] < g[j]
  <2>1. CASE i \in 1 .. n /\ i < slot
    <3>1. g[i] = f[i] /\ f[i] < key
      BY <1>5, <1>9, <2>1
    <3>2. CASE j \in 1 .. n /\ j < slot
      BY <1>4, <1>9, <1>11, <2>1, <3>2
    <3>3. CASE j = slot
      BY <1>9, <3>1, <3>3
    <3>4. CASE \E m \in 1 .. n : slot <= m /\ j = m + 1
      <4>1. PICK m \in 1 .. n : slot <= m /\ j = m + 1
        BY <3>4
      <4>2. i < m
        BY <1>5, <2>1, <4>1
      <4>3. QED
        BY <1>4, <1>9, <2>1, <3>1, <4>1, <4>2
    <3>5. QED
      BY <1>10, <3>2, <3>3, <3>4
  <2>2. CASE i = slot
    <3>1. PICK m \in 1 .. n : slot <= m /\ j = m + 1
      BY <1>5, <1>10, <1>11, <2>2
    <3>2. QED
      BY <1>6, <1>9, <2>2, <3>1
  <2>3. CASE \E m \in 1 .. n : slot <= m /\ i = m + 1
    <3>1. PICK m \in 1 .. n : slot <= m /\ i = m + 1
      BY <2>3
    <3>2. PICK q \in 1 .. n : slot <= q /\ j = q + 1
      BY <1>5, <1>10, <1>11, <3>1
    <3>3. m < q
      BY <1>11, <3>1, <3>2
    <3>4. QED
      BY <1>4, <1>9, <3>1, <3>2, <3>3
  <2>4. QED
    BY <1>10, <2>1, <2>2, <2>3
<1>12. \A i \in 1 .. n + 1 : g[i] \in F
  <2> TAKE i \in 1 .. n + 1
  <2>1. CASE i \in 1 .. n /\ i < slot
    BY <1>4, <1>9, <2>1
  <2>2. CASE i = slot
    BY <1>9, <2>2
  <2>3. CASE \E m \in 1 .. n : slot <= m /\ i = m + 1
    BY <1>4, <1>9, <2>3
  <2>4. QED
    BY <1>10, <2>1, <2>2, <2>3
<1>13. QED
  BY <1>7, <1>8, <1>11, <1>12 DEF LeafFits

\* ... and when one is taken out.
LEMMA LeafRemoveFits ==
  ASSUME NEW page, NEW F \in SUBSET Int, LeafFits(page, F), NEW d \in 1 .. Len(page.entries),
         NEW new, new.leaf = TRUE, new.entries \in Seq(Key \X Value),
         Removed(new.entries, page.entries, d)
  PROVE  LeafFits(new, F)
<1>1. PICK n \in Nat : n = Len(new.entries) /\ Len(page.entries) = n + 1
  <2>1. PICK n \in Nat : n = Len(new.entries)
    OBVIOUS
  <2>2. n + 1 = Len(page.entries)
    BY <2>1 DEF Removed
  <2>3. QED
    BY <2>1, <2>2
<1>2. page.entries \in Seq(Key \X Value)
  BY DEF LeafFits
<1>3. PICK f \in [1 .. n + 1 -> Int] : \A i \in 1 .. n + 1 : f[i] = page.entries[i][1]
  <2>1. \A i \in 1 .. n + 1 : page.entries[i][1] \in Int
    BY <1>1, <1>2, EntryKeys
  <2>2. [i \in 1 .. n + 1 |-> page.entries[i][1]] \in [1 .. n + 1 -> Int]
    BY <2>1
  <2>3. QED
    BY <2>2
<1>4. /\ \A i, j \in 1 .. n + 1 : i < j => f[i] < f[j]
      /\ \A i \in 1 .. n + 1 : f[i] \in F
  BY <1>1, <1>3 DEF LeafFits
<1>5. PICK g \in [1 .. n -> Int] : \A i \in 1 .. n : g[i] = new.entries[i][1]
  <2>1. \A i \in 1 .. n : new.entries[i][1] \in Int
    BY <1>1, EntryKeys
  <2>2. [i \in 1 .. n |-> new.entries[i][1]] \in [1 .. n -> Int]
    BY <2>1
  <2>3. QED
    BY <2>2
<1>6. /\ \A i \in 1 .. n : i < d => g[i] = f[i]
      /\ \A i \in 1 .. n : d <= i => g[i] = f[i + 1]
  <2>1. \A i \in 1 .. n : i < d => new.entries[i] = page.entries[i]
    BY <1>1 DEF Removed
  <2>2. \A i \in 1 .. n : d <= i => new.entries[i] = page.entries[i + 1]
    BY <1>1 DEF Removed
  <2>3. \A i \in 1 .. n : i \in 1 .. n + 1 /\ i + 1 \in 1 .. n + 1
    OBVIOUS
  <2>5. ASSUME NEW i \in 1 .. n, i < d PROVE g[i] = f[i]
    BY <1>3, <1>5, <2>1, <2>3, <2>5
  <2>6. ASSUME NEW i \in 1 .. n, d <= i PROVE g[i] = f[i + 1]
    BY <1>3, <1>5, <2>2, <2>3, <2>6
  <2>7. QED
    BY <2>5, <2>6
<1>7. d \in 1 .. n + 1
  BY <1>1
<1>8. ASSUME NEW i \in 1 .. n, NEW j \in 1 .. n, i < j PROVE g[i] < g[j]
  <2>1. i \in 1 .. n + 1 /\ j \in 1 .. n + 1 /\ i + 1 \in 1 .. n + 1 /\ j + 1 \in 1 .. n + 1
    OBVIOUS
  <2>2. CASE j < d
    BY <1>4, <1>6, <1>7, <1>8, <2>1, <2>2
  <2>3. CASE i < d /\ d <= j
    BY <1>4, <1>6, <1>7, <1>8, <2>1, <2>3
  <2>4. CASE d <= i
    BY <1>4, <1>6, <1>7, <1>8, <2>1, <2>4
  <2>5. QED
    BY <1>7, <1>8, <2>2, <2>3, <2>4
<1>9. \A i \in 1 .. n : g[i] \in F
  <2> TAKE i \in 1 .. n
  <2>1. i \in 1 .. n + 1 /\ i + 1 \in 1 .. n + 1
    OBVIOUS
  <2>2. QED
    BY <1>4, <1>6, <1>7, <2>1
<1>10. QED
  BY <1>1, <1>5, <1>8, <1>9 DEF LeafFits

\* What is held after an insertion, a removal or a cut.
LEMMA InsertedSet ==
  ASSUME NEW S, NEW s \in Seq(S), NEW t \in Seq(S), NEW i \in 1 .. Len(s) + 1, NEW e, Inserted(t, s, i, e)
  PROVE  ToSet(t) = ToSet(s) \cup {e}
<1>1. Len(s) \in Nat /\ Len(t) = Len(s) + 1
  BY DEF Inserted
<1>2. DOMAIN s = 1 .. Len(s) /\ DOMAIN t = 1 .. Len(s) + 1
  BY <1>1
<1>3. ASSUME NEW x \in ToSet(t) PROVE x \in ToSet(s) \cup {e}
  <2>1. PICK j \in 1 .. Len(s) + 1 : x = t[j]
    BY <1>2 DEF ToSet
  <2>2. CASE j < i
    <3>1. j \in 1 .. Len(s) /\ x = s[j]
      BY <1>1, <2>1, <2>2 DEF Inserted
    <3>2. QED
      BY <1>2, <3>1 DEF ToSet
  <2>3. CASE j = i
    BY <2>1, <2>3 DEF Inserted
  <2>4. CASE i < j
    <3>1. j - 1 \in 1 .. Len(s) /\ i <= j - 1 /\ (j - 1) + 1 = j
      BY <1>1, <2>4
    <3>2. PICK m \in 1 .. Len(s) : i <= m /\ m + 1 = j
      BY <3>1
    <3>3. x = s[m]
      BY <2>1, <3>2 DEF Inserted
    <3>4. QED
      BY <1>2, <3>3 DEF ToSet
  <2>5. QED
    BY <1>1, <2>2, <2>3, <2>4
<1>4. e \in ToSet(t)
  BY <1>2 DEF ToSet, Inserted
<1>5. ASSUME NEW x \in ToSet(s) PROVE x \in ToSet(t)
  <2>1. PICK j \in 1 .. Len(s) : x = s[j]
    BY <1>2 DEF ToSet
  <2>2. CASE j < i
    <3>1. j \in 1 .. Len(s) + 1 /\ t[j] = x
      BY <1>1, <2>1, <2>2 DEF Inserted
    <3>2. QED
      BY <1>2, <3>1 DEF ToSet
  <2>3. CASE i <= j
    <3>1. j + 1 \in 1 .. Len(s) + 1 /\ t[j + 1] = x
      BY <1>1, <2>1, <2>3 DEF Inserted
    <3>2. QED
      BY <1>2, <3>1 DEF ToSet
  <2>4. QED
    BY <1>1, <2>2, <2>3
<1>6. QED
  BY <1>3, <1>4, <1>5

\* A leaf loses the entry that is taken out and no other.
LEMMA RemovedSet ==
  ASSUME NEW page, NEW F, LeafFits(page, F), NEW d \in 1 .. Len(page.entries),
         NEW t \in Seq(Key \X Value), Removed(t, page.entries, d)
  PROVE  ToSet(t) = ToSet(page.entries) \ {page.entries[d]}
<1>1. PICK n \in Nat : n = Len(t) /\ Len(page.entries) = n + 1
  <2>1. PICK n \in Nat : n = Len(t)
    OBVIOUS
  <2>2. n + 1 = Len(page.entries)
    BY <2>1 DEF Removed
  <2>3. QED
    BY <2>1, <2>2
<1>2. PICK s : s = page.entries /\ s \in Seq(Key \X Value)
  BY DEF LeafFits
<1>3. DOMAIN s = 1 .. n + 1 /\ DOMAIN t = 1 .. n /\ d \in 1 .. n + 1
  BY <1>1, <1>2
<1>4. \A i, j \in 1 .. n + 1 : i # j => s[i] # s[j]
  <2> SUFFICES ASSUME NEW i \in 1 .. n + 1, NEW j \in 1 .. n + 1, i # j PROVE s[i] # s[j]
    OBVIOUS
  <2>1. s[i][1] \in Int /\ s[j][1] \in Int
    BY <1>1, <1>2, EntryKeys
  <2>2. i < j => s[i][1] < s[j][1]
    BY <1>1, <1>2 DEF LeafFits
  <2>3. j < i => s[j][1] < s[i][1]
    BY <1>1, <1>2 DEF LeafFits
  <2>4. QED
    BY <2>1, <2>2, <2>3
<1>5. /\ \A i \in 1 .. n : i < d => t[i] = s[i]
      /\ \A i \in 1 .. n : d <= i => t[i] = s[i + 1]
  BY <1>1, <1>2 DEF Removed
<1>6. ASSUME NEW x \in ToSet(t) PROVE x \in ToSet(s) /\ x # s[d]
  <2>1. PICK j \in 1 .. n : x = t[j]
    BY <1>3 DEF ToSet
  <2>2. j \in 1 .. n + 1 /\ j + 1 \in 1 .. n + 1
    OBVIOUS
  <2>3. PICK m \in 1 .. n + 1 : x = s[m] /\ m # d
    BY <1>3, <1>5, <2>1, <2>2
  <2>4. QED
    BY <1>3, <1>4, <2>3 DEF ToSet
<1>7. ASSUME NEW x \in ToSet(s), x # s[d] PROVE x \in ToSet(t)
  <2>1. PICK j \in 1 .. n + 1 : x = s[j] /\ j # d
    BY <1>3, <1>7 DEF ToSet
  <2>2. CASE j < d
    <3>1. j \in 1 .. n /\ t[j] = x
      BY <1>3, <1>5, <2>1, <2>2
    <3>2. QED
      BY <1>3, <3>1 DEF ToSet
  <2>3. CASE d < j
    <3>1. j - 1 \in 1 .. n /\ d <= j - 1 /\ (j - 1) + 1 = j
      BY <1>3, <2>3
    <3>2. PICK m \in 1 .. n : d <= m /\ m + 1 = j
      BY <3>1
    <3>3. t[m] = x
      BY <1>5, <2>1, <3>2
    <3>4. QED
      BY <1>3, <3>3 DEF ToSet
  <2>4. QED
    BY <1>3, <2>1, <2>2, <2>3
<1>8. QED
  BY <1>2, <1>6, <1>7

\* Two halves hold the entries of the leaf they are cut from.
LEMMA CutSet ==
  ASSUME NEW a, NEW b, NEW page, NEW left, LeafCut(a, b, page, left)
  PROVE  ToSet(page.entries) = ToSet(a.entries) \cup ToSet(b.entries)
<1>1. PICK r \in Nat : LeafCutAre(a, b, page, left, r)
  BY LeafCutParts
<1>2. PICK s, t, u : /\ s = page.entries /\ t = a.entries /\ u = b.entries
                     /\ s \in Seq(Key \X Value) /\ t \in Seq(Key \X Value) /\ u \in Seq(Key \X Value)
  BY DEF LeafCut
<1>3. /\ left \in Nat /\ DOMAIN s = 1 .. left + r /\ DOMAIN t = 1 .. left /\ DOMAIN u = 1 .. r
      /\ \A i \in 1 .. left : t[i] = s[i]
      /\ \A i \in 1 .. r : u[i] = s[i + left]
  BY <1>1, <1>2 DEF LeafCutAre
<1>4. ASSUME NEW x \in ToSet(s) PROVE x \in ToSet(t) \cup ToSet(u)
  <2>1. PICK j \in 1 .. left + r : x = s[j]
    BY <1>3 DEF ToSet
  <2>2. CASE j <= left
    <3>1. j \in 1 .. left /\ x = t[j]
      BY <1>3, <2>1, <2>2
    <3>2. QED
      BY <1>3, <3>1 DEF ToSet
  <2>3. CASE left < j
    <3>1. j - left \in 1 .. r /\ j = (j - left) + left
      BY <1>3, <2>3
    <3>2. PICK m \in 1 .. r : j = m + left
      BY <3>1
    <3>3. x = u[m]
      BY <1>3, <2>1, <3>2
    <3>4. QED
      BY <1>3, <3>3 DEF ToSet
  <2>4. QED
    BY <1>3, <2>2, <2>3
<1>5. ASSUME NEW x \in ToSet(t) PROVE x \in ToSet(s)
  <2>1. PICK j \in 1 .. left : x = t[j]
    BY <1>3 DEF ToSet
  <2>2. j \in 1 .. left + r /\ x = s[j]
    BY <1>3, <2>1
  <2>3. QED
    BY <1>3, <2>2 DEF ToSet
<1>6. ASSUME NEW x \in ToSet(u) PROVE x \in ToSet(s)
  <2>1. PICK j \in 1 .. r : x = u[j]
    BY <1>3 DEF ToSet
  <2>2. j + left \in 1 .. left + r /\ x = s[j + left]
    BY <1>3, <2>1
  <2>3. QED
    BY <1>3, <2>2 DEF ToSet
<1>7. QED
  BY <1>2, <1>4, <1>5, <1>6

-----------------------------------------------------------------------------
\* Whole trees.  at[l][k] is the page that the descent for k meets on level l,
\* the leaves being level 0 and the root level H; see[l][k] is the page that
\* the level above believes to be there, which is another one only while a page
\* that was split off waits for its parent.

Held(row, p) == {k \in Int : row[k] = p}

Rows(pg, H, at) ==
  H \in Nat /\ at \in [0 .. H -> [Int -> DOMAIN pg]] /\ DOMAIN pg \subseteq Int

\* A page is on one level, and every page is on one.
Apart(H, at) == \A l, m \in 0 .. H : \A j, k \in Int : at[l][j] = at[m][k] => l = m
Covered(pg, H, at) == \A p \in DOMAIN pg : \E l \in 0 .. H, k \in Int : at[l][k] = p

LeavesFit(pg, row) == \A k \in Int : LeafFits(pg[row[k]], Held(row, row[k]))
InnersFit(pg, row, below) == \A k \in Int : InnerFits(pg[row[k]], Held(row, row[k]), below)
LevelsFit(pg, H, at, see) ==
  /\ LeavesFit(pg, at[0])
  /\ \A l \in 0 .. H : l < H => InnersFit(pg, at[l + 1], see[l])

\* Each leaf is linked to the one that has the next number, the last to none.
Chained(pg, row) ==
  /\ \A k \in Int : row[k] # row[k + 1] => pg[row[k]].next_page_id = row[k + 1]
  /\ \A k \in Int : pg[row[k]].next_page_id # INVALID_PAGE_ID =>
       \E j \in Int : row[j] = row[k] /\ row[j + 1] # row[k]

Shape(pg, root, H, at, see) ==
  /\ Rows(pg, H, at) /\ Apart(H, at) /\ Covered(pg, H, at)
  /\ LevelsFit(pg, H, at, see)
  /\ \A k \in Int : see[H][k] = root
  /\ Chained(pg, at[0])

RowConvex(row) == \A i, j, k \in Int : i < j /\ j < k /\ row[i] = row[k] => row[j] = row[i]

\* The keys of a page are an interval.
LEMMA RowsConvex ==
  ASSUME NEW pg, NEW root, NEW H, NEW at, Shape(pg, root, H, at, at)
  PROVE  \A l \in 0 .. H : RowConvex(at[l])
<1>1. H \in Nat /\ LevelsFit(pg, H, at, at) /\ \A k \in Int : at[H][k] = root
  BY DEF Shape, Rows
<1> DEFINE Bad == {d \in 0 .. H : ~ RowConvex(at[H - d])}
<1>2. SUFFICES ASSUME Bad # {} PROVE FALSE
  <2>1. ASSUME NEW l \in 0 .. H, Bad = {} PROVE RowConvex(at[l])
    <3>1. H - l \in 0 .. H /\ H - (H - l) = l
      BY <1>1
    <3>2. QED
      BY <2>1, <3>1
  <2>2. QED
    BY <2>1
<1>3. PICK d \in Bad : \A m \in Bad : d <= m
  <2>1. Bad \subseteq Nat
    OBVIOUS
  <2> HIDE DEF Bad
  <2>2. QED
    BY <1>2, <2>1, LeastNumber
<1>4. d \in 0 .. H /\ ~ RowConvex(at[H - d])
  OBVIOUS
<1>5. d # 0
  <2>1. RowConvex(at[H])
    BY <1>1 DEF RowConvex
  <2>2. H - 0 = H
    BY <1>1
  <2>3. QED
    BY <1>4, <2>1, <2>2
<1>6. PICK l \in 0 .. H : l = H - d /\ l < H
  <2>1. H - d \in 0 .. H /\ H - d < H
    BY <1>1, <1>4, <1>5
  <2>2. QED
    BY <2>1
<1>7. RowConvex(at[l + 1])
  <2>1. d - 1 \in 0 .. H /\ H - (d - 1) = l + 1 /\ ~ (d <= d - 1)
    BY <1>1, <1>4, <1>5, <1>6
  <2>2. d - 1 \notin Bad
    BY <1>3, <2>1
  <2>3. QED
    BY <2>1, <2>2
<1> HIDE DEF Bad
<1>8. InnersFit(pg, at[l + 1], at[l])
  BY <1>1, <1>6 DEF LevelsFit
<1>9. RowConvex(at[l])
  <2> SUFFICES ASSUME NEW i \in Int, NEW j \in Int, NEW k \in Int, i < j, j < k, at[l][i] = at[l][k]
               PROVE  at[l][j] = at[l][i]
    BY DEF RowConvex
  <2>1. PICK page, F, see : page = pg[at[l + 1][i]] /\ F = Held(at[l + 1], at[l + 1][i]) /\ see = at[l]
    OBVIOUS
  <2>2. InnerFits(page, F, see) /\ F \in SUBSET Int /\ i \in F
    BY <1>8, <2>1 DEF InnersFit, Held
  <2>3. \A x \in F, z \in F, y \in Int : x < y /\ y < z => y \in F
    <3> SUFFICES ASSUME NEW x \in F, NEW z \in F, NEW y \in Int, x < y, y < z PROVE y \in F
      OBVIOUS
    <3>1. x \in Int /\ z \in Int /\ at[l + 1][x] = at[l + 1][i] /\ at[l + 1][z] = at[l + 1][i]
      BY <2>1 DEF Held
    <3>2. at[l + 1][y] = at[l + 1][x]
      BY <1>7, <3>1 DEF RowConvex
    <3>3. QED
      BY <2>1, <3>1, <3>2 DEF Held
  <2>4. see[i] = see[k]
    BY <2>1
  <2>5. see[j] = see[i]
    BY <2>2, <2>3, <2>4, ChildrenConvex
  <2>6. QED
    BY <2>1, <2>5
<1>10. QED
  BY <1>4, <1>6, <1>9

\* A leaf gets other entries.
LEMMA ContentShape ==
  ASSUME NEW pg, NEW root, NEW H, NEW at, NEW see, Shape(pg, root, H, at, see),
         NEW key \in Int, NEW p, p = at[0][key],
         NEW new, LeafFits(new, Held(at[0], p)), new.next_page_id = pg[p].next_page_id,
         NEW pg2, DOMAIN pg2 = DOMAIN pg, pg2[p] = new,
         \A q \in DOMAIN pg : q # p => pg2[q] = pg[q]
  PROVE  Shape(pg2, root, H, at, see)
<1>1. Rows(pg, H, at) /\ Apart(H, at) /\ Covered(pg, H, at) /\ Chained(pg, at[0])
      /\ LeavesFit(pg, at[0]) /\ (\A l \in 0 .. H : l < H => InnersFit(pg, at[l + 1], see[l]))
      /\ (\A k \in Int : see[H][k] = root)
  BY DEF Shape, LevelsFit
<1>2. H \in Nat /\ \A l \in 0 .. H, k \in Int : at[l][k] \in DOMAIN pg
  BY <1>1 DEF Rows
<1>3. 0 \in 0 .. H
  BY <1>2
<1>4. Rows(pg2, H, at) /\ Covered(pg2, H, at)
  BY <1>1 DEF Rows, Covered
<1>5. LeavesFit(pg2, at[0])
  <2> SUFFICES ASSUME NEW k \in Int PROVE LeafFits(pg2[at[0][k]], Held(at[0], at[0][k]))
    BY DEF LeavesFit
  <2>1. CASE at[0][k] = p
    BY <2>1
  <2>2. CASE at[0][k] # p
    <3>1. pg2[at[0][k]] = pg[at[0][k]]
      BY <1>2, <1>3, <2>2
    <3>2. QED
      BY <1>1, <3>1 DEF LeavesFit
  <2>3. QED
    BY <2>1, <2>2
<1>6. ASSUME NEW l \in 0 .. H, l < H PROVE InnersFit(pg2, at[l + 1], see[l])
  <2>1. l + 1 \in 0 .. H /\ l + 1 # 0
    BY <1>2, <1>6
  <2>2. ASSUME NEW k \in Int PROVE pg2[at[l + 1][k]] = pg[at[l + 1][k]]
    <3>1. at[l + 1][k] # p
      BY <1>1, <1>3, <2>1 DEF Apart
    <3>2. QED
      BY <1>2, <2>1, <3>1
  <2>3. QED
    BY <1>1, <1>6, <2>2 DEF InnersFit
<1>7. Chained(pg2, at[0])
  <2>1. ASSUME NEW k \in Int PROVE pg2[at[0][k]].next_page_id = pg[at[0][k]].next_page_id
    BY <1>2, <1>3
  <2>2. QED
    BY <1>1, <2>1 DEF Chained
<1>8. QED
  BY <1>1, <1>4, <1>5, <1>6, <1>7 DEF Shape, LevelsFit

\* A leaf p is cut in two: c takes over from sep on, next in the chain.
LEMMA CutChain ==
  ASSUME NEW pg, NEW row, RowConvex(row), Chained(pg, row),
         NEW p, NEW c, \A k \in Int : row[k] # c, NEW sep \in Int, row[sep] = p,
         \E k \in Int : k < sep /\ row[k] = p,
         NEW row2, Parted(row2, row, p, c, sep),
         NEW pg2, pg2[p].next_page_id = c, pg2[c].next_page_id = pg[p].next_page_id,
         \A k \in Int : row[k] # p => pg2[row[k]].next_page_id = pg[row[k]].next_page_id
  PROVE  Chained(pg2, row2)
<1>1. /\ \A k \in Int : row2[k] = c <=> row[k] = p /\ sep <= k
      /\ \A k \in Int : row2[k] # c => row2[k] = row[k]
      /\ \A k \in Int : row2[k] = p => k < sep
      /\ p # c
  BY DEF Parted
<1>2. PICK low \in Int : low < sep /\ row[low] = p
  OBVIOUS
<1>3. \A k \in Int : low <= k /\ k <= sep => row[k] = p
  <2> SUFFICES ASSUME NEW k \in Int, low <= k, k <= sep PROVE row[k] = p
    OBVIOUS
  <2>1. CASE k = low \/ k = sep
    BY <1>2, <2>1
  <2>2. CASE low < k /\ k < sep
    BY <1>2, <2>2 DEF RowConvex
  <2>3. QED
    BY <2>1, <2>2
<1>4. ASSUME NEW k \in Int, row2[k] # row2[k + 1] PROVE pg2[row2[k]].next_page_id = row2[k + 1]
  <2>0. k + 1 \in Int /\ k < k + 1
    OBVIOUS
  <2>1. CASE row2[k] = c
    <3>1. row[k] = p /\ sep <= k
      BY <1>1, <2>1
    <3>2. row[k + 1] # p
      <4>1. sep <= k + 1
        BY <3>1
      <4>2. QED
        BY <1>1, <1>4, <2>0, <2>1, <4>1
    <3>3. row2[k + 1] = row[k + 1]
      BY <1>1, <2>0, <3>2
    <3>4. pg[p].next_page_id = row[k + 1]
      BY <3>1, <3>2 DEF Chained
    <3>5. QED
      BY <2>1, <3>3, <3>4
  <2>2. CASE row2[k] = p
    <3>1. row[k] = p /\ k < sep
      BY <1>1, <2>2
    <3>2. row[k + 1] = p
      <4>1. CASE k < low
        BY <1>2, <2>0, <3>1, <4>1 DEF RowConvex
      <4>2. CASE low <= k
        <5>1. low <= k + 1 /\ k + 1 <= sep
          BY <1>2, <3>1, <4>2
        <5>2. QED
          BY <1>3, <2>0, <5>1
      <4>3. QED
        BY <1>2, <4>1, <4>2
    <3>3. row2[k + 1] = c
      BY <1>1, <1>4, <2>0, <2>2, <3>2
    <3>4. QED
      BY <2>2, <3>3
  <2>3. CASE row2[k] # c /\ row2[k] # p
    <3>1. row[k] = row2[k]
      BY <1>1, <2>3
    <3>2. row2[k + 1] # c
      <4> SUFFICES ASSUME row2[k + 1] = c PROVE FALSE
        OBVIOUS
      <4>1. row[k + 1] = p /\ sep <= k + 1
        BY <1>1, <2>0
      <4>2. low <= k
        BY <1>2, <4>1
      <4>3. CASE k <= sep
        BY <1>3, <2>3, <3>1, <4>2, <4>3
      <4>4. CASE sep < k
        BY <2>0, <2>3, <3>1, <4>1, <4>4 DEF RowConvex
      <4>5. QED
        BY <4>3, <4>4
    <3>3. row2[k + 1] = row[k + 1]
      BY <1>1, <2>0, <3>2
    <3>4. pg[row[k]].next_page_id = row[k + 1]
      BY <1>4, <3>1, <3>3 DEF Chained
    <3>5. QED
      BY <2>3, <3>1, <3>3, <3>4
  <2>4. QED
    BY <2>1, <2>2, <2>3
<1>5. ASSUME NEW k \in Int, pg2[row2[k]].next_page_id # INVALID_PAGE_ID
      PROVE  \E j \in Int : row2[j] = row2[k] /\ row2[j + 1] # row2[k]
  <2>1. CASE row2[k] = c
    <3>1. row[k] = p
      BY <1>1, <2>1
    <3>2. PICK j \in Int : row[j] = p /\ row[j + 1] # p
      BY <1>5, <2>1, <3>1 DEF Chained
    <3>3. sep <= j
      <4> SUFFICES ASSUME j < sep PROVE FALSE
        OBVIOUS
      <4>1. j + 1 \in Int /\ j < j + 1 /\ j + 1 <= sep
        OBVIOUS
      <4>2. CASE j + 1 = sep
        BY <3>2, <4>2
      <4>3. CASE j + 1 < sep
        BY <3>2, <4>1, <4>3 DEF RowConvex
      <4>4. QED
        BY <4>1, <4>2, <4>3
    <3>4. row2[j] = c /\ row2[j + 1] # c
      <4>1. j + 1 \in Int
        OBVIOUS
      <4>2. QED
        BY <1>1, <3>2, <3>3, <4>1
    <3>5. QED
      BY <2>1, <3>4
  <2>2. CASE row2[k] = p
    <3>1. sep - 1 \in Int /\ (sep - 1) + 1 = sep /\ low <= sep - 1 /\ sep - 1 <= sep /\ ~ (sep <= sep - 1)
      BY <1>2
    <3>2. PICK j \in Int : j + 1 = sep /\ row[j] = p /\ ~ (sep <= j)
      BY <1>3, <3>1
    <3>3. row2[j] = p
      BY <1>1, <3>2
    <3>4. sep <= sep /\ row2[sep] = c
      BY <1>1
    <3>5. QED
      BY <1>1, <2>2, <3>2, <3>3, <3>4
  <2>3. CASE row2[k] # c /\ row2[k] # p
    <3>1. row[k] = row2[k]
      BY <1>1, <2>3
    <3>2. PICK j \in Int : row[j] = row[k] /\ row[j + 1] # row[k]
      BY <1>5, <2>3, <3>1 DEF Chained
    <3>3. row2[j] = row2[k]
      BY <1>1, <2>3, <3>1, <3>2
    <3>4. row2[j + 1] # row2[k]
      <4>1. j + 1 \in Int
        OBVIOUS
      <4>2. QED
        BY <1>1, <2>3, <3>1, <3>2, <4>1
    <3>5. QED
      BY <3>3, <3>4
  <2>4. QED
    BY <2>1, <2>2, <2>3
<1>6. QED
  BY <1>4, <1>5 DEF Chained

\* Page c with the keys from sep on was split off from page p on level L and
\* is not yet known above.
Pending(at, see, H, L, p, c, sep) ==
  /\ \A l \in 0 .. H : l # L => at[l] = see[l]
  /\ Parted(at[L], see[L], p, c, sep)

\* The halves of a page.
HalvesFit(a, b, page, at, L, p, c, sep) ==
  /\ L = 0 => /\ LeafFits(a, {k \in Held(at[0], p) : k < sep})
              /\ LeafFits(b, {k \in Held(at[0], p) : sep <= k})
              /\ a.next_page_id = c /\ b.next_page_id = page.next_page_id
  /\ \A l \in Nat : L = l + 1 =>
       /\ InnerFits(a, {k \in Held(at[L], p) : k < sep}, at[l])
       /\ InnerFits(b, {k \in Held(at[L], p) : sep <= k}, at[l])

\* The tree keeps its shape when a page is cut in two, except that the page above
\* does not yet know of the right half (SplitPage).
LEMMA CutShape ==
  ASSUME NEW pg, NEW root, NEW H, NEW at, Shape(pg, root, H, at, at),
         NEW L \in 0 .. H, NEW p, NEW c \in Int, c \notin DOMAIN pg,
         NEW sep \in Int, at[L][sep] = p, \E k \in Int : k < sep /\ at[L][k] = p,
         NEW a, NEW b, HalvesFit(a, b, pg[p], at, L, p, c, sep),
         NEW pg2, DOMAIN pg2 = DOMAIN pg \cup {c}, pg2[p] = a, pg2[c] = b,
         \A q \in DOMAIN pg : q # p => pg2[q] = pg[q]
  PROVE  \E at2 : Shape(pg2, root, H, at2, at) /\ Pending(at2, at, H, L, p, c, sep)
<1>1. Rows(pg, H, at) /\ Apart(H, at) /\ Covered(pg, H, at) /\ Chained(pg, at[0])
      /\ LeavesFit(pg, at[0]) /\ (\A l \in 0 .. H : l < H => InnersFit(pg, at[l + 1], at[l]))
      /\ (\A k \in Int : at[H][k] = root)
  BY DEF Shape, LevelsFit
<1>2. H \in Nat /\ 0 \in 0 .. H /\ \A l \in 0 .. H, k \in Int : at[l][k] \in DOMAIN pg /\ at[l][k] # c
  <2>1. H \in Nat /\ 0 \in 0 .. H
    BY <1>1 DEF Rows
  <2>2. ASSUME NEW l \in 0 .. H, NEW k \in Int PROVE at[l][k] \in DOMAIN pg
    BY <1>1 DEF Rows
  <2>3. QED
    BY <2>1, <2>2
<1> DEFINE row == [k \in Int |-> IF at[L][k] = p /\ sep <= k THEN c ELSE at[L][k]]
           at2 == [at EXCEPT ![L] = row]
<1>3. p \in DOMAIN pg /\ p # c
  BY <1>2
<1>4. Parted(row, at[L], p, c, sep)
  <2>1. \A k \in Int : row[k] = c => at[L][k] = p /\ sep <= k
    BY <1>2
  <2>2. \A k \in Int : row[k] # c => at[L][k] = row[k]
    OBVIOUS
  <2>3. \A k \in Int : row[k] = p => k < sep
    BY <1>3
  <2>4. row[sep] = c
    OBVIOUS
  <2>5. \E k \in Int : row[k] = p
    <3>1. PICK k \in Int : k < sep /\ at[L][k] = p
      OBVIOUS
    <3>2. row[k] = p
      BY <3>1
    <3>3. QED
      BY <3>2
  <2>6. QED
    BY <1>3, <2>1, <2>2, <2>3, <2>4, <2>5 DEF Parted
<1>5. row \in [Int -> DOMAIN pg2]
  BY <1>2
<1>6. /\ DOMAIN at2 = 0 .. H /\ at2[L] = row
      /\ \A l \in 0 .. H : l # L => at2[l] = at[l]
  BY <1>1 DEF Rows
<1>7. PICK z : z = at2
  OBVIOUS
<1>8. PICK w : w = row
  OBVIOUS
<1> HIDE DEF row, at2
<1>9. /\ DOMAIN z = 0 .. H /\ z[L] = w /\ \A l \in 0 .. H : l # L => z[l] = at[l]
      /\ Parted(w, at[L], p, c, sep) /\ w \in [Int -> DOMAIN pg2]
      /\ z = [l \in 0 .. H |-> z[l]]
  BY <1>4, <1>5, <1>6, <1>7, <1>8 DEF at2
<1>10. /\ \A k \in Int : w[k] = c <=> at[L][k] = p /\ sep <= k
       /\ \A k \in Int : w[k] # c => w[k] = at[L][k]
       /\ \A k \in Int : w[k] = p => k < sep
  BY <1>9 DEF Parted
<1>11. Pending(z, at, H, L, p, c, sep)
  BY <1>9 DEF Pending
<1>12. Rows(pg2, H, z)
  <2>1. ASSUME NEW l \in 0 .. H PROVE z[l] \in [Int -> DOMAIN pg2]
    <3>1. CASE l = L
      BY <1>9, <3>1
    <3>2. CASE l # L
      <4>1. at[l] \in [Int -> DOMAIN pg] /\ DOMAIN pg \subseteq DOMAIN pg2
        BY <1>1 DEF Rows
      <4>2. at[l] \in [Int -> DOMAIN pg2]
        BY <4>1
      <4>3. QED
        BY <1>9, <3>2, <4>2
    <3>3. QED
      BY <3>1, <3>2
  <2>2. QED
    BY <1>1, <1>9, <2>1 DEF Rows
<1>13. Apart(H, z)
  <2> SUFFICES ASSUME NEW l \in 0 .. H, NEW m \in 0 .. H, NEW j \in Int, NEW k \in Int, z[l][j] = z[m][k]
               PROVE  l = m
    BY DEF Apart
  <2>1. \A i \in 0 .. H, x \in Int : z[i][x] = c => i = L
    BY <1>2, <1>9
  <2>2. \A i \in 0 .. H, x \in Int : z[i][x] # c => z[i][x] = at[i][x]
    BY <1>9, <1>10
  <2>3. QED
    BY <1>1, <2>1, <2>2 DEF Apart
<1>14. Covered(pg2, H, z)
  <2> SUFFICES ASSUME NEW q \in DOMAIN pg2 PROVE \E l \in 0 .. H, k \in Int : z[l][k] = q
    BY DEF Covered
  <2>1. CASE q = c
    BY <1>9, <2>1 DEF Parted
  <2>2. CASE q = p
    BY <1>9, <2>2 DEF Parted
  <2>3. CASE q # c /\ q # p
    <3>1. PICK l \in 0 .. H, k \in Int : at[l][k] = q
      BY <1>1, <2>3 DEF Covered
    <3>2. z[l][k] = q
      BY <1>9, <1>10, <2>3, <3>1
    <3>3. QED
      BY <3>2
  <2>4. QED
    BY <2>1, <2>2, <2>3
<1>15. /\ Held(w, c) = {k \in Held(at[L], p) : sep <= k}
       /\ Held(w, p) = {k \in Held(at[L], p) : k < sep}
       /\ \A q : q # c /\ q # p => Held(w, q) = Held(at[L], q)
  <2>1. Held(w, c) = {k \in Held(at[L], p) : sep <= k}
    BY <1>10 DEF Held
  <2>2. Held(w, p) = {k \in Held(at[L], p) : k < sep}
    BY <1>3, <1>10 DEF Held
  <2>3. \A q : q # c /\ q # p => Held(w, q) = Held(at[L], q)
    BY <1>10 DEF Held
  <2>4. QED
    BY <2>1, <2>2, <2>3
<1>16. LeavesFit(pg2, z[0])
  <2> SUFFICES ASSUME NEW k \in Int PROVE LeafFits(pg2[z[0][k]], Held(z[0], z[0][k]))
    BY DEF LeavesFit
  <2>1. CASE L = 0 /\ (z[0][k] = c \/ z[0][k] = p)
    BY <1>9, <1>15, <2>1 DEF HalvesFit
  <2>2. CASE L = 0 /\ z[0][k] # c /\ z[0][k] # p
    <3>1. z[0][k] = at[0][k] /\ Held(z[0], z[0][k]) = Held(at[0], at[0][k])
      BY <1>9, <1>10, <1>15, <2>2
    <3>2. pg2[z[0][k]] = pg[at[0][k]]
      BY <1>2, <2>2, <3>1
    <3>3. QED
      BY <1>1, <3>1, <3>2 DEF LeavesFit
  <2>3. CASE L # 0
    <3>1. z[0] = at[0]
      BY <1>2, <1>9, <2>3
    <3>2. at[0][k] # p
      BY <1>1, <1>2, <2>3 DEF Apart
    <3>3. pg2[at[0][k]] = pg[at[0][k]]
      BY <1>2, <3>2
    <3>4. QED
      BY <1>1, <3>1, <3>3 DEF LeavesFit
  <2>4. QED
    BY <2>1, <2>2, <2>3
<1>17. ASSUME NEW l \in 0 .. H, l < H PROVE InnersFit(pg2, z[l + 1], at[l])
  <2> SUFFICES ASSUME NEW k \in Int PROVE InnerFits(pg2[z[l + 1][k]], Held(z[l + 1], z[l + 1][k]), at[l])
    BY DEF InnersFit
  <2>0. l + 1 \in 0 .. H /\ l \in Nat
    BY <1>2, <1>17
  <2>1. CASE L = l + 1 /\ (z[L][k] = c \/ z[L][k] = p)
    <3>1. /\ InnerFits(a, {x \in Held(at[L], p) : x < sep}, at[l])
          /\ InnerFits(b, {x \in Held(at[L], p) : sep <= x}, at[l])
      BY <2>0, <2>1 DEF HalvesFit
    <3>2. InnerFits(pg2[z[L][k]], Held(z[L], z[L][k]), at[l])
      BY <1>9, <1>15, <2>1, <3>1
    <3>3. QED
      BY <2>1, <3>2
  <2>2. CASE L = l + 1 /\ z[L][k] # c /\ z[L][k] # p
    <3>1. z[L][k] = at[L][k] /\ Held(z[L], z[L][k]) = Held(at[L], at[L][k])
      BY <1>9, <1>10, <1>15, <2>2
    <3>2. pg2[z[L][k]] = pg[at[L][k]]
      BY <1>2, <2>2, <3>1
    <3>3. InnerFits(pg[at[l + 1][k]], Held(at[l + 1], at[l + 1][k]), at[l])
      BY <1>1, <1>17 DEF InnersFit
    <3>4. QED
      BY <2>2, <3>1, <3>2, <3>3
  <2>3. CASE L # l + 1
    <3>1. z[l + 1] = at[l + 1]
      BY <1>9, <2>0, <2>3
    <3>2. at[l + 1][k] # p
      BY <1>1, <2>0, <2>3 DEF Apart
    <3>3. pg2[at[l + 1][k]] = pg[at[l + 1][k]]
      BY <1>2, <2>0, <3>2
    <3>4. InnerFits(pg[at[l + 1][k]], Held(at[l + 1], at[l + 1][k]), at[l])
      BY <1>1, <1>17 DEF InnersFit
    <3>5. QED
      BY <3>1, <3>3, <3>4
  <2>4. QED
    BY <2>1, <2>2, <2>3
<1>18. Chained(pg2, z[0])
  <2>1. CASE L = 0
    <3>1. RowConvex(at[0])
      BY <1>2, RowsConvex
    <3>2. Parted(z[0], at[0], p, c, sep) /\ at[0][sep] = p /\ \E k \in Int : k < sep /\ at[0][k] = p
      BY <1>9, <2>1
    <3>3. pg2[p].next_page_id = c /\ pg2[c].next_page_id = pg[p].next_page_id
      BY <2>1 DEF HalvesFit
    <3>4. \A k \in Int : at[0][k] # p => pg2[at[0][k]].next_page_id = pg[at[0][k]].next_page_id
      BY <1>2
    <3>5. \A k \in Int : at[0][k] # c
      BY <1>2
    <3>6. QED
      BY <1>1, <3>1, <3>2, <3>3, <3>4, <3>5, CutChain
  <2>2. CASE L # 0
    <3>1. z[0] = at[0]
      BY <1>2, <1>9, <2>2
    <3>2. \A k \in Int : at[0][k] # p
      BY <1>1, <1>2, <2>2 DEF Apart
    <3>3. \A k \in Int : pg2[at[0][k]] = pg[at[0][k]]
      BY <1>2, <3>2
    <3>4. QED
      BY <1>1, <3>1, <3>3 DEF Chained
  <2>3. QED
    BY <2>1, <2>2
<1>19. Shape(pg2, root, H, z, at)
  BY <1>1, <1>12, <1>13, <1>14, <1>16, <1>17, <1>18 DEF Shape, LevelsFit
<1>20. QED
  BY <1>11, <1>19

\* The page that waits gets its place on the level above.
LEMMA HangShape ==
  ASSUME NEW pg, NEW root, NEW H, NEW at, NEW see, Shape(pg, root, H, at, see),
         NEW L \in 0 .. H, L < H, NEW p \in Int, NEW c \in Int, NEW sep \in Key,
         Pending(at, see, H, L, p, c, sep),
         NEW q, q = at[L + 1][sep], NEW new, Hung(new, pg[q], ChildSlot(pg[q], sep), sep, c),
         NEW pg2, DOMAIN pg2 = DOMAIN pg, pg2[q] = new, \A x \in DOMAIN pg : x # q => pg2[x] = pg[x]
  PROVE  Shape(pg2, root, H, at, at)
<1>1. Rows(pg, H, at) /\ Apart(H, at) /\ Covered(pg, H, at) /\ Chained(pg, at[0])
      /\ LeavesFit(pg, at[0]) /\ (\A l \in 0 .. H : l < H => InnersFit(pg, at[l + 1], see[l]))
      /\ (\A k \in Int : see[H][k] = root)
  BY DEF Shape, LevelsFit
<1>2. H \in Nat /\ 0 \in 0 .. H /\ L + 1 \in 0 .. H /\ L + 1 # 0 /\ L \in Nat /\ sep \in Int
  BY <1>1, SizeAssumption DEF Rows
<1>3. ASSUME NEW l \in 0 .. H, NEW k \in Int PROVE at[l][k] \in DOMAIN pg
  BY <1>1 DEF Rows
<1>4. Rows(pg2, H, at) /\ Covered(pg2, H, at)
  BY <1>1 DEF Rows, Covered
<1>5. ASSUME NEW l \in 0 .. H, NEW k \in Int, l # L + 1 PROVE pg2[at[l][k]] = pg[at[l][k]]
  <2>1. at[l][k] # q
    BY <1>1, <1>2, <1>5 DEF Apart
  <2>2. QED
    BY <1>3, <2>1
<1>6. LeavesFit(pg2, at[0]) /\ Chained(pg2, at[0])
  <2>1. \A k \in Int : pg2[at[0][k]] = pg[at[0][k]]
    BY <1>2, <1>5
  <2>2. QED
    BY <1>1, <2>1 DEF LeavesFit, Chained
<1>7. \A k \in Int : at[H][k] = root
  BY <1>1, <1>2 DEF Pending
<1>8. ASSUME NEW l \in 0 .. H, l < H, l # L PROVE InnersFit(pg2, at[l + 1], at[l])
  <2>1. l + 1 \in 0 .. H /\ l + 1 # L + 1
    BY <1>2, <1>8
  <2>2. \A k \in Int : pg2[at[l + 1][k]] = pg[at[l + 1][k]]
    BY <1>5, <2>1
  <2>3. see[l] = at[l] /\ InnersFit(pg, at[l + 1], see[l])
    BY <1>1, <1>8 DEF Pending
  <2>4. QED
    BY <2>2, <2>3 DEF InnersFit
<1>9. InnersFit(pg2, at[L + 1], at[L])
  <2>1. PICK row, old, up : row = at[L] /\ old = see[L] /\ up = at[L + 1]
    OBVIOUS
  <2>2. Parted(row, old, p, c, sep) /\ InnersFit(pg, up, old) /\ q = up[sep]
    BY <1>1, <2>1 DEF Pending
  <2>3. old[sep] = p
    BY <1>2, <2>2 DEF Parted
  <2>4. \A k \in Int : up[k] \in DOMAIN pg
    BY <1>2, <1>3, <2>1
  <2>5. \A k \in Int : InnerFits(pg[up[k]], Held(up, up[k]), old)
    BY <2>2 DEF InnersFit
  <2>6. InnerFits(pg2[q], Held(up, q), row)
    <3>1. PICK page, F, slot : page = pg[q] /\ F = Held(up, q) /\ slot = ChildSlot(page, sep)
      OBVIOUS
    <3>2. InnerFits(page, F, old) /\ F \in SUBSET Int /\ sep \in F
      BY <1>2, <2>2, <2>5, <3>1 DEF Held
    <3>3. Hung(new, page, slot, sep, c)
      BY <3>1
    <3>4. InnerFits(new, F, row)
      BY <2>2, <2>3, <3>1, <3>2, <3>3, HangFits
    <3>5. QED
      BY <3>1, <3>4
  <2>7. ASSUME NEW x \in Int, up[x] # q PROVE InnerFits(pg2[up[x]], Held(up, up[x]), row)
    <3>1. PICK page, F : page = pg[up[x]] /\ F = Held(up, up[x])
      OBVIOUS
    <3>2. InnerFits(page, F, old) /\ F \in SUBSET Int /\ sep \notin F /\ x \in F
      BY <2>2, <2>5, <2>7, <3>1 DEF Held
    <3>3. \A j \in F, k \in Int : old[j] = old[k] => k \in F
      BY <3>2 DEF InnerFits
    <3>4. \A k \in F : old[k] # p
      BY <1>2, <2>3, <3>2, <3>3
    <3>5. \A k \in F : row[k] = old[k]
      BY <2>2, <3>2, <3>4 DEF Parted
    <3>6. ASSUME NEW j \in F, NEW k \in Int \ F PROVE row[k] # old[j]
      <4>1. old[k] # old[j] /\ old[j] # c
        BY <2>2, <3>2, <3>3, <3>5 DEF Parted
      <4>2. row[k] = c \/ row[k] = old[k]
        BY <2>2 DEF Parted
      <4>3. QED
        BY <4>1, <4>2
    <3>7. InnerFits(page, F, row)
      BY <3>2, <3>5, <3>6, FitsStill
    <3>8. pg2[up[x]] = pg[up[x]]
      BY <2>4, <2>7
    <3>9. QED
      BY <3>1, <3>7, <3>8
  <2>8. QED
    BY <2>1, <2>6, <2>7 DEF InnersFit
<1>10. \A l \in 0 .. H : l < H => InnersFit(pg2, at[l + 1], at[l])
  BY <1>8, <1>9
<1>11. QED
  BY <1>1, <1>4, <1>6, <1>7, <1>10 DEF Shape, LevelsFit

\* The root was split: a new page stands above the two halves.
LEMMA GrowShape ==
  ASSUME NEW pg, NEW root \in Int, NEW H, NEW at, NEW see, Shape(pg, root, H, at, see),
         NEW c \in Int, NEW sep \in Key, Pending(at, see, H, H, root, c, sep),
         NEW n \in Int, n \notin DOMAIN pg,
         NEW pg2, DOMAIN pg2 = DOMAIN pg \cup {n}, pg2[n] = Internal(<<sep>>, <<root, c>>),
         \A x \in DOMAIN pg : pg2[x] = pg[x]
  PROVE  \E at2 : Shape(pg2, n, H + 1, at2, at2)
<1>1. Rows(pg, H, at) /\ Apart(H, at) /\ Covered(pg, H, at) /\ Chained(pg, at[0])
      /\ LeavesFit(pg, at[0]) /\ (\A l \in 0 .. H : l < H => InnersFit(pg, at[l + 1], see[l]))
      /\ (\A k \in Int : see[H][k] = root)
  BY DEF Shape, LevelsFit
<1>2. H \in Nat /\ 0 \in 0 .. H /\ H \in 0 .. H /\ sep \in Int /\ H + 1 \in Nat
  BY <1>1, SizeAssumption DEF Rows
<1>3. ASSUME NEW l \in 0 .. H, NEW k \in Int PROVE at[l][k] \in DOMAIN pg /\ at[l][k] # n
  <2>1. at[l][k] \in DOMAIN pg
    BY <1>1 DEF Rows
  <2>2. QED
    BY <2>1
<1> DEFINE at2 == [l \in 0 .. H + 1 |-> IF l <= H THEN at[l] ELSE [k \in Int |-> n]]
<1>4. /\ DOMAIN at2 = 0 .. H + 1 /\ \A k \in Int : at2[H + 1][k] = n
      /\ at2[H + 1] = [k \in Int |-> n]
      /\ \A l \in 0 .. H : at2[l] = at[l] /\ l \in 0 .. H + 1
  BY <1>2
<1>5. PICK z : z = at2
  OBVIOUS
<1>6. /\ z = [l \in 0 .. H + 1 |-> z[l]] /\ z[H + 1] = [k \in Int |-> n] /\ \A k \in Int : z[H + 1][k] = n
      /\ \A l \in 0 .. H : z[l] = at[l] /\ l \in 0 .. H + 1
  BY <1>4, <1>5
<1> HIDE DEF at2
<1>7. Rows(pg2, H + 1, z)
  <2>1. ASSUME NEW l \in 0 .. H + 1 PROVE z[l] \in [Int -> DOMAIN pg2]
    <3>1. CASE l = H + 1
      BY <1>6, <3>1
    <3>2. CASE l \in 0 .. H
      <4>1. at[l] \in [Int -> DOMAIN pg] /\ DOMAIN pg \subseteq DOMAIN pg2
        BY <1>1, <3>2 DEF Rows
      <4>2. at[l] \in [Int -> DOMAIN pg2]
        BY <4>1
      <4>3. QED
        BY <1>6, <3>2, <4>2
    <3>3. QED
      BY <1>2, <3>1, <3>2
  <2>2. z \in [0 .. H + 1 -> [Int -> DOMAIN pg2]]
    BY <1>6, <2>1
  <2>3. QED
    BY <1>1, <1>2, <2>2 DEF Rows
<1>8. \A l \in 0 .. H + 1 : l \in 0 .. H \/ l = H + 1
  BY <1>2
<1>9. Apart(H + 1, z)
  <2> SUFFICES ASSUME NEW l \in 0 .. H + 1, NEW m \in 0 .. H + 1, NEW j \in Int, NEW k \in Int, z[l][j] = z[m][k]
               PROVE  l = m
    BY DEF Apart
  <2>1. CASE l \in 0 .. H /\ m \in 0 .. H
    <3>1. at[l][j] = at[m][k]
      BY <1>6, <2>1
    <3>2. QED
      BY <1>1, <2>1, <3>1 DEF Apart
  <2>2. CASE l = H + 1 /\ m \in 0 .. H
    BY <1>3, <1>6, <2>2
  <2>3. CASE l \in 0 .. H /\ m = H + 1
    BY <1>3, <1>6, <2>3
  <2>4. QED
    BY <1>8, <2>1, <2>2, <2>3
<1>10. Covered(pg2, H + 1, z)
  <2> SUFFICES ASSUME NEW x \in DOMAIN pg2 PROVE \E l \in 0 .. H + 1, k \in Int : z[l][k] = x
    BY DEF Covered
  <2>1. CASE x = n
    <3>1. H + 1 \in 0 .. H + 1 /\ sep \in Int /\ z[H + 1][sep] = x
      BY <1>2, <1>6, <2>1
    <3>2. QED
      BY <3>1
  <2>2. CASE x # n
    <3>1. PICK l \in 0 .. H, k \in Int : at[l][k] = x
      BY <1>1, <2>2 DEF Covered
    <3>2. z[l][k] = x /\ l \in 0 .. H + 1
      BY <1>6, <3>1
    <3>3. QED
      BY <3>2
  <2>3. QED
    BY <2>1, <2>2
<1>11. LeavesFit(pg2, z[0]) /\ Chained(pg2, z[0])
  <2>1. z[0] = at[0] /\ \A k \in Int : pg2[at[0][k]] = pg[at[0][k]]
    BY <1>2, <1>3, <1>6
  <2>2. QED
    BY <1>1, <2>1 DEF LeavesFit, Chained
<1>12. ASSUME NEW l \in 0 .. H, l < H PROVE InnersFit(pg2, z[l + 1], z[l])
  <2>1. l + 1 \in 0 .. H
    BY <1>2, <1>12
  <2>2. \A k \in Int : pg2[at[l + 1][k]] = pg[at[l + 1][k]]
    BY <1>3, <2>1
  <2>3. see[l] = at[l] /\ InnersFit(pg, at[l + 1], see[l])
    BY <1>1, <1>2, <1>12 DEF Pending
  <2>4. z[l + 1] = at[l + 1] /\ z[l] = at[l]
    BY <1>6, <2>1
  <2>5. QED
    BY <2>2, <2>3, <2>4 DEF InnersFit
<1>13. InnersFit(pg2, z[H + 1], z[H])
  <2>1. PICK row : row = at[H]
    OBVIOUS
  <2>2. \A k \in Int : row[k] = IF k < sep THEN root ELSE c
    <3>1. Parted(row, see[H], root, c, sep)
      BY <2>1 DEF Pending
    <3>2. \A k \in Int : (row[k] = c \/ row[k] = root) /\ (row[k] = c => sep <= k) /\ (row[k] = root => k < sep)
      BY <1>1, <3>1 DEF Parted
    <3>3. QED
      BY <1>2, <3>2
  <2>3. root # c
    BY <2>1 DEF Pending, Parted
  <2>4. PICK page : page = pg2[n]
    OBVIOUS
  <2>5. page.leaf = FALSE /\ page.keys = <<sep>> /\ page.children = <<root, c>>
    BY <2>4 DEF Internal
  <2>6. page.keys \in Seq(Key) /\ page.children \in Seq(Int) /\ Len(page.keys) = 1 /\ Len(page.children) = 2
    BY <2>5
  <2>7. page.keys[1] = sep /\ page.children[1] = root /\ page.children[2] = c
    BY <2>5
  <2>8. Ascending(page.keys)
    BY <1>2, <2>6, <2>7, KeysAreNumbers DEF Ascending
  <2>9. ASSUME NEW k \in Int, k < sep PROVE ChildSlot(page, k) = 1
    BY <1>2, <2>6, <2>7, <2>8, <2>9, ChildSlotIs
  <2>10. ASSUME NEW k \in Int, sep <= k PROVE ChildSlot(page, k) = 2
    <3>1. 2 \in 1 .. Len(page.keys) + 1 /\ \A i \in 1 .. Len(page.keys) : i = 1
      BY <2>6
    <3>2. \A i \in 1 .. Len(page.keys) : i < 2 => page.keys[i] <= k
      BY <2>7, <2>10, <3>1
    <3>3. \A i \in 1 .. Len(page.keys) : 2 <= i => k < page.keys[i]
      BY <3>1
    <3>4. QED
      BY <2>8, <3>1, <3>2, <3>3, ChildSlotIs
  <2>11. \A k \in Int : (k < sep => ChildSlot(page, k) = 1) /\ (sep <= k => ChildSlot(page, k) = 2) /\ (k < sep \/ sep <= k)
    BY <1>2, <2>9, <2>10
  <2>12. \A k \in Int : row[k] = page.children[ChildSlot(page, k)]
    BY <2>2, <2>7, <2>11
  <2>13. \A i \in 1 .. Len(page.children) : \E k \in Int : ChildSlot(page, k) = i
    <3>1. sep - 1 \in Int /\ sep - 1 < sep /\ sep \in Int /\ sep <= sep
      BY <1>2
    <3>2. ChildSlot(page, sep - 1) = 1 /\ ChildSlot(page, sep) = 2
      BY <2>11, <3>1
    <3>3. \A i \in 1 .. Len(page.children) : i = 1 \/ i = 2
      BY <2>6
    <3>4. QED
      BY <3>1, <3>2, <3>3
  <2>14. \A j, k \in Int : row[j] = row[k] => ChildSlot(page, j) = ChildSlot(page, k)
    BY <2>2, <2>3, <2>11
  <2>15. InnerFits(page, Int, row)
    BY <1>2, <2>5, <2>6, <2>7, <2>8, <2>12, <2>13, <2>14 DEF InnerFits
  <2>16. \A k \in Int : z[H + 1][k] = n /\ Held(z[H + 1], n) = Int
    BY <1>6 DEF Held
  <2>17. z[H] = row
    BY <1>2, <1>6, <2>1
  <2>18. QED
    BY <2>4, <2>15, <2>16, <2>17 DEF InnersFit
<1>14. \A l \in 0 .. H + 1 : l < H + 1 => InnersFit(pg2, z[l + 1], z[l])
  <2> SUFFICES ASSUME NEW l \in 0 .. H + 1, l < H + 1 PROVE InnersFit(pg2, z[l + 1], z[l])
    OBVIOUS
  <2>1. l \in 0 .. H /\ (l < H \/ l = H)
    BY <1>2
  <2>2. QED
    BY <1>12, <1>13, <2>1
<1>15. Shape(pg2, n, H + 1, z, z)
  BY <1>6, <1>7, <1>9, <1>10, <1>11, <1>14 DEF Shape, LevelsFit
<1>16. QED
  BY <1>15

\* The root has but one child, which takes its place.
LEMMA ShrinkShape ==
  ASSUME NEW pg, NEW root, NEW h \in Nat, NEW at, Shape(pg, root, h + 1, at, at),
         NEW x, \A k \in Int : at[h][k] = x,
         NEW pg2, DOMAIN pg2 = DOMAIN pg \ {root}, \A y \in DOMAIN pg2 : pg2[y] = pg[y]
  PROVE  \E at2 : Shape(pg2, x, h, at2, at2)
<1>1. /\ Rows(pg, h + 1, at) /\ Apart(h + 1, at) /\ Covered(pg, h + 1, at) /\ Chained(pg, at[0])
      /\ LeavesFit(pg, at[0])
      /\ \A l \in 0 .. h + 1 : l < h + 1 => InnersFit(pg, at[l + 1], at[l])
      /\ \A k \in Int : at[h + 1][k] = root
  BY DEF Shape, LevelsFit
<1>2. h + 1 \in 0 .. h + 1 /\ 0 \in 0 .. h /\ \A l \in 0 .. h : l \in 0 .. h + 1 /\ l # h + 1 /\ l < h + 1
  OBVIOUS
<1>3. ASSUME NEW l \in 0 .. h, NEW k \in Int PROVE at[l][k] \in DOMAIN pg2 /\ pg2[at[l][k]] = pg[at[l][k]]
  <2>1. at[l][k] \in DOMAIN pg
    BY <1>1, <1>2 DEF Rows
  <2>2. at[l][k] # root
    BY <1>1, <1>2 DEF Apart
  <2>3. QED
    BY <2>1, <2>2
<1>4. PICK z : z = [l \in 0 .. h |-> at[l]]
  OBVIOUS
<1>5. z = [l \in 0 .. h |-> z[l]] /\ \A l \in 0 .. h : z[l] = at[l]
  BY <1>4
<1>6. Rows(pg2, h, z)
  <2>1. ASSUME NEW l \in 0 .. h PROVE z[l] \in [Int -> DOMAIN pg2]
    <3>1. at[l] \in [Int -> DOMAIN pg]
      BY <1>1, <1>2 DEF Rows
    <3>2. at[l] = [k \in Int |-> at[l][k]]
      BY <3>1
    <3>3. at[l] \in [Int -> DOMAIN pg2]
      BY <1>3, <3>2
    <3>4. QED
      BY <1>5, <3>3
  <2>2. z \in [0 .. h -> [Int -> DOMAIN pg2]]
    BY <1>5, <2>1
  <2>3. QED
    BY <1>1, <2>2 DEF Rows
<1>7. Apart(h, z)
  BY <1>1, <1>2, <1>5 DEF Apart
<1>8. Covered(pg2, h, z)
  <2> SUFFICES ASSUME NEW y \in DOMAIN pg2 PROVE \E l \in 0 .. h, k \in Int : z[l][k] = y
    BY DEF Covered
  <2>1. PICK l \in 0 .. h + 1, k \in Int : at[l][k] = y
    BY <1>1 DEF Covered
  <2>2. l # h + 1
    BY <1>1, <2>1
  <2>3. l \in 0 .. h
    BY <2>2
  <2>4. QED
    BY <1>5, <2>1, <2>3
<1>9. LeavesFit(pg2, z[0]) /\ Chained(pg2, z[0])
  <2>1. z[0] = at[0] /\ \A k \in Int : pg2[at[0][k]] = pg[at[0][k]]
    BY <1>2, <1>3, <1>5
  <2>2. QED
    BY <1>1, <2>1 DEF LeavesFit, Chained
<1>10. ASSUME NEW l \in 0 .. h, l < h PROVE InnersFit(pg2, z[l + 1], z[l])
  <2>1. l + 1 \in 0 .. h
    BY <1>10
  <2>2. \A k \in Int : pg2[at[l + 1][k]] = pg[at[l + 1][k]]
    BY <1>3, <2>1
  <2>3. InnersFit(pg, at[l + 1], at[l])
    BY <1>1, <1>2
  <2>4. z[l + 1] = at[l + 1] /\ z[l] = at[l]
    BY <1>5, <2>1
  <2>5. QED
    BY <2>2, <2>3, <2>4 DEF InnersFit
<1>11. \A k \in Int : z[h][k] = x
  BY <1>5
<1>12. Shape(pg2, x, h, z, z)
  BY <1>6, <1>7, <1>8, <1>9, <1>10, <1>11 DEF Shape, LevelsFit
<1>13. QED
  BY <1>12

\* In row, r comes right after l, from key sep on.
Abut(row, l, r, sep) ==
  /\ l # r /\ sep \in Int /\ row[sep] = r
  /\ \A k \in Int : row[k] = l => k < sep
  /\ \A k \in Int : row[k] = r => sep <= k
  /\ \E k \in Int : row[k] = l
  /\ \A i, j, k \in Int : i < j /\ j < k /\ row[i] = l /\ row[k] = r => row[j] = l \/ row[j] = r

\* Page l has the link that r had, and the other pages of the row have theirs.
LinkPassed(pg2, pg, row, l, r) ==
  /\ pg2[l].next_page_id = pg[r].next_page_id
  /\ \A k \in Int : row[k] # l /\ row[k] # r => pg2[row[k]].next_page_id = pg[row[k]].next_page_id

\* Leaf l takes over what its right neighbour r had, and its place in the chain.
LEMMA JoinChain ==
  ASSUME NEW pg, NEW row, Chained(pg, row), NEW l, NEW r, NEW sep, Abut(row, l, r, sep),
         NEW row2, Given(row2, row, l, r), NEW pg2, LinkPassed(pg2, pg, row, l, r)
  PROVE  Chained(pg2, row2)
<1>0. /\ l # r /\ sep \in Int /\ row[sep] = r
      /\ \A k \in Int : row[k] = l => k < sep
      /\ \A k \in Int : row[k] = r => sep <= k
      /\ \E k \in Int : row[k] = l
  BY DEF Abut
<1>0b. /\ pg2[l].next_page_id = pg[r].next_page_id
      /\ \A k \in Int : row[k] # l /\ row[k] # r => pg2[row[k]].next_page_id = pg[row[k]].next_page_id
  BY DEF LinkPassed
<1>1. \A k \in Int : /\ row[k] = r => row2[k] = l
                     /\ row[k] # r => row2[k] = row[k]
                     /\ row2[k] # r
  BY <1>0 DEF Given
<1>2. PICK low \in Int : row[low] = l /\ low < sep
  BY <1>0
<1>3. ASSUME NEW k \in Int, row2[k] # row2[k + 1] PROVE pg2[row2[k]].next_page_id = row2[k + 1]
  <2>0. k + 1 \in Int /\ k < k + 1
    OBVIOUS
  <2>1. CASE row[k] = r
    <3>1. row2[k] = l /\ row[k + 1] # r
      BY <1>0, <1>1, <1>3, <2>0, <2>1
    <3>2. row2[k + 1] = row[k + 1] /\ pg[r].next_page_id = row[k + 1]
      BY <1>1, <2>0, <2>1, <3>1 DEF Chained
    <3>3. QED
      BY <1>0b, <3>1, <3>2
  <2>2. CASE row[k] = l
    <3>1. row2[k] = l /\ k < sep
      BY <1>0, <1>1, <2>2
    <3>2. row[k + 1] # r /\ row[k + 1] # l
      BY <1>1, <1>3, <2>0, <3>1
    <3>3. k + 1 = sep \/ k + 1 < sep
      BY <1>0, <3>1
    <3>4. k + 1 < sep => row[k + 1] = l \/ row[k + 1] = r
      BY <1>0, <2>0, <2>2 DEF Abut
    <3>5. QED
      BY <1>0, <3>2, <3>3, <3>4
  <2>3. CASE row[k] # l /\ row[k] # r
    <3>1. row2[k] = row[k]
      BY <1>1, <2>3
    <3>2. row[k + 1] # r
      <4> SUFFICES ASSUME row[k + 1] = r PROVE FALSE
        OBVIOUS
      <4>1. sep <= k + 1
        BY <1>0, <2>0
      <4>2. low # k /\ low < k + 1
        BY <1>0, <1>2, <2>3, <4>1
      <4>3. low < k
        BY <4>2
      <4>3b. row[k] = l \/ row[k] = r
        BY <1>2, <2>0, <4>3 DEF Abut
      <4>4. QED
        BY <2>3, <4>3b
    <3>3. row2[k + 1] = row[k + 1]
      BY <1>1, <2>0, <3>2
    <3>4. pg[row[k]].next_page_id = row[k + 1]
      BY <1>3, <3>1, <3>3 DEF Chained
    <3>5. QED
      BY <1>0b, <2>3, <3>1, <3>3, <3>4
  <2>4. QED
    BY <2>1, <2>2, <2>3
<1>4. ASSUME NEW k \in Int, pg2[row2[k]].next_page_id # INVALID_PAGE_ID
      PROVE  \E j \in Int : row2[j] = row2[k] /\ row2[j + 1] # row2[k]
  <2>1. CASE row2[k] = l
    <3>1. pg[row[sep]].next_page_id # INVALID_PAGE_ID
      BY <1>0, <1>0b, <1>4, <2>1
    <3>2. PICK j \in Int : row[j] = r /\ row[j + 1] # r
      BY <1>0, <3>1 DEF Chained
    <3>3. j + 1 \in Int /\ sep <= j /\ ~ (j + 1 < sep)
      BY <1>0, <3>2
    <3>4. row[j + 1] # l
      BY <1>0, <3>3
    <3>5. row2[j] = l /\ row2[j + 1] # l
      BY <1>1, <3>2, <3>3, <3>4
    <3>6. QED
      BY <2>1, <3>5
  <2>2. CASE row2[k] # l
    <3>1. row2[k] = row[k] /\ row[k] # r /\ row[k] # l
      BY <1>1, <2>2
    <3>2. PICK j \in Int : row[j] = row[k] /\ row[j + 1] # row[k]
      BY <1>0b, <1>4, <3>1 DEF Chained
    <3>3. j + 1 \in Int
      OBVIOUS
    <3>4. row2[j] = row2[k]
      BY <1>1, <3>1, <3>2
    <3>5. row2[j + 1] # row2[k]
      BY <1>1, <3>1, <3>2, <3>3
    <3>6. QED
      BY <3>4, <3>5
  <2>3. QED
    BY <2>1, <2>2
<1>5. QED
  BY <1>3, <1>4 DEF Chained

\* What hangs below page q as l or r.
BothBelow(at, L, l, r, q) ==
  \A k \in Int : at[L][k] = l \/ at[L][k] = r => at[L + 1][k] = q

\* Two children side by side in a page are side by side in their row.
LEMMA Beside ==
  ASSUME NEW pg, NEW root, NEW H, NEW at, Shape(pg, root, H, at, at),
         NEW L \in 0 .. H, L < H, NEW key \in Int, NEW q, q = at[L + 1][key],
         NEW d \in 1 .. Len(pg[q].keys),
         NEW l, l = pg[q].children[d], NEW r, r = pg[q].children[d + 1],
         NEW sep, sep = pg[q].keys[d]
  PROVE  /\ Abut(at[L], l, r, sep) /\ sep \in Key
         /\ BothBelow(at, L, l, r, q)
<1>1. L + 1 \in 0 .. H /\ L + 1 \in Int
  BY DEF Shape, Rows
<1>2. PICK row, up, page, F : row = at[L] /\ up = at[L + 1] /\ page = pg[q] /\ F = Held(up, q)
  OBVIOUS
<1>3. InnerFits(page, F, row) /\ F \in SUBSET Int
  <2>1. InnersFit(pg, up, row)
    BY <1>2 DEF Shape, LevelsFit
  <2>2. InnerFits(pg[up[key]], Held(up, up[key]), row)
    BY <2>1 DEF InnersFit
  <2>3. QED
    BY <1>2, <2>2 DEF Held
<1>4. /\ sep \in F /\ sep \in Key /\ row[sep] = r /\ l # r
      /\ \A k \in Int : row[k] = l => k \in F /\ ChildSlot(page, k) = d /\ k < sep
      /\ \A k \in Int : row[k] = r => k \in F /\ ChildSlot(page, k) = d + 1 /\ sep <= k
      /\ \E k \in Int : row[k] = l
  <2>1. d \in 1 .. Len(page.keys) /\ l = page.children[d] /\ r = page.children[d + 1] /\ sep = page.keys[d]
    BY <1>2
  <2>2. QED
    BY <1>3, <2>1, Neighbours
<1>5. \A i, j, k \in Int : i < j /\ j < k /\ row[i] = l /\ row[k] = r => row[j] = l \/ row[j] = r
  <2> SUFFICES ASSUME NEW i \in Int, NEW j \in Int, NEW k \in Int, i < j, j < k, row[i] = l, row[k] = r
               PROVE  row[j] = l \/ row[j] = r
    OBVIOUS
  <2>1. up[i] = q /\ up[k] = q
    BY <1>2, <1>4 DEF Held
  <2>2. RowConvex(up)
    BY <1>1, <1>2, RowsConvex
  <2>3. j \in F
    BY <1>2, <2>1, <2>2 DEF RowConvex, Held
  <2>4. ChildSlot(page, i) = d /\ ChildSlot(page, k) = d + 1 /\ Ascending(page.keys)
    BY <1>3, <1>4 DEF InnerFits
  <2>5. d <= ChildSlot(page, j) /\ ChildSlot(page, j) <= d + 1
    BY <2>4, SlotsMonotone
  <2>6. ChildSlot(page, j) \in Int /\ d \in Int
    BY <1>2, <2>4, ChildSlotFacts
  <2>7. ChildSlot(page, j) = d \/ ChildSlot(page, j) = d + 1
    BY <2>5, <2>6
  <2>8. row[j] = page.children[ChildSlot(page, j)]
    BY <1>3, <2>3 DEF InnerFits
  <2>9. QED
    BY <1>2, <2>7, <2>8
<1>6. sep \in Int
  BY <1>3, <1>4
<1>7. Abut(row, l, r, sep)
  BY <1>4, <1>5, <1>6 DEF Abut
<1>8. \A k \in Int : row[k] = l \/ row[k] = r => up[k] = q
  BY <1>2, <1>4 DEF Held
<1>9. BothBelow(at, L, l, r, q)
  BY <1>2, <1>8 DEF BothBelow
<1>10. QED
  BY <1>2, <1>4, <1>7, <1>9

\* What two pages hold together, in one.
MergeFits(m, r, at, L, F, pg) ==
  /\ L = 0 => LeafFits(m, F) /\ m.next_page_id = pg[r].next_page_id
  /\ \A i \in Nat : L = i + 1 => InnerFits(m, F, at[i])

\* pg2 is what the tree is after page l has taken over what r had.
JoinedPages(pg2, pg, l, r, q, m, new) ==
  /\ DOMAIN pg2 = DOMAIN pg \ {r}
  /\ pg2[l] = m /\ pg2[q] = new
  /\ \A x \in DOMAIN pg : x # l /\ x # q /\ x # r => pg2[x] = pg[x]

\* The rows of the tree after that.
JoinedRows(H, at, at2, L, l, r) ==
  /\ Given(at2[L], at[L], l, r)
  /\ \A i \in 0 .. H : i # L => at2[i] = at[i]

\* Page q, above level L, has l and r for its children at d and d + 1.
Siblings(pg, H, at, L, q, d, l, r) ==
  /\ L \in 0 .. H /\ L < H /\ \E key \in Int : q = at[L + 1][key]
  /\ d \in 1 .. Len(pg[q].keys) /\ l = pg[q].children[d] /\ r = pg[q].children[d + 1]

\* The tree keeps its shape when a page takes over its right neighbour and their
\* parent drops the neighbour (MergePage).
LEMMA JoinShape ==
  ASSUME NEW pg, NEW root, NEW H, NEW at, Shape(pg, root, H, at, at),
         NEW L, NEW q, NEW d, NEW l, NEW r, Siblings(pg, H, at, L, q, d, l, r),
         NEW m, MergeFits(m, r, at, L, Held(at[L], l) \cup Held(at[L], r), pg),
         NEW new, Dropped(new, pg[q], d), NEW pg2, JoinedPages(pg2, pg, l, r, q, m, new)
  PROVE  \E at2 : Shape(pg2, root, H, at2, at2) /\ JoinedRows(H, at, at2, L, l, r)
<1> SUFFICES \E at2 : /\ Shape(pg2, root, H, at2, at2)
                      /\ Given(at2[L], at[L], l, r)
                      /\ \A i \in 0 .. H : i # L => at2[i] = at[i]
  BY DEF JoinedRows
<1>a. /\ DOMAIN pg2 = DOMAIN pg \ {r} /\ pg2[l] = m /\ pg2[q] = new
      /\ \A x \in DOMAIN pg : x # l /\ x # q /\ x # r => pg2[x] = pg[x]
  BY DEF JoinedPages
<1>b. L \in 0 .. H /\ L < H
  BY DEF Siblings
<1>c. PICK key \in Int : q = at[L + 1][key]
  BY DEF Siblings
<1>d. d \in 1 .. Len(pg[q].keys) /\ l = pg[q].children[d] /\ r = pg[q].children[d + 1]
  BY DEF Siblings
<1>1. Rows(pg, H, at) /\ Apart(H, at) /\ Covered(pg, H, at) /\ Chained(pg, at[0])
      /\ LeavesFit(pg, at[0]) /\ (\A i \in 0 .. H : i < H => InnersFit(pg, at[i + 1], at[i]))
      /\ (\A k \in Int : at[H][k] = root)
  BY DEF Shape, LevelsFit
<1>2. H \in Nat /\ 0 \in 0 .. H /\ H \in 0 .. H /\ L + 1 \in 0 .. H /\ L + 1 # 0 /\ L + 1 # L /\ L \in Nat
      /\ L \in 0 .. H
  BY <1>1, <1>b DEF Rows
<1>3. ASSUME NEW i \in 0 .. H, NEW k \in Int PROVE at[i][k] \in DOMAIN pg
  <2>1. Rows(pg, H, at)
    BY <1>1
  <2>2. at \in [0 .. H -> [Int -> DOMAIN pg]]
    BY <2>1 DEF Rows
  <2>3. at[i] \in [Int -> DOMAIN pg]
    BY <2>2
  <2>4. QED
    BY <2>3
<1>4. PICK row, up, page, F, sep : row = at[L] /\ up = at[L + 1] /\ page = pg[q] /\ F = Held(up, q) /\ sep = page.keys[d]
  OBVIOUS
<1>5. InnerFits(page, F, row) /\ F \in SUBSET Int /\ InnersFit(pg, up, row)
  <2>1. InnersFit(pg, up, row)
    BY <1>1, <1>2, <1>4, <1>b
  <2>2. InnerFits(pg[up[key]], Held(up, up[key]), row)
    BY <2>1 DEF InnersFit
  <2>3. QED
    BY <1>4, <1>c, <2>1, <2>2 DEF Held
<1>6. /\ sep \in F /\ sep \in Key /\ row[sep] = r /\ l # r
      /\ \A k \in Int : row[k] = l => k \in F /\ ChildSlot(page, k) = d /\ k < sep
      /\ \A k \in Int : row[k] = r => k \in F /\ ChildSlot(page, k) = d + 1 /\ sep <= k
      /\ \E k \in Int : row[k] = l
  <2>1. d \in 1 .. Len(page.keys) /\ l = page.children[d] /\ r = page.children[d + 1] /\ sep = page.keys[d]
    BY <1>4, <1>d
  <2>2. QED
    BY <1>5, <2>1, Neighbours
<1>7. sep \in Int /\ \A k \in Int : k \in F <=> up[k] = q
  BY <1>4, <1>5, <1>6 DEF Held
<1>8. PICK low \in Int : row[low] = l
  BY <1>6
<1>9. /\ l \in DOMAIN pg /\ r \in DOMAIN pg /\ q \in DOMAIN pg /\ q # l /\ q # r
      /\ \A i \in 0 .. H, k \in Int : at[i][k] = l \/ at[i][k] = r => i = L
      /\ \A i \in 0 .. H, k \in Int : at[i][k] = q => i = L + 1
  <2>1. l \in DOMAIN pg /\ r \in DOMAIN pg /\ q \in DOMAIN pg
    BY <1>2, <1>3, <1>4, <1>6, <1>7, <1>8, <1>c
  <2>2. at[L][low] = l /\ at[L][sep] = r /\ sep \in Int
    BY <1>4, <1>6, <1>7, <1>8
  <2>3. \A i \in 0 .. H, k \in Int : at[i][k] = l \/ at[i][k] = r => i = L
    BY <1>1, <1>2, <2>2 DEF Apart
  <2>4. \A i \in 0 .. H, k \in Int : at[i][k] = q => i = L + 1
    BY <1>1, <1>2, <1>c DEF Apart
  <2>5. q # l /\ q # r
    BY <1>2, <1>c, <2>3
  <2>6. QED
    BY <2>1, <2>3, <2>4, <2>5
<1>10. PICK w : w = [k \in Int |-> IF row[k] = r THEN l ELSE row[k]]
  OBVIOUS
<1>11. Given(w, row, l, r) /\ \A k \in Int : w[k] # r /\ w[k] \in DOMAIN pg
  BY <1>2, <1>3, <1>4, <1>6, <1>9, <1>10 DEF Given
<1>12. PICK z : z = [at EXCEPT ![L] = w]
  OBVIOUS
<1>13. z = [i \in 0 .. H |-> z[i]] /\ z[L] = w /\ \A i \in 0 .. H : i # L => z[i] = at[i]
  BY <1>1, <1>2, <1>12 DEF Rows
<1>14. Rows(pg2, H, z)
  <2>1. ASSUME NEW i \in 0 .. H PROVE z[i] \in [Int -> DOMAIN pg2]
    <3>1. CASE i = L
      <4>1. w \in [Int -> DOMAIN pg2]
        BY <1>10, <1>11, <1>a
      <4>2. QED
        BY <1>13, <3>1, <4>1
    <3>2. CASE i # L
      <4>1. at[i] \in [Int -> DOMAIN pg] /\ \A k \in Int : at[i][k] # r
        BY <1>1, <1>9, <3>2 DEF Rows
      <4>2. at[i] = [k \in Int |-> at[i][k]] /\ \A k \in Int : at[i][k] \in DOMAIN pg2
        BY <1>a, <4>1
      <4>3. at[i] \in [Int -> DOMAIN pg2]
        BY <4>2
      <4>4. QED
        BY <1>13, <3>2, <4>3
    <3>3. QED
      BY <3>1, <3>2
  <2>2. z \in [0 .. H -> [Int -> DOMAIN pg2]]
    BY <1>13, <2>1
  <2>3. QED
    BY <1>1, <1>2, <1>a, <2>2 DEF Rows
<1>15. \A i \in 0 .. H, k \in Int : /\ z[i][k] = l => i = L
                                    /\ z[i][k] # l => z[i][k] = at[i][k] /\ z[i][k] # r
  <2> TAKE i \in 0 .. H, k \in Int
  <2>1. CASE i = L
    BY <1>4, <1>11, <1>13, <2>1 DEF Given
  <2>2. CASE i # L
    BY <1>9, <1>13, <2>2
  <2>3. QED
    BY <2>1, <2>2
<1>16. Apart(H, z)
  <2> SUFFICES ASSUME NEW i \in 0 .. H, NEW e \in 0 .. H, NEW j \in Int, NEW k \in Int, z[i][j] = z[e][k]
               PROVE  i = e
    BY DEF Apart
  <2>1. CASE z[i][j] = l
    BY <1>15, <2>1
  <2>2. CASE z[i][j] # l
    <3>1. at[i][j] = at[e][k]
      BY <1>15, <2>2
    <3>2. QED
      BY <1>1, <3>1 DEF Apart
  <2>3. QED
    BY <2>1, <2>2
<1>17. Covered(pg2, H, z)
  <2> SUFFICES ASSUME NEW x \in DOMAIN pg2 PROVE \E i \in 0 .. H, k \in Int : z[i][k] = x
    BY DEF Covered
  <2>1. PICK i \in 0 .. H, k \in Int : at[i][k] = x
    BY <1>1, <1>a DEF Covered
  <2>2. CASE i = L
    BY <1>4, <1>11, <1>13, <1>a, <2>1, <2>2 DEF Given
  <2>3. CASE i # L
    BY <1>13, <1>a, <2>1, <2>3
  <2>4. QED
    BY <2>2, <2>3
<1>18. /\ Held(w, l) = Held(row, l) \cup Held(row, r)
       /\ \A x : x # l /\ x # r => Held(w, x) = Held(row, x)
  <2>1. \A k \in Int : w[k] = l <=> row[k] = l \/ row[k] = r
    BY <1>6, <1>11 DEF Given
  <2>2. \A x : x # l /\ x # r => \A k \in Int : w[k] = x <=> row[k] = x
    BY <1>11 DEF Given
  <2>3. Held(w, l) = Held(row, l) \cup Held(row, r)
    BY <2>1 DEF Held
  <2>4. \A x : x # l /\ x # r => Held(w, x) = Held(row, x)
    BY <2>2 DEF Held
  <2>5. QED
    BY <2>3, <2>4
<1>19. LeavesFit(pg2, z[0])
  <2> SUFFICES ASSUME NEW k \in Int PROVE LeafFits(pg2[z[0][k]], Held(z[0], z[0][k]))
    BY DEF LeavesFit
  <2>1. CASE L = 0 /\ z[0][k] = l
    BY <1>4, <1>13, <1>18, <1>a, <2>1 DEF MergeFits
  <2>2. CASE L = 0 /\ z[0][k] # l
    <3>1. z[0][k] = at[0][k] /\ z[0][k] # r /\ z[0][k] # q /\ at[0][k] \in DOMAIN pg
      BY <1>2, <1>3, <1>9, <1>15, <2>2
    <3>2. Held(z[0], z[0][k]) = Held(at[0], at[0][k])
      BY <1>4, <1>13, <1>18, <2>2, <3>1
    <3>3. pg2[z[0][k]] = pg[at[0][k]]
      BY <1>a, <2>2, <3>1
    <3>4. QED
      BY <1>1, <3>2, <3>3 DEF LeavesFit
  <2>3. CASE L # 0
    <3>1. z[0] = at[0]
      BY <1>2, <1>13, <2>3
    <3>2. at[0][k] # l /\ at[0][k] # r /\ at[0][k] # q /\ at[0][k] \in DOMAIN pg
      BY <1>2, <1>3, <1>9, <2>3
    <3>3. pg2[at[0][k]] = pg[at[0][k]]
      BY <1>a, <3>2
    <3>4. QED
      BY <1>1, <3>1, <3>3 DEF LeavesFit
  <2>4. QED
    BY <2>1, <2>2, <2>3
<1>20. ASSUME NEW i \in 0 .. H, i < H, i # L PROVE InnersFit(pg2, z[i + 1], z[i])
  <2> SUFFICES ASSUME NEW k \in Int PROVE InnerFits(pg2[z[i + 1][k]], Held(z[i + 1], z[i + 1][k]), z[i])
    BY DEF InnersFit
  <2>0. i + 1 \in 0 .. H /\ i \in Nat /\ z[i] = at[i] /\ i + 1 # L + 1
    BY <1>2, <1>13, <1>20
  <2>1. CASE L = i + 1 /\ z[L][k] = l
    <3>1. InnerFits(m, Held(at[L], l) \cup Held(at[L], r), at[i])
      BY <2>0, <2>1 DEF MergeFits
    <3>2. InnerFits(pg2[z[L][k]], Held(z[L], z[L][k]), z[i])
      BY <1>4, <1>13, <1>18, <1>a, <2>0, <2>1, <3>1
    <3>3. QED
      BY <2>1, <3>2
  <2>2. CASE L = i + 1 /\ z[L][k] # l
    <3>1. z[L][k] = at[L][k] /\ z[L][k] # r /\ z[L][k] # q /\ at[L][k] \in DOMAIN pg
      BY <1>2, <1>3, <1>9, <1>15, <2>2
    <3>2. Held(z[L], z[L][k]) = Held(at[L], at[L][k])
      BY <1>4, <1>13, <1>18, <2>2, <3>1
    <3>3. pg2[z[L][k]] = pg[at[L][k]]
      BY <1>a, <2>2, <3>1
    <3>4. InnerFits(pg[at[i + 1][k]], Held(at[i + 1], at[i + 1][k]), at[i])
      BY <1>1, <1>20 DEF InnersFit
    <3>5. QED
      BY <2>0, <2>2, <3>2, <3>3, <3>4
  <2>3. CASE L # i + 1
    <3>1. z[i + 1] = at[i + 1]
      BY <1>13, <2>0, <2>3
    <3>2. at[i + 1][k] # l /\ at[i + 1][k] # r /\ at[i + 1][k] # q /\ at[i + 1][k] \in DOMAIN pg
      BY <1>3, <1>9, <2>0, <2>3
    <3>3. pg2[at[i + 1][k]] = pg[at[i + 1][k]]
      BY <1>a, <3>2
    <3>4. InnerFits(pg[at[i + 1][k]], Held(at[i + 1], at[i + 1][k]), at[i])
      BY <1>1, <1>20 DEF InnersFit
    <3>5. QED
      BY <2>0, <3>1, <3>3, <3>4
  <2>4. QED
    BY <2>1, <2>2, <2>3
<1>21. InnersFit(pg2, z[L + 1], z[L])
  <2> SUFFICES ASSUME NEW k \in Int PROVE InnerFits(pg2[up[k]], Held(up, up[k]), w)
    BY <1>2, <1>4, <1>13 DEF InnersFit
  <2>1. CASE up[k] = q
    <3>1. d \in 1 .. Len(page.keys) /\ l = page.children[d] /\ r = page.children[d + 1] /\ Dropped(new, page, d)
      BY <1>4, <1>d
    <3>2. InnerFits(new, F, w)
      BY <1>5, <1>11, <3>1, DropFits
    <3>3. QED
      BY <1>4, <1>a, <2>1, <3>2
  <2>2. CASE up[k] # q
    <3>1. PICK other, G : other = pg[up[k]] /\ G = Held(up, up[k])
      OBVIOUS
    <3>2. InnerFits(other, G, row) /\ G \in SUBSET Int /\ \A x \in G : x \notin F
      BY <1>5, <1>7, <2>2, <3>1 DEF InnersFit, Held
    <3>3. \A x \in G : row[x] # l /\ row[x] # r
      BY <1>6, <3>2
    <3>4. \A x \in G : w[x] = row[x]
      BY <1>11, <3>2, <3>3 DEF Given
    <3>5. \A x \in G, y \in Int : row[x] = row[y] => y \in G
      BY <3>2 DEF InnerFits
    <3>6. ASSUME NEW x \in G, NEW y \in Int \ G PROVE w[y] # row[x]
      <4>1. row[y] # row[x]
        BY <3>5
      <4>2. w[y] = l \/ w[y] = row[y]
        BY <1>11 DEF Given
      <4>3. QED
        BY <3>3, <4>1, <4>2
    <3>7. InnerFits(other, G, w)
      BY <3>2, <3>4, <3>6, FitsStill
    <3>8. up[k] \in DOMAIN pg /\ up[k] # l /\ up[k] # r
      BY <1>2, <1>3, <1>4, <1>9
    <3>9. pg2[up[k]] = pg[up[k]]
      BY <1>a, <2>2, <3>8
    <3>10. QED
      BY <3>1, <3>7, <3>9
  <2>3. QED
    BY <2>1, <2>2
<1>22. Chained(pg2, z[0])
  <2>1. CASE L = 0
    <3>1. z[0] = w /\ at[0] = row /\ Chained(pg, row)
      BY <1>1, <1>4, <1>13, <2>1
    <3>2. pg2[l].next_page_id = pg[r].next_page_id
      BY <1>a, <2>1 DEF MergeFits
    <3>3. \A k \in Int : row[k] # l /\ row[k] # r => pg2[row[k]].next_page_id = pg[row[k]].next_page_id
      BY <1>2, <1>3, <1>9, <1>a, <2>1, <3>1
    <3>4. Abut(row, l, r, sep)
      BY <1>4, <1>2, <1>b, <1>c, <1>d, Beside
    <3>5. LinkPassed(pg2, pg, row, l, r)
      BY <3>2, <3>3 DEF LinkPassed
    <3>6. Chained(pg2, w)
      BY <1>11, <3>1, <3>4, <3>5, JoinChain
    <3>7. QED
      BY <3>1, <3>6
  <2>2. CASE L # 0
    <3>1. z[0] = at[0]
      BY <1>2, <1>13, <2>2
    <3>2. \A k \in Int : at[0][k] # l /\ at[0][k] # r /\ at[0][k] # q
      BY <1>2, <1>9, <2>2
    <3>3. \A k \in Int : pg2[at[0][k]] = pg[at[0][k]]
      BY <1>2, <1>3, <1>a, <3>2
    <3>4. \A k \in Int : pg2[at[0][k]].next_page_id = pg[at[0][k]].next_page_id
      BY <3>3
    <3>5. Chained(pg, at[0])
      BY <1>1
    <3>6. Chained(pg2, at[0])
      BY <3>4, <3>5 DEF Chained
    <3>7. QED
      BY <3>1, <3>6
  <2>3. QED
    BY <2>1, <2>2
<1>23. \A k \in Int : z[H][k] = root
  BY <1>1, <1>2, <1>13
<1>24. \A i \in 0 .. H : i < H => InnersFit(pg2, z[i + 1], z[i])
  BY <1>20, <1>21
<1>25. Shape(pg2, root, H, z, z)
  BY <1>14, <1>16, <1>17, <1>19, <1>22, <1>23, <1>24 DEF Shape, LevelsFit
<1>26. QED
  BY <1>4, <1>11, <1>13, <1>25

-----------------------------------------------------------------------------
\* The pages that splits, merges and loans make.

\* CutInternal cuts an internal page in two.
LEMMA CutInternalIs ==
  ASSUME NEW keys, keys \in Seq(Key), NEW children, children \in Seq(Int),
         Len(children) = Len(keys) + 1, NEW left, left \in 1 .. Len(keys),
         NEW halves, halves = CutInternal(keys, children, left)
  PROVE  CutAt(halves[1], halves[2], Internal(keys, children), left)
<1>1. PICK n \in Nat : left = n + 1 /\ n \in 0 .. Len(keys) /\ left - 1 = n
  <2>1. left \in Nat /\ 1 <= left /\ left <= Len(keys) /\ Len(keys) \in Nat
    OBVIOUS
  <2>2. left - 1 \in Nat /\ left = (left - 1) + 1 /\ left - 1 \in 0 .. Len(keys)
    BY <2>1
  <2>3. QED
    BY <2>2
<1>2. PICK ak, bk, ac, bc : /\ ak = SubSeq(keys, 1, n) /\ bk = SubSeq(keys, left + 1, Len(keys))
                            /\ ac = SubSeq(children, 1, left) /\ bc = SubSeq(children, left + 1, Len(children))
  OBVIOUS
<1>3. left \in 0 .. Len(keys) /\ left \in 0 .. Len(children)
  <2>1. Len(keys) \in Nat /\ left \in Int /\ 1 <= left /\ left <= Len(keys)
    OBVIOUS
  <2>2. QED
    BY <2>1
<1>4. ak \in Seq(Key) /\ Begins(ak, keys, n)
  BY <1>1, <1>2, BeginningOf
<1>5. bk \in Seq(Key) /\ Ends(bk, keys, left)
  BY <1>2, <1>3, EndingOf
<1>6. ac \in Seq(Int) /\ Begins(ac, children, left)
  BY <1>2, <1>3, BeginningOf
<1>7. bc \in Seq(Int) /\ Ends(bc, children, left)
  BY <1>2, <1>3, EndingOf
<1>8. halves[1] = Internal(ak, ac) /\ halves[2] = Internal(bk, bc)
  BY <1>1, <1>2 DEF CutInternal
<1>9. Len(ak) = n
  BY <1>4 DEF Begins
<1>10. PICK a, b, page : a = Internal(ak, ac) /\ b = Internal(bk, bc) /\ page = Internal(keys, children)
  OBVIOUS
<1>11. /\ a.leaf = FALSE /\ b.leaf = FALSE /\ page.leaf = FALSE
       /\ a.keys = ak /\ b.keys = bk /\ page.keys = keys
       /\ a.children = ac /\ b.children = bc /\ page.children = children
  BY <1>10 DEF Internal
<1>12. Len(a.keys) + 1 = left /\ Begins(a.keys, page.keys, Len(a.keys)) /\ Ends(b.keys, page.keys, left)
  BY <1>1, <1>4, <1>5, <1>9, <1>11
<1>13. CutAt(a, b, page, left)
  BY <1>4, <1>5, <1>6, <1>7, <1>11, <1>12 DEF CutAt
<1>14. QED
  BY <1>8, <1>10, <1>13

\* CutLeaf cuts a leaf in two.
LEMMA CutLeafIs ==
  ASSUME NEW entries, entries \in Seq(Key \X Value), NEW left, left \in 0 .. Len(entries),
         NEW link, NEW next, NEW other, NEW halves, halves = CutLeaf(entries, left, link, next)
  PROVE  /\ LeafCut(halves[1], halves[2], Leaf(entries, other), left)
         /\ halves[1].next_page_id = link /\ halves[2].next_page_id = next
<1>1. PICK ae, be : ae = SubSeq(entries, 1, left) /\ be = SubSeq(entries, left + 1, Len(entries))
  OBVIOUS
<1>2. ae \in Seq(Key \X Value) /\ Begins(ae, entries, left)
  BY <1>1, BeginningOf
<1>3. be \in Seq(Key \X Value) /\ Ends(be, entries, left)
  BY <1>1, EndingOf
<1>4. halves[1] = Leaf(ae, link) /\ halves[2] = Leaf(be, next)
  BY <1>1 DEF CutLeaf
<1>5. PICK a, b, page : a = Leaf(ae, link) /\ b = Leaf(be, next) /\ page = Leaf(entries, other)
  OBVIOUS
<1>6. /\ a.leaf = TRUE /\ b.leaf = TRUE /\ page.leaf = TRUE
      /\ a.entries = ae /\ b.entries = be /\ page.entries = entries
      /\ a.next_page_id = link /\ b.next_page_id = next
  BY <1>5 DEF Leaf
<1>7. LeafCut(a, b, page, left)
  BY <1>2, <1>3, <1>6 DEF LeafCut
<1>8. QED
  BY <1>4, <1>5, <1>6, <1>7

\* What an internal page is whatever it stands for.
IsInner(page) ==
  /\ page.leaf = FALSE
  /\ page.keys \in Seq(Key) /\ page.children \in Seq(Int)
  /\ Len(page.children) = Len(page.keys) + 1

\* Page holds what a holds, then middle, then what b holds.
InnersMerge(a, middle, b, page, left) == CutAt(a, b, page, left) /\ page.keys[left] = middle

\* The internal page that a merge makes is cut into the two it was made from.
LEMMA MergedInternalIs ==
  ASSUME NEW a, NEW b, NEW middle \in Key, IsInner(a), IsInner(b),
         NEW left, left = Len(a.children), NEW page, page = MergedInternal(a, middle, b)
  PROVE  InnersMerge(a, middle, b, page, left)
<1>0. /\ a.leaf = FALSE /\ b.leaf = FALSE
      /\ a.keys \in Seq(Key) /\ b.keys \in Seq(Key) /\ a.children \in Seq(Int) /\ b.children \in Seq(Int)
      /\ Len(a.children) = Len(a.keys) + 1 /\ Len(b.children) = Len(b.keys) + 1
  BY DEF IsInner
<1>1. PICK one, some, keys, children : /\ one = <<middle>> /\ some = a.keys \o one /\ keys = some \o b.keys
                                       /\ children = a.children \o b.children
  OBVIOUS
<1>2. one \in Seq(Key) /\ Len(one) = 1 /\ one[1] = middle
  BY <1>1
<1>3. some \in Seq(Key) /\ Joined(some, a.keys, one)
  BY <1>0, <1>1, <1>2, JoinOf
<1>4. keys \in Seq(Key) /\ Joined(keys, some, b.keys)
  BY <1>0, <1>1, <1>3, JoinOf
<1>5. children \in Seq(Int) /\ Joined(children, a.children, b.children)
  BY <1>0, <1>1, JoinOf
<1>6. page.leaf = FALSE /\ page.keys = keys /\ page.children = children
  BY <1>1 DEF MergedInternal, Internal
<1>7. PICK m, n \in Nat : m = Len(a.keys) /\ n = Len(b.keys)
  BY <1>0
<1>8. left = m + 1 /\ Len(b.children) = n + 1 /\ Len(a.children) = m + 1
  BY <1>0, <1>7
<1>9. Len(some) = m + 1 /\ \A j \in 1 .. m : some[j] = a.keys[j]
  BY <1>2, <1>3, <1>7 DEF Joined
<1>10. some[m + 1] = middle
  <2>1. 1 \in 1 .. Len(one) /\ 1 + m = m + 1
    BY <1>2
  <2>2. some[1 + m] = one[1]
    BY <1>3, <1>7, <2>1 DEF Joined
  <2>3. QED
    BY <1>2, <2>1, <2>2
<1>11. Len(keys) = m + 1 + n /\ \A j \in 1 .. m + 1 : keys[j] = some[j]
  BY <1>4, <1>7, <1>9 DEF Joined
<1>12. \A j \in 1 .. n : keys[j + left] = b.keys[j]
  BY <1>4, <1>7, <1>8, <1>9 DEF Joined
<1>13. keys[left] = middle /\ \A j \in 1 .. m : a.keys[j] = keys[j]
  BY <1>8, <1>9, <1>10, <1>11
<1>14. Len(children) = m + 1 + (n + 1) /\ (\A j \in 1 .. left : children[j] = a.children[j])
       /\ \A j \in 1 .. n + 1 : children[j + left] = b.children[j]
  BY <1>5, <1>8 DEF Joined
<1>15. Begins(a.keys, keys, Len(a.keys)) /\ Ends(b.keys, keys, left)
  <2>1. Begins(a.keys, keys, Len(a.keys))
    BY <1>7, <1>13 DEF Begins
  <2>2. Len(b.keys) + left = Len(keys)
    <3>1. n + (m + 1) = m + 1 + n
      OBVIOUS
    <3>2. QED
      BY <1>7, <1>8, <1>11, <3>1
  <2>3. \A j \in 1 .. Len(b.keys) : b.keys[j] = keys[j + left]
    BY <1>7, <1>12
  <2>4. Ends(b.keys, keys, left)
    BY <2>2, <2>3 DEF Ends
  <2>5. QED
    BY <2>1, <2>4
<1>16. Begins(a.children, children, left) /\ Ends(b.children, children, left)
  <2>1. Len(a.children) = left /\ \A j \in 1 .. left : a.children[j] = children[j]
    BY <1>14
  <2>2. Begins(a.children, children, left)
    BY <2>1 DEF Begins
  <2>3. Len(b.children) + left = Len(children)
    <3>1. n + 1 + (m + 1) = m + 1 + (n + 1)
      OBVIOUS
    <3>2. QED
      BY <1>8, <1>14, <3>1
  <2>4. \A j \in 1 .. Len(b.children) : b.children[j] = children[j + left]
    BY <1>8, <1>14
  <2>5. Ends(b.children, children, left)
    BY <2>3, <2>4 DEF Ends
  <2>6. QED
    BY <2>2, <2>5
<1>17. left \in 1 .. Len(keys) /\ Len(children) = Len(keys) + 1
  BY <1>8, <1>11, <1>14
<1>18. QED
  BY <1>0, <1>4, <1>5, <1>6, <1>7, <1>8, <1>13, <1>15, <1>16, <1>17 DEF CutAt, InnersMerge

\* The leaf that a merge makes is cut into the two it was made from.
LEMMA MergedLeafIs ==
  ASSUME NEW a, NEW b, a.leaf = TRUE, b.leaf = TRUE,
         a.entries \in Seq(Key \X Value), b.entries \in Seq(Key \X Value),
         NEW left, left = Len(a.entries), NEW page, page = MergedLeaf(a, b)
  PROVE  LeafCut(a, b, page, left) /\ page.next_page_id = b.next_page_id
<1>1. PICK entries : entries = a.entries \o b.entries
  OBVIOUS
<1>2. entries \in Seq(Key \X Value) /\ Joined(entries, a.entries, b.entries)
  BY <1>1, JoinOf
<1>3. page.leaf = TRUE /\ page.entries = entries /\ page.next_page_id = b.next_page_id
  BY <1>1 DEF MergedLeaf, Leaf
<1>4. left \in Nat /\ Len(b.entries) \in Nat
  OBVIOUS
<1>5. Begins(a.entries, entries, left) /\ Ends(b.entries, entries, left) /\ left \in 0 .. Len(entries)
  <2>1. /\ Len(a.entries) = left /\ Len(entries) = left + Len(b.entries)
        /\ \A j \in 1 .. left : entries[j] = a.entries[j]
        /\ \A j \in 1 .. Len(b.entries) : entries[j + left] = b.entries[j]
    BY <1>2 DEF Joined
  <2>2. Begins(a.entries, entries, left)
    BY <2>1 DEF Begins
  <2>3. Len(b.entries) + left = Len(entries) /\ left \in 0 .. Len(entries)
    <3>1. PICK m \in Nat, n \in Nat : m = left /\ n = Len(b.entries)
      BY <1>4
    <3>2. Len(entries) = m + n
      BY <2>1, <3>1
    <3>3. m + n = n + m /\ m \in 0 .. m + n
      OBVIOUS
    <3>4. QED
      BY <3>1, <3>2, <3>3
  <2>4. Ends(b.entries, entries, left)
    BY <2>1, <2>3 DEF Ends
  <2>5. QED
    BY <2>2, <2>3, <2>4
<1>6. QED
  BY <1>2, <1>3, <1>5 DEF LeafCut

-----------------------------------------------------------------------------
\* The descent.

\* Descent is the function its definition says, once there is one.
LEMMA DescentIs ==
  ASSUME NEW key, NEW f,
         f = [d \in Nat |->
                IF d = 0 THEN root_page_id
                ELSE IF pages[f[d - 1]].leaf THEN f[d - 1] ELSE Turn(f[d - 1], key)]
  PROVE  Descent(key) = [d \in Nat |->
            IF d = 0 THEN root_page_id
            ELSE IF pages[Descent(key)[d - 1]].leaf THEN Descent(key)[d - 1]
                 ELSE Turn(Descent(key)[d - 1], key)]
<1> DEFINE Is(g) == g = [d \in Nat |->
                          IF d = 0 THEN root_page_id
                          ELSE IF pages[g[d - 1]].leaf THEN g[d - 1] ELSE Turn(g[d - 1], key)]
<1>1. Descent(key) = CHOOSE g : Is(g)
  BY Zenon DEF Descent
<1>2. Is(f)
  OBVIOUS
<1> HIDE DEF Is
<1>3. Is(CHOOSE g : Is(g))
  BY <1>2, Zenon
<1>4. Is(Descent(key))
  BY <1>1, <1>3, Zenon
<1>5. QED
  BY <1>4 DEF Is

\* Where key leads from level to level.
Leads(pg, H, at, see, key) ==
  /\ pg[at[0][key]].leaf = TRUE
  /\ \A l \in 0 .. H : at[l][key] \in DOMAIN pg
  /\ \A l \in 0 .. H : l < H =>
       /\ pg[at[l + 1][key]].leaf = FALSE
       /\ see[l][key] = pg[at[l + 1][key]].children[ChildSlot(pg[at[l + 1][key]], key)]

\* The descent for a key goes from each page to its child for the key.
LEMMA LevelFacts ==
  ASSUME NEW pg, NEW root, NEW H, NEW at, NEW see, Shape(pg, root, H, at, see), NEW key \in Int
  PROVE  Leads(pg, H, at, see, key)
<1>1. Rows(pg, H, at) /\ LeavesFit(pg, at[0]) /\ \A l \in 0 .. H : l < H => InnersFit(pg, at[l + 1], see[l])
  BY DEF Shape, LevelsFit
<1>2. pg[at[0][key]].leaf = TRUE
  <2>1. LeafFits(pg[at[0][key]], Held(at[0], at[0][key]))
    BY <1>1 DEF LeavesFit
  <2>2. QED
    BY <2>1 DEF LeafFits
<1>3. ASSUME NEW l \in 0 .. H PROVE at[l][key] \in DOMAIN pg
  <2>1. at \in [0 .. H -> [Int -> DOMAIN pg]]
    BY <1>1 DEF Rows
  <2>2. at[l] \in [Int -> DOMAIN pg]
    BY <2>1
  <2>3. QED
    BY <2>2
<1>4. ASSUME NEW l \in 0 .. H, l < H
      PROVE  /\ pg[at[l + 1][key]].leaf = FALSE
             /\ see[l][key] = pg[at[l + 1][key]].children[ChildSlot(pg[at[l + 1][key]], key)]
  <2>1. InnersFit(pg, at[l + 1], see[l])
    BY <1>1, <1>4
  <2>2. PICK q, F : q = at[l + 1][key] /\ F = Held(at[l + 1], q)
    OBVIOUS
  <2>3. InnerFits(pg[q], F, see[l])
    BY <2>1, <2>2 DEF InnersFit
  <2>4. key \in F
    BY <2>2 DEF Held
  <2>5. QED
    BY <2>2, <2>3, <2>4 DEF InnerFits
<1>5. QED
  BY <1>2, <1>3, <1>4 DEF Leads

\* The descent goes down the levels.
LEMMA DescentGoes ==
  ASSUME NEW H, NEW at, Shape(pages, root_page_id, H, at, at), NEW key \in Int
  PROVE  \A d \in 0 .. H : Descent(key)[d] = at[H - d][key]
<1>1. H \in Nat /\ at[H][key] = root_page_id
  BY DEF Shape, Rows
<1>2. /\ pages[at[0][key]].leaf = TRUE
      /\ \A l \in 0 .. H : l < H => /\ pages[at[l + 1][key]].leaf = FALSE
                                    /\ at[l][key] = Turn(at[l + 1][key], key)
  <2>1. Leads(pages, H, at, at, key)
    BY LevelFacts
  <2>2. QED
    BY <2>1 DEF Turn, Leads
<1>3. PICK f : f = [d \in Nat |-> IF d <= H THEN at[H - d][key] ELSE at[0][key]]
  OBVIOUS
<1>4. ASSUME NEW m \in Nat
      PROVE  f[m + 1] = IF pages[f[m]].leaf THEN f[m] ELSE Turn(f[m], key)
  <2>1. m + 1 \in Nat
    OBVIOUS
  <2>2. CASE m < H
    <3>1. PICK l \in Nat : l + m + 1 = H
      <4>1. H - m - 1 \in Nat /\ (H - m - 1) + m + 1 = H
        BY <1>1, <2>2
      <4>2. QED
        BY <4>1
    <3>2. l \in 0 .. H /\ l < H /\ H - m = l + 1 /\ H - (m + 1) = l /\ m <= H /\ m + 1 <= H
      BY <1>1, <3>1
    <3>3. f[m] = at[l + 1][key] /\ f[m + 1] = at[l][key]
      BY <1>3, <2>1, <3>2
    <3>4. pages[f[m]].leaf = FALSE /\ f[m + 1] = Turn(f[m], key)
      BY <1>2, <3>2, <3>3
    <3>5. QED
      BY <3>4
  <2>3. CASE m = H
    <3>1. m <= H /\ ~ (m + 1 <= H) /\ H - m = 0
      BY <1>1, <2>3
    <3>2. f[m] = at[0][key] /\ f[m + 1] = at[0][key]
      BY <1>3, <2>1, <3>1
    <3>3. QED
      BY <1>2, <3>2
  <2>4. CASE H < m
    <3>1. ~ (m <= H) /\ ~ (m + 1 <= H)
      BY <1>1, <2>4
    <3>2. f[m] = at[0][key] /\ f[m + 1] = at[0][key]
      BY <1>3, <2>1, <3>1
    <3>3. QED
      BY <1>2, <3>2
  <2>5. m < H \/ m = H \/ H < m
    BY <1>1
  <2>6. QED
    BY <2>2, <2>3, <2>4, <2>5
<1>5. f[0] = root_page_id
  <2>1. 0 <= H /\ H - 0 = H /\ 0 \in Nat
    BY <1>1
  <2>2. QED
    BY <1>1, <1>3, <2>1
<1>6. f = [d \in Nat |->
             IF d = 0 THEN root_page_id
             ELSE IF pages[f[d - 1]].leaf THEN f[d - 1] ELSE Turn(f[d - 1], key)]
  <2>1. ASSUME NEW d \in Nat
        PROVE  f[d] = IF d = 0 THEN root_page_id
                      ELSE IF pages[f[d - 1]].leaf THEN f[d - 1] ELSE Turn(f[d - 1], key)
    <3>1. CASE d = 0
      BY <1>5, <3>1
    <3>2. CASE d # 0
      <4>1. PICK m \in Nat : d = m + 1 /\ d - 1 = m
        <5>1. d - 1 \in Nat /\ d = (d - 1) + 1
          BY <3>2
        <5>2. QED
          BY <5>1
      <4>2. QED
        BY <1>4, <3>2, <4>1
    <3>3. QED
      BY <3>1, <3>2
  <2>2. f = [d \in Nat |-> f[d]]
    BY <1>3
  <2>3. QED
    BY <2>1, <2>2
<1>7. PICK g : g = Descent(key)
  OBVIOUS
<1>8. g = [d \in Nat |->
             IF d = 0 THEN root_page_id
             ELSE IF pages[g[d - 1]].leaf THEN g[d - 1] ELSE Turn(g[d - 1], key)]
  BY <1>6, <1>7, DescentIs
<1>9. g[0] = root_page_id /\ \A m \in Nat : g[m + 1] = IF pages[g[m]].leaf THEN g[m] ELSE Turn(g[m], key)
  <2>1. g[0] = root_page_id
    BY <1>8
  <2>2. ASSUME NEW m \in Nat PROVE g[m + 1] = IF pages[g[m]].leaf THEN g[m] ELSE Turn(g[m], key)
    <3>1. m + 1 \in Nat /\ m + 1 # 0 /\ (m + 1) - 1 = m
      OBVIOUS
    <3>2. QED
      BY <1>8, <3>1
  <2>3. QED
    BY <2>1, <2>2
<1>10. \A d \in Nat : g[d] = f[d]
  <2> SUFFICES ASSUME \E d \in Nat : g[d] # f[d] PROVE FALSE
    OBVIOUS
  <2> DEFINE S == {d \in Nat : g[d] # f[d]}
  <2>1. S \subseteq Nat /\ S # {}
    OBVIOUS
  <2>2. PICK n \in S : \A m \in S : n <= m
    BY <2>1, LeastNumber
  <2>3. n \in Nat /\ g[n] # f[n] /\ n # 0
    BY <1>5, <1>9, <2>2
  <2>4. PICK m \in Nat : n = m + 1
    <3>1. n - 1 \in Nat /\ n = (n - 1) + 1
      BY <2>3
    <3>2. QED
      BY <3>1
  <2>5. m \notin S
    <3>1. ~ (n <= m)
      BY <2>4
    <3>2. QED
      BY <2>2, <3>1
  <2>6. g[m] = f[m]
    BY <2>5
  <2>7. QED
    BY <1>4, <1>9, <2>3, <2>4, <2>6
<1>11. TAKE d \in 0 .. H
<1>12. d \in Nat /\ d <= H
  BY <1>1
<1>13. QED
  BY <1>3, <1>7, <1>10, <1>12

\* What is left of the path for key above level L.
Way(at, H, L, key) == [i \in 1 .. H - L |-> at[H + 1 - i][key]]

\* Every page that key is led through is there.
Leading(pg, H, at, key) == \A l \in 0 .. H : at[l][key] \in DOMAIN pg
\* The way from below level L starts at the page above and goes on above that.
Climbs(way, pg, H, at, L, key) ==
  /\ way \in Seq(DOMAIN pg) /\ Len(way) = H - L /\ way # <<>>
  /\ Last(way) = at[L + 1][key]
  /\ Front(way) = Way(at, H, L + 1, key)

\* A way that is not at its end climbs.
LEMMA WayFacts ==
  ASSUME NEW pg, NEW H, H \in Nat, NEW at, NEW key, Leading(pg, H, at, key),
         NEW L, L \in Int, -1 <= L, L < H, NEW way, way = Way(at, H, L, key)
  PROVE  Climbs(way, pg, H, at, L, key)
<1>0. \A l \in 0 .. H : at[l][key] \in DOMAIN pg
  BY DEF Leading
<1>1. PICK n \in Nat : n = H - L /\ 1 <= n
  <2>1. H - L \in Nat /\ 1 <= H - L
    OBVIOUS
  <2>2. QED
    BY <2>1
<1>2. way = [i \in 1 .. n |-> at[H + 1 - i][key]]
  BY <1>1 DEF Way
<1>3. ASSUME NEW i \in 1 .. n PROVE H + 1 - i \in 0 .. H
  BY <1>1
<1>4. way \in Seq(DOMAIN pg) /\ Len(way) = n /\ way # <<>>
  <2>1. \A i \in 1 .. n : at[H + 1 - i][key] \in DOMAIN pg
    BY <1>0, <1>3
  <2>2. way \in [1 .. n -> DOMAIN pg]
    BY <1>2, <2>1
  <2>3. way \in Seq(DOMAIN pg) /\ Len(way) = n
    BY <1>2, <2>2
  <2>4. QED
    BY <1>1, <2>3
<1>5. Last(way) = at[L + 1][key]
  <2>1. n \in 1 .. n /\ H + 1 - n = L + 1
    BY <1>1
  <2>2. way[n] = at[L + 1][key]
    BY <1>2, <2>1
  <2>3. QED
    BY <1>4, <2>2 DEF Last
<1>6. Front(way) = Way(at, H, L + 1, key)
  <2>1. H - (L + 1) = n - 1 /\ n - 1 \in Nat
    BY <1>1
  <2>2. Front(way) = SubSeq(way, 1, n - 1)
    BY <1>4 DEF Front
  <2>3. SubSeq(way, 1, n - 1) = [i \in 1 .. n - 1 |-> way[i]]
    BY <1>4, <2>1
  <2>4. \A i \in 1 .. n - 1 : way[i] = at[H + 1 - i][key]
    BY <1>2
  <2>5. QED
    BY <2>1, <2>2, <2>3, <2>4 DEF Way
<1>7. QED
  BY <1>1, <1>4, <1>5, <1>6 DEF Climbs

\* ... and above the root nothing is left of it.
LEMMA WayEnds ==
  ASSUME NEW H \in Nat, NEW at, NEW key
  PROVE  Way(at, H, H, key) = <<>>
<1>1. Way(at, H, H, key) = [i \in 1 .. 0 |-> at[H + 1 - i][key]]
  BY DEF Way
<1>2. QED
  BY <1>1

\* The rows above level L are all that the way goes by.
LEMMA SameWay ==
  ASSUME NEW H \in Nat, NEW L \in Int, -1 <= L, NEW at, NEW at2, NEW key,
         \A l \in 0 .. H : L < l => at2[l] = at[l]
  PROVE  Way(at2, H, L, key) = Way(at, H, L, key)
<1>1. ASSUME NEW i \in 1 .. H - L PROVE at2[H + 1 - i] = at[H + 1 - i]
  <2>1. H + 1 - i \in 0 .. H /\ L < H + 1 - i
    OBVIOUS
  <2>2. QED
    BY <2>1
<1>2. QED
  BY <1>1 DEF Way

\* FindPath is the way from the root down to the leaf.
LEMMA FindPathIs ==
  ASSUME NEW H, NEW at, Shape(pages, root_page_id, H, at, at), next_page \in Nat, H < next_page,
         NEW key \in Int
  PROVE  FindPath(key) = Way(at, H, -1, key)
<1>1. H \in Nat
  BY DEF Shape, Rows
<1>2. PICK page : page = Descent(key)
  OBVIOUS
<1>3. \A d \in 0 .. H : page[d] = at[H - d][key]
  BY <1>2, DescentGoes
<1>4. /\ pages[at[0][key]].leaf = TRUE
      /\ \A l \in 0 .. H : l < H => pages[at[l + 1][key]].leaf = FALSE
  <2>1. Leads(pages, H, at, at, key)
    BY LevelFacts
  <2>2. QED
    BY <2>1 DEF Leads
<1>5. pages[page[H]].leaf = TRUE
  <2>1. H \in 0 .. H /\ H - H = 0
    BY <1>1
  <2>2. QED
    BY <1>3, <1>4, <2>1
<1>6. ASSUME NEW d \in 0 .. H, d < H PROVE pages[page[d]].leaf = FALSE
  <2>1. PICK l \in 0 .. H : l < H /\ l + 1 = H - d
    <3>1. H - d - 1 \in 0 .. H /\ H - d - 1 < H /\ (H - d - 1) + 1 = H - d
      BY <1>1, <1>6
    <3>2. QED
      BY <3>1
  <2>2. QED
    BY <1>3, <1>4, <2>1
<1> DEFINE Bottom(d) == pages[page[d]].leaf /\ \A i \in 0 .. d - 1 : ~pages[page[i]].leaf
<1>7. H \in 0 .. next_page /\ Bottom(H)
  <2>1. H \in 0 .. next_page
    BY <1>1
  <2>2. \A i \in 0 .. H - 1 : i \in 0 .. H /\ i < H
    BY <1>1
  <2>3. QED
    BY <1>5, <1>6, <2>1, <2>2
<1>8. ASSUME NEW d \in 0 .. next_page, Bottom(d) PROVE d = H
  <2>1. CASE d < H
    <3>1. d \in 0 .. H
      BY <1>1, <2>1
    <3>2. QED
      BY <1>6, <1>8, <2>1, <3>1
  <2>2. CASE H < d
    <3>1. H \in 0 .. d - 1
      BY <1>1, <2>2
    <3>2. QED
      BY <1>5, <1>8, <3>1
  <2>3. QED
    BY <1>1, <2>1, <2>2
<1>9. (CHOOSE d \in 0 .. next_page : Bottom(d)) = H
  <2> HIDE DEF Bottom
  <2>1. PICK d : d = CHOOSE e \in 0 .. next_page : Bottom(e)
    OBVIOUS
  <2>2. d \in 0 .. next_page /\ Bottom(d)
    BY <1>7, <2>1, Zenon
  <2>3. QED
    BY <1>8, <2>1, <2>2
<1>10. FindPath(key) = [i \in 1 .. H + 1 |-> page[i - 1]]
  BY <1>2, <1>9 DEF FindPath
<1>11. ASSUME NEW i \in 1 .. H + 1 PROVE page[i - 1] = at[H + 1 - i][key]
  <2>1. i - 1 \in 0 .. H /\ H - (i - 1) = H + 1 - i
    BY <1>1
  <2>2. QED
    BY <1>3, <2>1
<1>12. H - (-1) = H + 1
  BY <1>1
<1>13. QED
  BY <1>10, <1>11, <1>12 DEF Way

-----------------------------------------------------------------------------
\* Mending.

\* Two leaves side by side are linked.
LEMMA LinkBetween ==
  ASSUME NEW pg, NEW row, Chained(pg, row), NEW l, NEW r, NEW sep, Abut(row, l, r, sep)
  PROVE  pg[l].next_page_id = r
<1>1. PICK low \in Int : row[low] = l /\ low < sep
  BY DEF Abut
<1>2. PICK k \in Int : k + 1 = sep /\ k < sep /\ low <= k
  <2>1. sep \in Int
    BY DEF Abut
  <2>2. sep - 1 \in Int /\ (sep - 1) + 1 = sep /\ sep - 1 < sep /\ low <= sep - 1
    BY <1>1, <2>1
  <2>3. QED
    BY <2>2
<1>3. row[k] = l
  <2>1. CASE low = k
    BY <1>1, <2>1
  <2>2. CASE low < k
    <3>1. row[k] = l \/ row[k] = r
      BY <1>1, <1>2, <2>2 DEF Abut
    <3>2. ~ (sep <= k)
      BY <1>2
    <3>3. row[k] # r
      BY <3>2 DEF Abut
    <3>4. QED
      BY <3>1, <3>3
  <2>3. QED
    BY <1>2, <2>1, <2>2
<1>4. row[k + 1] = r /\ l # r
  BY <1>2 DEF Abut
<1>5. QED
  BY <1>3, <1>4 DEF Chained

\* The keys of Fa and those of Fb are on the two sides of sep.
Sides(Fa, Fb, sep) ==
  /\ Fa \in SUBSET Int /\ Fb \in SUBSET Int /\ sep \in Key /\ sep \in Int /\ sep \in Fb
  /\ \A k \in Fa : k < sep
  /\ \A k \in Fb : sep <= k

LeavesMerged(a, b, m, F) ==
  LeafCut(a, b, m, Len(a.entries)) /\ LeafFits(m, F) /\ m.next_page_id = b.next_page_id
InnersMerged(a, b, m, sep, F, below) ==
  InnersMerge(a, sep, b, m, Len(a.children)) /\ InnerFits(m, F, below)

\* Two leaves side by side make one that fits the keys of both.
LEMMA MergeLeaves ==
  ASSUME NEW a, NEW b, NEW Fa, NEW Fb, LeafFits(a, Fa), LeafFits(b, Fb),
         NEW sep, Sides(Fa, Fb, sep), NEW m, m = MergedLeaf(a, b)
  PROVE  LeavesMerged(a, b, m, Fa \cup Fb)
<1>1. /\ a.leaf = TRUE /\ b.leaf = TRUE
      /\ a.entries \in Seq(Key \X Value) /\ b.entries \in Seq(Key \X Value)
  BY DEF LeafFits
<1>2. PICK left : left = Len(a.entries)
  OBVIOUS
<1>3. LeafCut(a, b, m, left) /\ m.next_page_id = b.next_page_id
  BY <1>1, <1>2, MergedLeafIs
<1>4. /\ Fa \in SUBSET Int /\ Fb \in SUBSET Int /\ sep \in Int
      /\ \A k \in Fa : k < sep
      /\ \A k \in Fb : sep <= k
  BY DEF Sides
<1>5. LeafFits(m, Fa \cup Fb)
  BY <1>3, <1>4, LeafJoinFits
<1>6. QED
  BY <1>2, <1>3, <1>5 DEF LeavesMerged

\* The same of two internal pages and the separator between them.
LEMMA MergeInners ==
  ASSUME NEW a, NEW b, NEW Fa, NEW Fb, NEW below, InnerFits(a, Fa, below), InnerFits(b, Fb, below),
         NEW sep, Sides(Fa, Fb, sep), NEW m, m = MergedInternal(a, sep, b)
  PROVE  InnersMerged(a, b, m, sep, Fa \cup Fb, below)
<1>1. IsInner(a) /\ IsInner(b)
  BY DEF InnerFits, IsInner
<1>2. PICK left : left = Len(a.children)
  OBVIOUS
<1>3. sep \in Key
  BY DEF Sides
<1>4. InnersMerge(a, sep, b, m, left)
  BY <1>1, <1>2, <1>3, MergedInternalIs
<1>5. CutAt(a, b, m, left) /\ sep = m.keys[left]
  BY <1>4 DEF InnersMerge
<1>6. /\ Fa \in SUBSET Int /\ Fb \in SUBSET Int /\ sep \in Fb
      /\ \A k \in Fa : k < sep
      /\ \A k \in Fb : sep <= k
  BY DEF Sides
<1>7. InnerFits(m, Fa \cup Fb, below)
  BY <1>5, <1>6, JoinFits
<1>8. QED
  BY <1>2, <1>4, <1>7 DEF InnersMerged

\* Pages a and b on level L, before r and sep, hold what m holds.
PairHolds(L, a, b, m, r, sep) ==
  /\ L = 0 => /\ a.leaf = TRUE /\ LeafCut(a, b, m, Len(a.entries)) /\ a.next_page_id = r
              /\ m.leaf = TRUE /\ b.leaf = TRUE
  /\ L # 0 => /\ a.leaf = FALSE /\ b.leaf = FALSE /\ CutAt(a, b, m, Len(a.children))
              /\ m.keys[Len(a.children)] = sep

\* What the two pages that are merged hold together.
MergeOf(a, middle, b) == IF a.leaf THEN MergedLeaf(a, b) ELSE MergedInternal(a, middle, b)

\* MergePage yields a page that stands for the keys of both.
LEMMA MergeFit ==
  ASSUME NEW pg, NEW root, NEW H, NEW at, Shape(pg, root, H, at, at), NEW L \in 0 .. H,
         NEW l, NEW r, NEW sep, Abut(at[L], l, r, sep), sep \in Key,
         NEW a, a = pg[l], NEW b, b = pg[r], NEW m, m = MergeOf(a, sep, b)
  PROVE  /\ MergeFits(m, r, at, L, Held(at[L], l) \cup Held(at[L], r), pg)
         /\ PairHolds(L, a, b, m, r, sep)
<1>1. PICK Fa, Fb : Fa = Held(at[L], l) /\ Fb = Held(at[L], r)
  OBVIOUS
<1>2. /\ Fa \in SUBSET Int /\ Fb \in SUBSET Int /\ sep \in Int /\ sep \in Fb
      /\ \A k \in Fa : k < sep
      /\ \A k \in Fb : sep <= k
      /\ at[L][sep] = r
  BY <1>1 DEF Held, Abut
<1>3. PICK low \in Int : at[L][low] = l
  BY DEF Abut
<1>31. Sides(Fa, Fb, sep)
  BY <1>2 DEF Sides
<1>4. CASE L = 0
  <2>1. LeavesFit(pg, at[0]) /\ Chained(pg, at[0])
    BY DEF Shape, LevelsFit
  <2>2. LeafFits(a, Fa)
    <3>1. LeafFits(pg[at[0][low]], Held(at[0], at[0][low]))
      BY <2>1 DEF LeavesFit
    <3>2. QED
      BY <1>1, <1>3, <1>4, <3>1
  <2>3. LeafFits(b, Fb)
    <3>1. LeafFits(pg[at[0][sep]], Held(at[0], at[0][sep]))
      BY <1>2, <2>1 DEF LeavesFit
    <3>2. QED
      BY <1>1, <1>2, <1>4, <3>1
  <2>4. /\ a.leaf = TRUE /\ b.leaf = TRUE
        /\ a.entries \in Seq(Key \X Value) /\ b.entries \in Seq(Key \X Value)
    BY <2>2, <2>3 DEF LeafFits
  <2>5. m = MergedLeaf(a, b)
    BY <2>4 DEF MergeOf
  <2>6. /\ LeafCut(a, b, m, Len(a.entries)) /\ m.next_page_id = b.next_page_id
        /\ LeafFits(m, Fa \cup Fb)
    <3>1. LeavesMerged(a, b, m, Fa \cup Fb)
      BY <1>31, <2>2, <2>3, <2>5, MergeLeaves
    <3>2. QED
      BY <3>1 DEF LeavesMerged
  <2>8. a.next_page_id = r
    <3>1. Abut(at[0], l, r, sep)
      BY <1>4
    <3>2. QED
      BY <2>1, <3>1, LinkBetween
  <2>9. MergeFits(m, r, at, L, Fa \cup Fb, pg)
    <3>1. \A i \in Nat : ~ (L = i + 1)
      BY <1>4
    <3>2. QED
      BY <2>6, <3>1 DEF MergeFits
  <2>10. QED
    BY <1>1, <1>4, <2>4, <2>6, <2>8, <2>9 DEF LeafCut, PairHolds
<1>5. CASE L # 0
  <2>1. PICK i \in Nat : L = i + 1 /\ i \in 0 .. H /\ i < H
    <3>1. H \in Nat
      BY DEF Shape, Rows
    <3>2. L - 1 \in Nat /\ L = (L - 1) + 1 /\ L - 1 \in 0 .. H /\ L - 1 < H
      BY <1>5, <3>1
    <3>3. QED
      BY <3>2
  <2>2. InnersFit(pg, at[L], at[i])
    BY <2>1 DEF Shape, LevelsFit
  <2>3. InnerFits(a, Fa, at[i])
    <3>1. InnerFits(pg[at[L][low]], Held(at[L], at[L][low]), at[i])
      BY <2>2 DEF InnersFit
    <3>2. QED
      BY <1>1, <1>3, <3>1
  <2>4. InnerFits(b, Fb, at[i])
    <3>1. InnerFits(pg[at[L][sep]], Held(at[L], at[L][sep]), at[i])
      BY <1>2, <2>2 DEF InnersFit
    <3>2. QED
      BY <1>1, <1>2, <3>1
  <2>5. /\ a.leaf = FALSE /\ b.leaf = FALSE
        /\ a.keys \in Seq(Key) /\ b.keys \in Seq(Key) /\ a.children \in Seq(Int) /\ b.children \in Seq(Int)
        /\ Len(a.children) = Len(a.keys) + 1 /\ Len(b.children) = Len(b.keys) + 1
    BY <2>3, <2>4 DEF InnerFits
  <2>6. m = MergedInternal(a, sep, b)
    BY <2>5 DEF MergeOf
  <2>7. /\ CutAt(a, b, m, Len(a.children)) /\ m.keys[Len(a.children)] = sep
        /\ InnerFits(m, Fa \cup Fb, at[i])
    <3>1. InnersMerged(a, b, m, sep, Fa \cup Fb, at[i])
      BY <1>31, <2>3, <2>4, <2>6, MergeInners
    <3>2. QED
      BY <3>1 DEF InnersMerged, InnersMerge
  <2>10. MergeFits(m, r, at, L, Fa \cup Fb, pg)
    <3>1. \A j \in Nat : L = j + 1 => j = i
      BY <2>1
    <3>2. QED
      BY <1>5, <2>7, <3>1 DEF MergeFits
  <2>11. QED
    BY <1>1, <1>5, <2>5, <2>7, <2>10 DEF PairHolds
<1>6. QED
  BY <1>4, <1>5

\* A page that lost the right one of two children, and gets it back with
\* another separator.
LEMMA Rehung ==
  ASSUME NEW page, NEW F \in SUBSET Int, NEW see, InnerFits(page, F, see), NEW d \in 1 .. Len(page.keys),
         NEW l, l = page.children[d], NEW r \in Int, r = page.children[d + 1],
         NEW small, Dropped(small, page, d), NEW row, InnerFits(small, F, row),
         NEW sep \in Key, row[sep] = l,
         NEW new, new = Internal([page.keys EXCEPT ![d] = sep], page.children)
  PROVE  Hung(new, small, ChildSlot(small, sep), sep, r)
<1>1. sep \in Int
  BY SizeAssumption
<1>2. page.keys \in Seq(Key) /\ page.children \in Seq(Int) /\ Len(page.children) = Len(page.keys) + 1
  BY DEF InnerFits
<1>3. PICK n \in Nat : n = Len(page.keys)
  BY <1>2
<1>4. /\ small.keys \in Seq(Int) /\ small.children \in Seq(Int)
      /\ Len(small.keys) + 1 = n /\ Len(small.children) = n
      /\ \A j \in 1 .. Len(small.keys) : j < d => small.keys[j] = page.keys[j]
      /\ \A j \in 1 .. Len(small.keys) : d <= j => small.keys[j] = page.keys[j + 1]
      /\ \A j \in 1 .. Len(small.children) : j < d + 1 => small.children[j] = page.children[j]
      /\ \A j \in 1 .. Len(small.children) : d + 1 <= j => small.children[j] = page.children[j + 1]
  <2>1. Len(small.children) + 1 = n + 1 /\ Len(small.children) \in Nat
    BY <1>2, <1>3 DEF Dropped, Removed
  <2>2. Len(small.children) = n
    BY <1>3, <2>1
  <2>3. QED
    BY <1>3, <2>2 DEF Dropped, Removed
<1>5. PICK keys : keys = [page.keys EXCEPT ![d] = sep]
  OBVIOUS
<1>6. keys \in Seq(Key) /\ Len(keys) = n /\ keys[d] = sep /\ \A j \in 1 .. n : j # d => keys[j] = page.keys[j]
  BY <1>2, <1>3, <1>5
<1>7. new.leaf = FALSE /\ new.keys = keys /\ new.children = page.children
  BY <1>5 DEF Internal
<1>8. PICK s : s = ChildSlot(small, sep)
  OBVIOUS
<1>9. s = d
  <2>1. d \in 1 .. Len(small.children) /\ d < d + 1
    BY <1>3, <1>4
  <2>2. small.children[d] = l
    BY <1>4, <2>1
  <2>3. PICK k \in F : ChildSlot(small, k) = d
    BY <2>1 DEF InnerFits
  <2>4. row[k] = l
    BY <2>2, <2>3 DEF InnerFits
  <2>5. ChildSlot(small, k) = ChildSlot(small, sep)
    BY <1>1, <2>4 DEF InnerFits
  <2>6. QED
    BY <1>8, <2>3, <2>5
<1>10. Inserted(keys, small.keys, d, sep)
  <2>1. PICK m \in Nat : m = Len(small.keys) /\ m + 1 = n
    BY <1>4
  <2>2. ASSUME NEW j \in 1 .. m, j < d PROVE keys[j] = small.keys[j]
    <3>1. j \in 1 .. n /\ j # d
      BY <2>1, <2>2
    <3>2. QED
      BY <1>4, <1>6, <2>1, <2>2, <3>1
  <2>3. ASSUME NEW j \in 1 .. m, d <= j PROVE keys[j + 1] = small.keys[j]
    <3>1. j + 1 \in 1 .. n /\ j + 1 # d
      BY <2>1, <2>3
    <3>2. QED
      BY <1>4, <1>6, <2>1, <2>3, <3>1
  <2>4. QED
    BY <1>6, <2>1, <2>2, <2>3 DEF Inserted
<1>11. Inserted(page.children, small.children, d + 1, r)
  <2>1. Len(page.children) = Len(small.children) + 1
    BY <1>2, <1>3, <1>4
  <2>2. QED
    BY <1>4, <2>1 DEF Inserted
<1>12. Ascending(small.keys)
  BY DEF InnerFits
<1>13. keys \in Seq(Int)
  BY <1>6, KeysAreNumbers
<1>14. /\ Ascending(new.keys)
       /\ \A k \in Int :
            /\ k < sep => ChildSlot(small, k) <= s /\ ChildSlot(new, k) = ChildSlot(small, k)
            /\ sep <= k => s <= ChildSlot(small, k) /\ ChildSlot(new, k) = ChildSlot(small, k) + 1
  <2>1. new.keys \in Seq(Int) /\ Inserted(new.keys, small.keys, s, sep)
    BY <1>7, <1>9, <1>10, <1>13
  <2>2. new.keys \in Seq(Int)
    BY <2>1
  <2>3. Inserted(new.keys, small.keys, s, sep)
    BY <2>1
  <2>4. Ascending(new.keys)
    BY <1>1, <1>8, <1>12, <2>2, <2>3, SlotsAfterInsert
  <2>5. ASSUME NEW k \in Int
        PROVE  /\ k < sep => ChildSlot(small, k) <= s /\ ChildSlot(new, k) = ChildSlot(small, k)
               /\ sep <= k => s <= ChildSlot(small, k) /\ ChildSlot(new, k) = ChildSlot(small, k) + 1
    BY <1>1, <1>8, <1>12, <2>2, <2>3, SlotsAfterInsert
  <2>6. QED
    BY <2>4, <2>5
<1>15. Hung(new, small, s, sep, r)
  BY <1>2, <1>6, <1>7, <1>9, <1>10, <1>11, <1>14 DEF Hung
<1>16. QED
  BY <1>8, <1>15
=============================================================================
