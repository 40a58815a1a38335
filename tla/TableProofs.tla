---------------------------- MODULE TableProofs ----------------------------
(***************************************************************************)
(* Proofs about PageTable: over any number of slots, tombstones and        *)
(* collisions the table finds exactly what is in it.                       *)
(***************************************************************************)
EXTENDS PageTable, FiniteSetTheorems, WellFoundedInduction, TLAPS

-----------------------------------------------------------------------------
\* Remainders.
LEMMA DivisionWithRemainder ==
  ASSUME NEW a \in Int, NEW n \in Nat, n > 0
  PROVE  a % n \in 0 .. n - 1 /\ a \div n \in Int /\ a = n * (a \div n) + (a % n)
<1>1. a % n \in 0 .. n - 1
  BY SMT
<1>2. a \div n \in Int
  BY SMT
<1>3. a = n * (a \div n) + (a % n)
  BY SMT
<1>4. QED
  BY <1>1, <1>2, <1>3

LEMMA MultipleLeavesNothing ==
  ASSUME NEW n \in Nat \ {0}, NEW q \in Int
  PROVE  (n * q) % n = 0
BY SMT

LEMMA EqualRemainders ==
  ASSUME NEW a \in Int, NEW b \in Int, NEW n \in Nat, n > 0, a % n = b % n
  PROVE  (a - b) % n = 0
<1>1. PICK p \in Int, q \in Int, r \in Int : a = n * p + r /\ b = n * q + r
  <2>1. a \div n \in Int /\ a = n * (a \div n) + (a % n) /\ a % n \in Int
    BY DivisionWithRemainder
  <2>2. b \div n \in Int /\ b = n * (b \div n) + (b % n) /\ b % n \in Int
    BY DivisionWithRemainder
  <2>3. \A p, q, r : a = n * p + r /\ b = n * q + r /\ p \in Int /\ q \in Int /\ r \in Int
          => \E p1 \in Int, q1 \in Int, r1 \in Int : a = n * p1 + r1 /\ b = n * q1 + r1
    OBVIOUS
  <2>4. QED
    BY <2>1, <2>2, <2>3, Zenon
<1>2. a - b = n * (p - q)
  BY <1>1
<1>3. p - q \in Int
  OBVIOUS
<1>4. (n * (p - q)) % n = 0
  BY <1>3, MultipleLeavesNothing
<1>5. QED
  BY <1>2, <1>4

\* A set of numbers that is not empty has a least one.
LEMMA LeastNumber ==
  ASSUME NEW S, S \subseteq Nat, S # {}
  PROVE  \E n \in S : \A m \in S : n <= m
<1>1. PICK n \in S : \A m \in S : ~ (<<m, n>> \in OpToRel(<, Nat))
  BY WFMin, NatLessThanWellFounded, Zenon
<1>2. \A m \in S : ~ (m < n)
  BY <1>1 DEF OpToRel
<1>3. QED
  BY <1>2

-----------------------------------------------------------------------------
\* The probes of a key.

\* Every probe meets a slot.
LEMMA ProbeIsSlot ==
  ASSUME NEW key \in Nat, NEW i \in Nat
  PROVE  Probe(key, i) \in Slot
<1>1. key + i * STEP_ \in Int /\ SIZE_ \in Nat /\ SIZE_ > 0
  BY TableAssumption
<1> DEFINE place == key + i * STEP_
<1>2. place % SIZE_ \in 0 .. SIZE_ - 1
  <2> HIDE DEF place
  <2>1. QED
    BY <1>1, DivisionWithRemainder DEF place
<1>3. QED
  BY <1>2 DEF Probe, Slot

\* Two probes of one round meet two slots.
LEMMA ProbesDiffer ==
  ASSUME NEW key \in Nat, NEW i \in 0 .. SIZE_ - 1, NEW j \in 0 .. SIZE_ - 1,
         Probe(key, i) = Probe(key, j)
  PROVE  i = j
<1>1. ASSUME NEW m \in 0 .. SIZE_ - 1, NEW n \in 0 .. SIZE_ - 1, n < m,
             Probe(key, m) = Probe(key, n)
      PROVE  FALSE
  <2> DEFINE a == key + m * STEP_
             b == key + n * STEP_
  <2>1. a \in Int /\ b \in Int /\ SIZE_ \in Nat /\ SIZE_ > 0
    BY TableAssumption
  <2>2. a - b = (m - n) * STEP_
    BY TableAssumption
  <2>3. a % SIZE_ = b % SIZE_
    BY <1>1 DEF Probe
  <2> HIDE DEF a, b
  <2>4. (a - b) % SIZE_ = 0
    BY <2>1, <2>3, EqualRemainders
  <2>5. m - n \in 1 .. SIZE_ - 1
    BY <1>1, TableAssumption
  <2>6. QED
    BY <2>2, <2>4, <2>5, StepAssumption
<1>2. CASE i < j
  BY <1>1, <1>2
<1>3. CASE j < i
  BY <1>1, <1>3
<1>4. QED
  BY <1>2, <1>3, TableAssumption

\* A round of probes is as long as the table.
LEMMA RoundIsSize == Round = SIZE_
<1>1. SIZE_ \in 1 .. SIZE_ /\ SIZE_ \in Nat \ {0} /\ STEP_ \in Int
  BY TableAssumption
<1>2. Probe(0, SIZE_) = 0
  <2>1. 0 + SIZE_ * STEP_ = SIZE_ * STEP_
    BY <1>1
  <2>2. (SIZE_ * STEP_) % SIZE_ = 0
    BY <1>1, MultipleLeavesNothing
  <2>3. QED
    BY <2>1, <2>2 DEF Probe
<1>3. \A m \in 1 .. SIZE_ - 1 : Probe(0, m) # 0
  <2> SUFFICES ASSUME NEW m \in 1 .. SIZE_ - 1 PROVE Probe(0, m) # 0
    OBVIOUS
  <2>1. 0 + m * STEP_ = m * STEP_
    BY <1>1
  <2>2. QED
    BY <2>1, StepAssumption DEF Probe
<1>4. \A n \in 1 .. SIZE_ :
        Probe(0, n) = 0 /\ (\A m \in 1 .. n - 1 : Probe(0, m) # 0) => n = SIZE_
  BY <1>1, <1>3
<1>5. QED
  BY <1>1, <1>2, <1>3, <1>4 DEF Round

\* A round of probes meets every slot.
LEMMA ProbesCover ==
  ASSUME NEW key \in Nat, NEW s \in Slot
  PROVE  \E i \in 0 .. SIZE_ - 1 : Probe(key, i) = s
<1> DEFINE f == [i \in Slot |-> Probe(key, i)]
<1>1. Slot \subseteq Nat
  BY DEF Slot
<1>2. f \in [Slot -> Slot]
  BY <1>1, ProbeIsSlot
<1>3. \A i, j \in Slot : f[i] = f[j] => i = j
  BY ProbesDiffer DEF Slot
<1> HIDE DEF f
<1>4. f \in Injection(Slot, Slot)
  BY <1>2, <1>3 DEF Injection, IsInjective
<1>5. IsFiniteSet(Slot)
  BY TableAssumption, FS_Interval DEF Slot
<1>6. f \in Surjection(Slot, Slot)
  BY <1>4, <1>5, FS_Injection
<1>7. \E i \in Slot : f[i] = s
  BY <1>6 DEF Surjection
<1>8. QED
  BY <1>7 DEF f, Slot

\* Where a loop over the probes comes to rest.
LEMMA FirstProbeFacts ==
  ASSUME NEW key, NEW slots
  PROVE  /\ FirstProbe(key, slots) \in 0 .. SIZE_
         /\ FirstProbe(key, slots) = SIZE_ \/ Probe(key, FirstProbe(key, slots)) \in slots
         /\ \A j \in 0 .. FirstProbe(key, slots) - 1 : Probe(key, j) \notin slots
<1> DEFINE Rest(i) == /\ i = SIZE_ \/ Probe(key, i) \in slots
                      /\ \A j \in 0 .. i - 1 : Probe(key, j) \notin slots
           ends == {i \in 0 .. SIZE_ : i = SIZE_ \/ Probe(key, i) \in slots}
<1>1. ends \subseteq Nat /\ SIZE_ \in ends
  BY TableAssumption
<1>2. PICK n \in ends : \A m \in ends : n <= m
  BY <1>1, LeastNumber
<1>3. n \in 0 .. SIZE_ /\ Rest(n)
  <2>1. ASSUME NEW j \in 0 .. n - 1 PROVE Probe(key, j) \notin slots
    <3>1. j \in 0 .. SIZE_ /\ ~ (n <= j)
      BY <1>1, TableAssumption
    <3>2. QED
      BY <1>2, <3>1
  <2>2. QED
    BY <2>1
<1> HIDE DEF ends
<1>4. FirstProbe(key, slots) = CHOOSE i \in 0 .. SIZE_ : Rest(i)
  BY RoundIsSize DEF FirstProbe
<1> HIDE DEF Rest
<1>5. FirstProbe(key, slots) \in 0 .. SIZE_ /\ Rest(FirstProbe(key, slots))
  BY <1>3, <1>4
<1>6. QED
  BY <1>5 DEF Rest

-----------------------------------------------------------------------------
\* The inductive invariant.

\* The slots hold entries, the model is an index of as many pages as the pool
\* has frames at most.
TypeInv ==
  /\ array \in [Slot -> [key: Int, value: Int, state: {"EMPTY", "EXIST", "DELETE"}]]
  /\ IsIndex(model, Key, Value)
  /\ IsFiniteSet(DOMAIN model) /\ Cardinality(DOMAIN model) <= MaxLive

\* SlotsAreTheModel, slot by slot and key by key.
EntriesMatch ==
  /\ \A s \in InState("EXIST") :
       array[s].key \in DOMAIN model /\ array[s].value = model[array[s].key]
  /\ \A key \in DOMAIN model : \E s \in InState("EXIST") : array[s].key = key
  /\ \A s, t \in InState("EXIST") : array[s].key = array[t].key => s = t

\* No EMPTY slot lies on the way to an entry.
WayIsOpen ==
  \A s \in InState("EXIST") : \A i, j \in 0 .. SIZE_ - 1 :
    Probe(array[s].key, i) = s /\ j < i => Probe(array[s].key, j) \notin InState("EMPTY")

TableInv == TypeInv /\ EntriesMatch /\ WayIsOpen

LEMMA EntriesMatchMeans ==
  ASSUME EntriesMatch
  PROVE  SlotsAreTheModel
<1>1. ASSUME NEW s \in InState("EXIST")
      PROVE  <<array[s].key, array[s].value>> \in {<<key, model[key]>> : key \in DOMAIN model}
  BY DEF EntriesMatch
<1>2. ASSUME NEW key \in DOMAIN model
      PROVE  <<key, model[key]>> \in {<<array[s].key, array[s].value>> : s \in InState("EXIST")}
  <2>1. PICK s \in InState("EXIST") : array[s].key = key
    BY DEF EntriesMatch
  <2>2. array[s].value = model[key]
    BY <2>1 DEF EntriesMatch
  <2>3. QED
    BY <2>1, <2>2
<1>3. {<<array[s].key, array[s].value>> : s \in InState("EXIST")}
        = {<<key, model[key]>> : key \in DOMAIN model}
  BY <1>1, <1>2
<1>4. \A s, t \in InState("EXIST") : array[s].key = array[t].key => s = t
  BY DEF EntriesMatch
<1>5. QED
  BY <1>3, <1>4 DEF SlotsAreTheModel

LEMMA KeysAreNumbers == \A key \in Key : key \in Nat
BY TableAssumption

\* A search for a key ends at its entry when it has one, and elsewhere
\* otherwise.
LEMMA SearchFacts ==
  ASSUME TableInv, NEW key \in Key
  PROVE  /\ Finds(key) <=> key \in DOMAIN model
         /\ key \in DOMAIN model =>
              /\ Probe(key, SearchEnd(key)) \in InState("EXIST")
              /\ array[Probe(key, SearchEnd(key))].key = key
              /\ array[Probe(key, SearchEnd(key))].value = model[key]
<1> DEFINE e == SearchEnd(key)
           slots == InState("EMPTY") \cup Holding(key)
<1>1. /\ e \in 0 .. SIZE_
      /\ e = SIZE_ \/ Probe(key, e) \in slots
      /\ \A j \in 0 .. e - 1 : Probe(key, j) \notin slots
  BY FirstProbeFacts DEF SearchEnd
<1>2. \A s : ~ (s \in InState("EMPTY") /\ s \in InState("EXIST"))
  BY DEF InState
<1>3. Finds(key) <=> e < SIZE_ /\ Probe(key, e) \in InState("EXIST")
  BY RoundIsSize DEF Finds
<1> HIDE DEF e
<1>4. CASE key \in DOMAIN model
  <2>1. PICK s \in InState("EXIST") : array[s].key = key
    BY <1>4 DEF TableInv, EntriesMatch
  <2>2. s \in Slot /\ s \in Holding(key)
    BY <2>1 DEF InState, Holding
  <2>3. PICK i \in 0 .. SIZE_ - 1 : Probe(key, i) = s
    BY <2>2, ProbesCover, KeysAreNumbers
  <2>4. ~ (i < e)
    BY <1>1, <2>2, <2>3
  <2>5. e \in 0 .. SIZE_ - 1 /\ (e = i \/ e < i)
    BY <1>1, <2>3, <2>4, TableAssumption
  <2>6. Probe(key, e) \notin InState("EMPTY")
    <3>1. CASE e = i
      BY <1>2, <2>3, <3>1
    <3>2. CASE e < i
      BY <2>1, <2>3, <2>5, <3>2 DEF TableInv, WayIsOpen
    <3>3. QED
      BY <2>5, <3>1, <3>2
  <2>7. e # SIZE_ /\ e < SIZE_
    BY <2>5, TableAssumption
  <2>8. Probe(key, e) \in Holding(key)
    BY <1>1, <2>6, <2>7
  <2>9. Probe(key, e) \in InState("EXIST") /\ array[Probe(key, e)].key = key
    BY <2>8 DEF Holding
  <2>10. array[Probe(key, e)].value = model[key]
    BY <2>9 DEF TableInv, EntriesMatch
  <2>11. QED
    BY <1>3, <1>4, <2>7, <2>9, <2>10 DEF e
<1>5. CASE key \notin DOMAIN model
  <2>1. Holding(key) = {}
    BY <1>5 DEF TableInv, EntriesMatch, Holding
  <2>2. ~ Finds(key)
    <3>1. SUFFICES ASSUME e < SIZE_, Probe(key, e) \in InState("EXIST") PROVE FALSE
      BY <1>3
    <3>2. e # SIZE_
      BY <3>1, TableAssumption
    <3>3. Probe(key, e) \in InState("EMPTY")
      BY <1>1, <2>1, <3>2
    <3>4. QED
      BY <1>2, <3>1, <3>3
  <2>3. QED
    BY <1>5, <2>2
<1>6. QED
  BY <1>4, <1>5

LEMMA FoundFacts ==
  ASSUME TableInv, NEW key \in Key
  PROVE  FoundValue(key) = IF key \in DOMAIN model THEN model[key] ELSE INVALID_FRAME_ID
<1>1. CASE key \in DOMAIN model
  <2>1. Finds(key) /\ array[Probe(key, SearchEnd(key))].value = model[key]
    BY <1>1, SearchFacts
  <2>2. QED
    BY <1>1, <2>1 DEF FoundValue
<1>2. CASE key \notin DOMAIN model
  <2>1. ~ Finds(key)
    BY <1>2, SearchFacts
  <2>2. QED
    BY <1>2, <2>1 DEF FoundValue
<1>3. QED
  BY <1>1, <1>2

\* A table that holds fewer pages than it has slots is not full.
LEMMA SomeSlotIsFree ==
  ASSUME TableInv
  PROVE  \E s \in Slot : s \notin InState("EXIST")
<1>1. SUFFICES ASSUME \A s \in Slot : s \in InState("EXIST") PROVE FALSE
  OBVIOUS
<1> DEFINE f == [s \in Slot |-> array[s].key]
<1>2. f \in [Slot -> DOMAIN model]
  BY <1>1 DEF TableInv, EntriesMatch
<1>3. \A s, t \in Slot : f[s] = f[t] => s = t
  BY <1>1 DEF TableInv, EntriesMatch
<1> HIDE DEF f
<1>4. f \in Injection(Slot, DOMAIN model)
  BY <1>2, <1>3 DEF Injection, IsInjective
<1>5. IsFiniteSet(DOMAIN model) /\ Cardinality(DOMAIN model) <= MaxLive
  BY DEF TableInv, TypeInv
<1>6. Cardinality(Slot) <= Cardinality(DOMAIN model)
  BY <1>4, <1>5, FS_Injection
<1>7. Cardinality(Slot) = SIZE_
  <2>1. 0 \in Int /\ SIZE_ - 1 \in Int /\ ~ (0 > SIZE_ - 1) /\ (SIZE_ - 1) - 0 + 1 = SIZE_
    BY TableAssumption
  <2>2. QED
    BY <2>1, FS_Interval DEF Slot
<1>8. Cardinality(DOMAIN model) \in Nat
  BY <1>5, FS_CardinalityType
<1>9. QED
  BY <1>5, <1>6, <1>7, <1>8, TableAssumption

-----------------------------------------------------------------------------
\* Each operation keeps the invariant.

LEMMA InitTableInv == Init => TableInv
<1> SUFFICES ASSUME Init PROVE TableInv
  OBVIOUS
<1>1. /\ array = [s \in Slot |-> [key |-> -1, value |-> -1, state |-> "EMPTY"]]
      /\ model = EmptyIndex
  BY DEF Init
<1>2. array \in [Slot -> [key: Int, value: Int, state: {"EMPTY", "EXIST", "DELETE"}]]
  BY <1>1
<1>3. DOMAIN model = {} /\ IsIndex(model, Key, Value)
  BY <1>1 DEF EmptyIndex, IsIndex
<1>4. IsFiniteSet(DOMAIN model) /\ Cardinality(DOMAIN model) <= MaxLive
  BY <1>3, FS_EmptySet, TableAssumption
<1>5. InState("EXIST") = {}
  BY <1>1 DEF InState
<1>6. QED
  BY <1>2, <1>3, <1>4, <1>5 DEF TableInv, TypeInv, EntriesMatch, WayIsOpen

LEMMA FindKeeps ==
  ASSUME TableInv, UNCHANGED <<array, model>>
  PROVE  TableInv'
BY DEF TableInv, TypeInv, EntriesMatch, WayIsOpen, InState

LEMMA InsertKeeps ==
  ASSUME TableInv, NEW key \in Key, NEW value \in Value, Insert(key, value)
  PROVE  TableInv'
<1> DEFINE free == Slot \ InState("EXIST")
<1>1. key \in Nat /\ value \in Int /\ key \in Int
  BY TableAssumption
<1>2. key \notin DOMAIN model
  <2>1. FoundValue(key) = -1
    BY DEF Insert, INVALID_FRAME_ID
  <2>2. key \in DOMAIN model => model[key] \in Value
    BY DEF TableInv, TypeInv, IsIndex
  <2>3. -1 \notin Value
    BY TableAssumption
  <2>4. QED
    BY <2>1, <2>2, <2>3, FoundFacts
<1>3. PICK i :
        /\ i = FirstProbe(key, free)
        /\ array' = IF i = Round THEN array
                    ELSE [array EXCEPT ![Probe(key, i)] =
                            [key |-> key, value |-> value, state |-> "EXIST"]]
  BY DEF Insert
<1>4. /\ i \in 0 .. SIZE_
      /\ i = SIZE_ \/ Probe(key, i) \in free
      /\ \A j \in 0 .. i - 1 : Probe(key, j) \notin free
  BY <1>3, FirstProbeFacts
<1>5. i # SIZE_
  <2>1. PICK s \in Slot : s \notin InState("EXIST")
    BY SomeSlotIsFree
  <2>2. PICK n \in 0 .. SIZE_ - 1 : Probe(key, n) = s
    BY <1>1, ProbesCover
  <2>3. ~ (n < i)
    BY <1>4, <2>1, <2>2
  <2>4. QED
    BY <1>4, <2>3, TableAssumption
<1>6. i \in 0 .. SIZE_ - 1 /\ Probe(key, i) \in Slot /\ Probe(key, i) \notin InState("EXIST")
  BY <1>4, <1>5, TableAssumption
<1>7. PICK t, entry :
        /\ t = Probe(key, i)
        /\ entry = [key |-> key, value |-> value, state |-> "EXIST"]
        /\ array' = [array EXCEPT ![t] = entry]
  BY <1>3, <1>5, RoundIsSize
<1>8. entry \in [key: Int, value: Int, state: {"EMPTY", "EXIST", "DELETE"}]
  BY <1>1, <1>7
<1>9. entry.key = key /\ entry.value = value /\ entry.state = "EXIST"
  BY <1>7
<1>10. array \in [Slot -> [key: Int, value: Int, state: {"EMPTY", "EXIST", "DELETE"}]]
  BY DEF TableInv, TypeInv
<1>11. /\ array' \in [Slot -> [key: Int, value: Int, state: {"EMPTY", "EXIST", "DELETE"}]]
       /\ array'[t] = entry
       /\ \A s \in Slot \ {t} : array'[s] = array[s]
  BY <1>6, <1>7, <1>8, <1>10
<1>12. \A s : s \in InState("EXIST")' <=> s = t \/ s \in InState("EXIST")
  BY <1>6, <1>7, <1>9, <1>11 DEF InState
<1>13. \A s : s \in InState("EMPTY")' => s \in InState("EMPTY")
  BY <1>9, <1>11 DEF InState
<1>14. t \notin InState("EXIST")
  BY <1>6, <1>7
<1>15. model' = IndexInsert(model, key, value)
  BY DEF Insert
<1>16. DOMAIN model' = DOMAIN model \cup {key}
  BY <1>15 DEF IndexInsert
<1>17. \A k \in DOMAIN model : model'[k] = model[k]
  BY <1>15 DEF IndexInsert
<1>18. model'[key] = value
  BY <1>2, <1>15 DEF IndexInsert
<1>19. \A s \in InState("EXIST") :
         /\ s \in Slot \ {t} /\ array'[s] = array[s]
         /\ array[s].key \in DOMAIN model /\ array[s].key # key
         /\ array[s].value = model[array[s].key]
  BY <1>2, <1>11, <1>14 DEF TableInv, EntriesMatch, InState
<1>20. TypeInv'
  <2>1. IsIndex(model', Key, Value)
    BY <1>15 DEF TableInv, TypeInv, IsIndex, IndexInsert
  <2>2. IsFiniteSet(DOMAIN model) /\ Cardinality(DOMAIN model) \in Nat
    BY FS_CardinalityType DEF TableInv, TypeInv
  <2>3. Cardinality(DOMAIN model) < MaxLive
    BY DEF Insert
  <2>4. IsFiniteSet(DOMAIN model') /\ Cardinality(DOMAIN model') = Cardinality(DOMAIN model) + 1
    BY <1>2, <1>16, <2>2, FS_AddElement
  <2>5. Cardinality(DOMAIN model') <= MaxLive
    BY <2>2, <2>3, <2>4, TableAssumption
  <2>6. QED
    BY <1>11, <2>1, <2>4, <2>5 DEF TypeInv
<1>21. EntriesMatch'
  <2>1. ASSUME NEW s \in InState("EXIST")'
        PROVE  array'[s].key \in DOMAIN model' /\ array'[s].value = model'[array'[s].key]
    BY <1>9, <1>11, <1>12, <1>16, <1>17, <1>18, <1>19
  <2>2. ASSUME NEW k \in DOMAIN model' PROVE \E s \in InState("EXIST")' : array'[s].key = k
    <3>1. CASE k = key
      BY <1>9, <1>11, <1>12, <3>1
    <3>2. CASE k # key
      <4>1. PICK s \in InState("EXIST") : array[s].key = k
        BY <1>16, <3>2 DEF TableInv, EntriesMatch
      <4>2. QED
        BY <1>12, <1>19, <4>1
    <3>3. QED
      BY <3>1, <3>2
  <2>3. ASSUME NEW s \in InState("EXIST")', NEW u \in InState("EXIST")',
               array'[s].key = array'[u].key
        PROVE  s = u
    <3>1. CASE s = t \/ u = t
      BY <1>9, <1>11, <1>12, <1>19, <2>3, <3>1
    <3>2. CASE s # t /\ u # t
      BY <1>12, <1>19, <2>3, <3>2 DEF TableInv, EntriesMatch
    <3>3. QED
      BY <3>1, <3>2
  <2>4. QED
    BY <2>1, <2>2, <2>3 DEF EntriesMatch
<1>22. WayIsOpen'
  <2> SUFFICES ASSUME NEW s \in InState("EXIST")', NEW m \in 0 .. SIZE_ - 1,
                      NEW n \in 0 .. SIZE_ - 1, Probe(array'[s].key, m) = s, n < m
               PROVE  Probe(array'[s].key, n) \notin InState("EMPTY")'
    BY DEF WayIsOpen, Probe
  <2>1. CASE s = t
    <3>1. array'[s].key = key
      BY <1>9, <1>11, <2>1
    <3>2. m = i
      BY <1>1, <1>6, <1>7, <2>1, <3>1, ProbesDiffer
    <3>3. Probe(key, n) \notin free /\ Probe(key, n) \in Slot
      BY <1>1, <1>4, <3>2, ProbeIsSlot
    <3>4. Probe(key, n) \in InState("EXIST")
      BY <3>3
    <3>5. Probe(key, n) \notin InState("EMPTY")
      BY <3>4 DEF InState
    <3>6. QED
      BY <1>13, <3>1, <3>5
  <2>2. CASE s # t
    <3>1. s \in InState("EXIST") /\ array'[s] = array[s]
      BY <1>12, <1>19, <2>2
    <3>2. Probe(array[s].key, n) \notin InState("EMPTY")
      BY <3>1 DEF TableInv, WayIsOpen
    <3>3. QED
      BY <1>13, <3>1, <3>2
  <2>3. QED
    BY <2>1, <2>2
<1>23. QED
  BY <1>20, <1>21, <1>22 DEF TableInv

LEMMA EraseKeeps ==
  ASSUME TableInv, NEW key \in Key, Erase(key)
  PROVE  TableInv'
<1>1. model' = IndexRemove(model, key)
  BY DEF Erase
<1>2. DOMAIN model' = DOMAIN model \ {key}
  BY <1>1 DEF IndexRemove
<1>3. \A k \in DOMAIN model \ {key} : model'[k] = model[k]
  BY <1>1 DEF IndexRemove
<1>4. /\ IsIndex(model', Key, Value)
      /\ IsFiniteSet(DOMAIN model') /\ Cardinality(DOMAIN model') <= MaxLive
  <2>1. IsIndex(model', Key, Value)
    BY <1>1 DEF TableInv, TypeInv, IsIndex, IndexRemove
  <2>2. IsFiniteSet(DOMAIN model) /\ Cardinality(DOMAIN model) <= MaxLive
    BY DEF TableInv, TypeInv
  <2>3. DOMAIN model' \in SUBSET DOMAIN model
    BY <1>2
  <2>4. IsFiniteSet(DOMAIN model') /\ Cardinality(DOMAIN model') <= Cardinality(DOMAIN model)
    BY <2>2, <2>3, FS_Subset
  <2>5. Cardinality(DOMAIN model) \in Nat /\ Cardinality(DOMAIN model') \in Nat
    BY <2>2, <2>4, FS_CardinalityType
  <2>6. QED
    BY <2>1, <2>2, <2>4, <2>5, TableAssumption
<1>5. CASE key \notin DOMAIN model
  <2>1. array' = array
    BY <1>5, SearchFacts DEF Erase
  <2>2. TypeInv' /\ WayIsOpen'
    BY <1>4, <2>1 DEF TableInv, TypeInv, WayIsOpen, InState
  <2>3. EntriesMatch'
    BY <1>2, <1>3, <1>5, <2>1 DEF TableInv, EntriesMatch, InState
  <2>4. QED
    BY <2>2, <2>3 DEF TableInv
<1>6. CASE key \in DOMAIN model
  <2>1. PICK t : /\ t = Probe(key, SearchEnd(key))
                 /\ array' = [array EXCEPT ![t].state = "DELETE"]
    BY <1>6, SearchFacts DEF Erase
  <2>2. t \in InState("EXIST") /\ array[t].key = key
    BY <1>6, <2>1, SearchFacts
  <2>3. t \in Slot
    BY <2>2 DEF InState
  <2>4. array \in [Slot -> [key: Int, value: Int, state: {"EMPTY", "EXIST", "DELETE"}]]
    BY DEF TableInv, TypeInv
  <2>5. /\ array' \in [Slot -> [key: Int, value: Int, state: {"EMPTY", "EXIST", "DELETE"}]]
        /\ array'[t].state = "DELETE"
        /\ \A s \in Slot \ {t} : array'[s] = array[s]
    BY <2>1, <2>3, <2>4
  <2>6. \A s : s \in InState("EXIST")' <=> s # t /\ s \in InState("EXIST")
    BY <2>5 DEF InState
  <2>7. \A s : s \in InState("EMPTY")' => s \in InState("EMPTY")
    BY <2>5 DEF InState
  <2>8. \A s \in InState("EXIST")' :
          /\ s \in InState("EXIST") /\ array'[s] = array[s]
          /\ array[s].key \in DOMAIN model \ {key}
          /\ array[s].value = model[array[s].key]
    BY <2>2, <2>5, <2>6 DEF TableInv, EntriesMatch, InState
  <2>9. TypeInv'
    BY <1>4, <2>5 DEF TypeInv
  <2>10. EntriesMatch'
    <3>1. ASSUME NEW s \in InState("EXIST")'
          PROVE  array'[s].key \in DOMAIN model' /\ array'[s].value = model'[array'[s].key]
      BY <1>2, <1>3, <2>8
    <3>2. ASSUME NEW k \in DOMAIN model' PROVE \E s \in InState("EXIST")' : array'[s].key = k
      <4>1. PICK s \in InState("EXIST") : array[s].key = k
        BY <1>2 DEF TableInv, EntriesMatch
      <4>2. s # t
        BY <1>2, <2>2, <4>1
      <4>3. QED
        BY <2>6, <2>8, <4>1, <4>2
    <3>3. ASSUME NEW s \in InState("EXIST")', NEW u \in InState("EXIST")',
                 array'[s].key = array'[u].key
          PROVE  s = u
      BY <2>8, <3>3 DEF TableInv, EntriesMatch
    <3>4. QED
      BY <3>1, <3>2, <3>3 DEF EntriesMatch
  <2>11. WayIsOpen'
    <3> SUFFICES ASSUME NEW s \in InState("EXIST")', NEW m \in 0 .. SIZE_ - 1,
                        NEW n \in 0 .. SIZE_ - 1, Probe(array'[s].key, m) = s, n < m
                 PROVE  Probe(array'[s].key, n) \notin InState("EMPTY")'
      BY DEF WayIsOpen, Probe
    <3>1. s \in InState("EXIST") /\ array'[s] = array[s]
      BY <2>8
    <3>2. Probe(array[s].key, n) \notin InState("EMPTY")
      BY <3>1 DEF TableInv, WayIsOpen
    <3>3. QED
      BY <2>7, <3>1, <3>2
  <2>12. QED
    BY <2>9, <2>10, <2>11 DEF TableInv
<1>7. QED
  BY <1>5, <1>6

LEMMA NextTableInv == TableInv /\ [Next]_vars => TableInv'
<1> SUFFICES ASSUME TableInv, [Next]_vars PROVE TableInv'
  OBVIOUS
<1>1. CASE UNCHANGED vars
  BY <1>1, FindKeeps DEF vars
<1>2. ASSUME NEW key \in Key, Find(key) PROVE TableInv'
  BY <1>2, FindKeeps DEF Find
<1>3. ASSUME NEW key \in Key, NEW value \in Value, Insert(key, value) PROVE TableInv'
  BY <1>3, InsertKeeps
<1>4. ASSUME NEW key \in Key, Erase(key) PROVE TableInv'
  BY <1>4, EraseKeeps
<1>5. QED
  BY <1>1, <1>2, <1>3, <1>4 DEF Next

LEMMA TableInvariance == Spec => []TableInv
<1>1. QED
  BY InitTableInv, NextTableInv, PTL DEF Spec

\* The table finds every page that was inserted and not erased since, in its
\* frame, and no other, however many tombstones and collisions lie on the way
\* (find, insert and erase of MyHashMap).
THEOREM TableFindsItsPages == Spec => []FindsTheModel
<1>1. TableInv => FindsTheModel
  BY FoundFacts DEF FindsTheModel
<1>2. QED
  BY <1>1, TableInvariance, PTL

\* The entries that exist are the pages in frames, each once.
THEOREM TableHoldsItsPagesOnce == Spec => []SlotsAreTheModel
<1>1. TableInv => SlotsAreTheModel
  BY EntriesMatchMeans DEF TableInv
<1>2. QED
  BY <1>1, TableInvariance, PTL
=============================================================================
