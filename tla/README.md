# A verification of TicketSystem-ACM-2025Spring in TLA+

The repository is a train ticket system: a program that reads commands
(`add_user`, `buy_ticket`, `refund_ticket`, ...) from its input, answers each on
its output, and keeps all data in B+ trees on disk, under a buffer pool of fifty
frames.  It has no tests and its documentation is the code.  This directory
models it in TLA+, checks the models with TLC and proves theorems about them
with TLAPS.

    tlc -config TrainQueue.cfg MCTrainSystem.tla     # a run
    tlapm TrainProofs.tla                            # a proof

`PROJECT.json` lists components, runs, the lines each definition stands for,
hazards, mutants and theorems.

## 1. The system

### Components

Paths are relative to `src/src/` unless they begin with `main/`.

| Component | Source | State | Operations |
|---|---|---|---|
| Main loop | `main/ioput.cpp` | `has_opened` (a file) | first start, next start, read a command, exit |
| Dispatch | `IO/commandparser.cpp` | none | `UserParse`, `Execute` |
| User system | `system/user_system.cpp`, `item/user.cpp` | `user_info` (a tree) | `AddAdmin`, `AddUser`, `LogIn`, `LogOut`, `Seek`, `Modify` |
| Sessions | `system/core_system.cpp` | `users_id_now` (a red-black tree in memory) | `LogIn`, `LogOut`, `Find` |
| Ticketing | `system/train_system.cpp`, `item/train.cpp` | `release`, `states`, `routes`, `user_order`, `train_query` (trees), `order_time` | `AddTrain`, `DeleteTrain`, `ReleaseTrain`, `BuyTicket`, `Refund` |
| Train queries | `system/train_system.cpp` | none | `QueryTrain`, `QueryTicket`, `QueryTransfer`, `QueryOrder` |
| Clock | `item/train.cpp` | a date and time | `Addit`, `Add`, `Minus`, `Compare`, `CutDate`, `CutTime` |
| B+ tree | `include/index/` | header, internal and leaf pages | constructor, `Insert`, `Remove`, `GetValue`, `KeyBegin`, the iterator |
| Buffer pool | `include/storage/` | frames, page table, dirty bits, pins, next page number | `NewPage`, `VisitPage`, guards, destructor |
| Page table | `include/storage/buffer_pool_manager.hpp` | slots with tombstones | `insert`, `find`, `erase` |
| Set | `include/mySTL/set.hpp` | a red-black tree | `Insert`, `Erase`, `Exist` |
| Vector, fixed strings, token scanner | `include/mySTL/`, `IO/tokenscanner.cpp` | none that outlives a command | containers and text |
| Station names | `core::hash_str` | a tree from hash to name | `Insert` in `add_train`, `GetValue` for printing |

### How they interact

Everything is a function call in one thread.  Main gives the line to
`commandparser.cpp`, which calls one function of `user_sys` or `train_sys`.
Both halves ask `core::Find` whether the user of the command is logged in; only
`user_sys` changes the sessions.  Every tree is a `BPlusTree` with a
`BufferPoolManager` of its own; the tree holds `PageGuard`s on the pages it
works on, each guard a pin on a frame, and several systems hold an iterator,
hence a guard, while they change other trees.  The destructors of the pools
write all cached pages and the next page number when the program ends; main
writes `order_time` to `has_opened`.  The next run reads both back and starts
with no sessions.

### What is hard here

There is no concurrency.  What can go wrong, and what a test would hardly
reach, is

- **working on copies**: the trees return values by copy; `BuyTicket`,
  `Refund` and `Modify` change the copy and store it with Remove and Insert,
  whose answers are ignored.  `Refund` keeps two copies (the order, the seat
  counts) across a loop that changes the trees;
- **structures that must agree**: seat counts with orders, the waiting queue
  with the pending orders, `routes` with the trains, sessions with the
  registry, frames with the page table;
- **lookups that cannot miss**: `.value()` on optional results, without a test;
- **the order of promotion** when seats come back to a queue of waiters with
  different legs and amounts;
- **restarts**: order numbers and page numbers live in memory and in a file;
- **rebalancing**: splits, loans and merges over several levels of a tree, and
  the leaf chain that must follow;
- **eviction**, with dirty pages, pinned pages and pointers that outlive their
  guard;
- **tombstones** in an open hash table that is nearly as small as the pool;
- **rotations and swaps of nodes** in a red-black tree that dereferences siblings
  and grandparents because its balance says they exist;
- **hand-made calendar arithmetic**, and searches and sorts written on top of it.

`PROJECT.json` lists these one by one under `hazards`, each at its line with
the properties that cover it, or a note why none does.

### What makes each component correct

- *Ticketing*: no seat is sold twice and none is lost (`SeatsConserved`); queue
  and orders tell the same story (`QueueMatchesOrders`); seats that come back
  reach those who wait, oldest first (`NoWaiterFits`, `NoOvertaking`); orders are
  never lost, altered or revived (`OrderLifecycle`), and their numbers are unique
  for ever (`OrderNumbersUnique`); lookups succeed (`LookupsNeverMiss`); what is
  advertised can be bought (`AdvertisedIsBuyable`).
- *Users*: sessions belong to registered users (`OnlineRegistered`), privileges
  do not climb (`NobodyReachesTheTop`), accounts are kept and changed only by
  those who may (`AccountsKept`), a session is ended only by a command that names
  it (`LogoutOnlyOwnSession`, which the code violates).
- *Program*: sessions change only as ticketing is ready for (`ImplementsTrains`),
  orders are made and given back by their owners (`OwnerActs`), a command that
  began is answered (`RefundAnswers`).
- *B+ tree*: it is a map (`ImplementsIndex`, `LookupsFind`) and an ordered one
  (`ScansInOrder`), balanced and filled (`BalancedAndFilled`), without lost or
  shared pages (`EachPageHangsOnce`).
- *Buffer pool*: no write is lost and no old content comes back
  (`ImplementsPageStore`), pages do not move under their users (`GuardsStayPut`),
  frames are not leaked (`PinsAreGuards`).
- *Page table*: it finds exactly what is in it (`FindsTheModel`,
  `SlotsAreTheModel`).
- *Clock*: its dates are those of the calendar.
- *Train queries*: `query_ticket` lists the rides of the timetable, all of them and
  in order (`TicketsAreTheTimetable`); `query_transfer` answers with a change that
  can be caught and that no other beats (`TransferIsBest`).
- *Sessions*: the tree is a red-black tree (`RedBlack`) and answers as the set that
  core takes it for (`ImplementsSet`).
- *Station names*: what a command prints has been stored (`ReferencesResolve`, which
  also says that orders belong to registered users).

## 2. The modules

    TicketSystem ──┬── UserSystem ──────┬─ Index ◄── IndexContract ◄── TreeProperties
                   │       └─ SessionSet ◄── SetContract ◄── RBSet       (BPlusTree)
                   └── TrainProperties ─┘
                          │   (TrainSystem)
                   TrainRefinement ── SeatLedger

    MCTrainQueries ── QueryProperties ── TrainQueries ── Clock
    BufferPool ── PageStore                              PageTable

| Module | What it is |
|---|---|
| `Index` | the operators that stand for a `BPlusTree` in the modules above it: a function with a finite domain, `IndexInsert` that refuses a stored key, `IndexRemove` that ignores an unknown one, `IndexReplace` for Remove followed by Insert |
| `TrainSystem` | ticketing, an action per command; `Refund` is `RefundRefused`, `RefundPending`, or `RefundBegin`, a `RefundVisit` per iteration of the scan, and `RefundEnd` |
| `TrainProperties` | its invariants and action properties, and `QueryTicket` as an operator |
| `SeatLedger` | abstract: a ledger of orders, without counts, queue or scan |
| `TrainRefinement` | the mapping from `TrainSystem` to `SeatLedger` |
| `UserSystem` | registry and sessions |
| `SessionSet` | the operators that stand for `sjtu::Set` in `UserSystem`, with the first lines of `Erase` |
| `TicketSystem` | the program: both systems, one process, shared sessions, and the names that `add_train` stores |
| `Clock` | the calendar arithmetic |
| `TrainQueries` | `query_ticket`, `query_train` and `query_transfer` as operators on dates, times and fares, with the quick sort; the behaviour releases trains and walks through the days to ask about |
| `QueryProperties` | the timetable in minutes, without indexes, and what the answers mean in it |
| `SetContract` | abstract: the set of sessions, as a state machine |
| `RBSet` | the red-black tree, link by link |
| `BPlusTree`, `TreeProperties` | the tree, page by page and, in a command, level by level |
| `IndexContract` | abstract: the map that `Index` describes, as a state machine |
| `BufferPool` | pool, frame manager, disk manager and guards |
| `PageStore` | abstract: pages that keep what is written to them |
| `PageTable` | the hash table, probe by probe |
| `TrainProofs` | theorems about ticketing: types, lookups, life of orders and seats; who gets the seats, the end of the scan, and the refinement of `SeatLedger` |
| `UserProofs`, `ProgramProofs` | theorems about users, and about the program that composes them with ticketing |
| `PoolProofs`, `TableProofs` | theorems about the buffer pool and its page table |
| `TreeLemmas`, `TreeProofs` | the B+ tree: lemmas about pages, their halves and their levels; theorems about the tree |
| `ClockProofs` | theorems about the calendar |
| `MC...` | instances for TLC |

Definitions whose comment begins with "A mistake" are plausible bugs, one for
each property.  Nothing uses them: `PROJECT.json` (`mutants`) says which
definition each replaces and which property TLC then finds violated.

### How states and actions correspond to the code

*Ticketing.*  The five trees are indexes (functions) with the keys the code
uses; `order_time` and `has_opened` are the counter and its file.  The locals
that live through the loop of `Refund` are variables: `target` (the copy of the
order), `seats` (the copy of the counts), `cursor` (where `iter2` stands) and
`complete_query`.  The other commands are one action, since nothing runs
between their first and last statement.  `BuyTicket` is called by
`commandparser.cpp` with the number `++order_time`, before any check, so a refused
request uses a number too.  `IsRanked` is the first loop of `Refund`, over the
keys (uid ascending, time descending) from `(uid, order_time)`.

*Users.*  `Erase` and `Erased` (in `SessionSet`) are `Set::Erase` with its first
lines.  -1 is the privilege that `UserParse` gives when `-g` is absent.

*Program.*  `TicketSystem` runs a command of either half at a time; the user
system's `up` is `pc # "down"`.  `AddTrain` stores the station names while the
command is read, whether or not the train is accepted.

*Train queries.*  A route is a record that is its own key, as in the code; the
iterators from `KeyBegin` give the routes of an origin, or of a pair of stations,
in the order of `RouteTComparator`.  `Partition` is the inner loop of the quick sort:
the two scans as the furthest `right` and the least `left` at which they stop, and
the two moves of the hole.  `QueryTransfer` folds over the first trains and `BestOver`
over the second ones; `Improves` is the condition of four levels.  Seats are left to
`TrainProperties!QueryTicket`.

*Sessions.*  A node is named by its value: `Erase` swaps nodes, not values, so a
node keeps its value for life.  The code writes each case for the left and for the
right; here the side is an argument.  The spare node `sentinar_` of `Swap` is a node of
the model, its links are cleared after use because the code never reads them again.

*Tree.*  An `Insert` or `Remove` takes a step for the leaf and one for each level
that its splits, loans and merges reach: `task` is what the loops of the two
functions have still to do.  A page that was split waits for `AddChild`, an
iteration of the loop that begins at `b_plus_tree.hpp:160`, or for `AddRoot`; a page
that got too small waits for `Mend`, the test of a sibling and the loan or the merge
(`MoveOver`, `DropChild`).  `task.path` is what is left of the `Trace`; its slots are found again
from `task.key`, since no page on it has changed.  The next command begins when
`task` is `Idle`.  Leaf and internal sizes are parameters; the program's come from
the size of a page.

*Pool.*  The tree is a client of `Holder` slots, each with at most one guard.
`Drop` is the destructor of a guard or a move assignment over one.
`WriteDropped` is what `Insert` does when it grows a new root: it keeps writing
through the pointer of a guard that is a temporary of the previous statement
(`b_plus_tree.hpp:176-178`, `184-188`).

### What is abstracted

- Dates are day numbers in `TrainSystem`.  Run `season` is what allows it: on
  every day of the season the code's `Add` and `Minus` agree with a count of days.
  Times of day and fares are in `TrainQueries` only; names, mail addresses and
  printed text are left out.  In `TrainQueries` a train's name is its rank in the
  order of `strcmp`, 0 the empty name.
- A station is its hash; two names with one hash are not considered.
- Amounts are natural numbers; stations of a train are distinct
  (`WellFormed`); both are what the input format of the program provides.
- A tree is a function in the modules above it; that a tree *is* a function is
  what run `tree_loan` checks and `TreeIsAMap` proves.  The tree in turn takes pages as
  things that keep their content, which run `pool` checks of the pool, and the
  pool takes its page table as a function, which run `page_table` checks.
- A page that was merged away is dropped from `pages`: the code never frees it
  and never reads it again.  Page numbers of new pages are the next number;
  each start of a tree uses one up, as in the code.
- Restarts happen after a clean exit.  A killed process loses `order_time`, the
  next page numbers and the cached pages; the code makes no attempt to survive
  that, and the models do not describe it.

## 3. The runs

| Run | Instance | States | Shows |
|---|---|---|---|
| `train_queue` | one train with three stations (the second left a day later), 2 seats, amounts 1 and 2, 3 numbers | 178 000 | seats conserved, queue = pending orders, numbers unique over restarts, life of an order, refinement of the ledger |
| `train_deep_queue` | two stations, 2 seats, 5 numbers | 535 000 | queues of three waiters of different sizes: promotion is complete and in order |
| `train_catalogue` | two users, two names, three descriptions (one with an empty sale), 2 numbers | 494 000 | adding, deleting, releasing in every order; `query_ticket` against `buy_ticket` |
| `users` | three users, two passwords, privileges 3, 9, 10, 11 and absent | 7 000 | sessions, privileges, accounts |
| `users_logout` | two users | 34 | **violation**, see below |
| `program` | both systems, two users, one train, 2 numbers | 258 000 | what ticketing assumes of the sessions, ownership of orders, stored station names, liveness of `refund_ticket` |
| `pool` | 2 frames, 3 pages, 2 holders, 2 contents, 8 visits | 803 000 | eviction, write-back, pins, restarts; refinement of the page store |
| `page_table` | 5 slots, step 2, 5 keys that collide, 4 live | 517 000 | probing over tombstones |
| `tree_loan` | 6 keys, 2 values, leaves below 4 entries | 254 000 | every sequence of Insert and Remove; refinement of the map |
| `tree_deep` | 7 keys, leaves below 3 entries, internal pages below 4 children | 1 238 000 | three levels: splits, loans and merges of internal pages |
| `season` | 92 days, offsets up to 29 days in steps of 1003 minutes; every set of seven trains over four stations on every day | 16 000 | the calendar; the lists of `query_ticket` and the choice of `query_transfer`, in both orders, between every two stations |
| `session_tree` | 8 values | 32 000 | every sequence of insertions and erasures in the red-black tree; refinement of the set |

### Bounds, and why they are enough

- *Three orders on overlapping legs* (A-B, B-C, A-C of a train with three
  stations) is the least at which a promotion depends on an earlier promotion of
  the same scan: one order gives back two seats, two wait.  *Five orders on one
  leg* gives queues in which the first waiter fits, the second no longer does
  and the third does, and scans while earlier orders are refunded.
- *Two departures and two trains* are enough for a command on one to disturb
  the other; no command touches more than one departure.
- *Three users* allow a chain giver, receiver, third user; privileges around the
  administrator's 10 include the boundary cases 9, 10 and 11.  User names and
  passwords are symmetric there: no action compares them in another way than
  for equality.
- *Two frames for two guards and three pages*: every visit beyond the second
  page evicts, with a dirty or clean, pinned or unpinned candidate.  Times are
  bounded by `MaxTime` at a visit.
- *Five slots with step 2, four live keys of five*: chains that wrap around,
  reused tombstones, and a table without an EMPTY slot, in which `find` must stop
  after a round.  The program has 53 slots for 50 frames.
- *Six or seven keys* on pages of 3 or 4 reach every case of Insert and Remove
  (split of leaf, internal page and root; loan from the left and the right;
  merge to either side; root that shrinks) and three levels.  `MaxPages` bounds
  the numbers of pages ever used.
- *Eight values* make trees of black height 3, in which both repairs climb more
  than one level and every case of `EraseMaintain`, on either side, and every swap
  (adjacent nodes, the root, a node with one child) occurs.
- *Seven trains* give lists of up to five tickets for the sort, two pairs of twins
  that differ in name and sale only, so that names decide, a train that is reached
  at the minute it leaves, trains that board after midnight or days after their
  departure, a sale over the end of June, and one from the end of July to
  which a change takes more than a month.  `NoPrice` is the code's `INT_MAX`.
- *Step 1003 minutes* is coprime to the minutes of a day, so that offsets run
  through minutes and hours; 42 000 minutes are 29 days, the longest stretch
  that `Minus`, which borrows one month, is meant for.

Deadlock is checked in every run but `season`, whose walk through the calendar
ends with the season and the timetable.

### Fairness

Only `RefundVisit` and `RefundEnd` are fair: `Refund` is a loop in one thread,
and a function that was called runs on.  No command has to be given, so nothing
else is fair.  `RefundAnswers` then says that the loop ends; it would not if the
iterator came back to what it had passed.

### The month of `query_transfer`

`QueryTransfer` starts from a best time of 32 days, and `Minus` borrows one month
only.  So in the order of time a pair of trains that takes longer than about a month
is answered with 0, though the order of cost finds it; such a journey exists when the
sale of the second train begins long after the first arrives.  `TransferIsBest` asks for an
answer in the order of time only where a journey of less than thirty days exists,
and for the best one in every answer that is given.

### What the violation says

`Set::Erase` begins with `if (nodes_num_ <= 1)` and then empties the set and
returns true, whatever value it was asked to erase.  So with one user logged in,
`logout` of anybody else answers 0 and ends that user's session.  The remaining
lines of the function and its comment treat a value that is not in the set as
not found.  `UserSystem` models the function as it is, and every other run and
proof holds of this behaviour.

## 4. The proofs

TLC shows the properties on the instances above; TLAPS proves these for any
sets of users, trains, stations, dates and amounts, any number of orders, and
any number of frames, pages, slots and guards, and trees of any height, page
sizes and keys:

| Module | Theorem | Property |
|---|---|---|
| `TrainProofs` | `TypeCorrect` | `TypeOK`: in particular no seat count is ever negative |
| | `LookupsSucceed` | `LookupsNeverMiss` |
| | `NumbersAreUnique` | `OrderNumbersUnique` |
| | `QueueIsTheWaiting` | `QueueMatchesOrders` |
| | `OrdersOnlyMoveForward` | `OrderLifecycle` |
| | `DeparturesStay` | `OpenedForGood` |
| | `SeatsAreConserved` | `SeatsConserved` |
| | `NeverOverbooked` | `NoOverbooking`, which no run checks: it follows |
| | `ShownTicketsCanBeBought` | `AdvertisedIsBuyable` |
| | `NobodyWaitsInVain` | `NoWaiterFits` |
| | `FirstComeFirstServed` | `NoOvertaking` |
| | `ScanHasANext`, `ScanEnds` | the scan of `Refund` is never stuck, and each step leaves fewer queries to visit |
| | `TrainsKeepTheLedger` | `ImplementsLedger`, the refinement of `SeatLedger` |
| `UserProofs` | `TypeCorrect` | `TypeOK` |
| | `SessionsAreRegistered` | `OnlineRegistered` |
| | `AccountsAreKept` | `AccountsKept` |
| | `TopStaysTheTop` | `NobodyReachesTheTop` |
| | `LogoutSparesTheOthers` | a session ends at a logout of its own user, but for the only one there is |
| `ProgramProofs` | `NothingDangles` | `ReferencesResolve` |
| | `OwnersAct` | `OwnerActs` |
| | `ProgramRunsTrains` | `ImplementsTrains`: the sessions change only as ticketing is ready for |
| | `ProgramKeepsPromises` | the invariants of ticketing, of the whole program |
| | `ProgramKeepsTheLedger` | the whole program implements `SeatLedger` |
| `PoolProofs` | `PoolTypeCorrect` | `TypeOK` |
| | `NoPageMovesUnderItsUser` | `GuardsStayPut` |
| | `EveryPinIsAGuard` | `PinsAreGuards` |
| | `PoolIsAPageStore` | `ImplementsPageStore`, the refinement of `PageStore` |
| | `PoolUsesItsTable` | the pool enters a page into its table only as `PageTable` lets it |
| `TableProofs` | `TableFindsItsPages` | `FindsTheModel` |
| | `TableHoldsItsPagesOnce` | `SlotsAreTheModel` |
| `TreeProofs` | `TreeTypeCorrect` | `TypeOK` |
| | `StaysBalancedAndFilled` | `BalancedAndFilled` |
| | `PagesHangOnce` | `EachPageHangsOnce` |
| | `LookupsAreExact` | `LookupsFind` |
| | `ScansAreOrdered` | `ScansInOrder` |
| | `TreeIsAMap` | `ImplementsIndex`, the refinement of `IndexContract` |
| `ClockProofs` | `ClockFollowsCalendar` | `AddFollowsCalendar` |
| | `StationDayLeadsBack` | `BoardingDayLeadsBack` |
| | `JourneysTakeTheirTime` | `JourneysAreMeasured` |
| | `DatesInOrder` | `Compare` orders the dates of the season as their minutes are |
| | `SeasonGoesDayByDay` | the loop over a sale meets every day once |

**Assumptions**, which TLC evaluates in every run.  `TrainTotalsAssumption`: the
described trains are records of their type, call at two different stations or
more, and are not released; `InputAssumption`: dates are integers, amounts
naturals.  `PrivilegeAssumption` and `PasswordAssumption`: privileges that a
command names are naturals, and the mark for a missing password is no password.
`TrainAssumption` and `UserAssumption` of `TicketSystem` are the same, stated of the
program's constants.  `PoolAssumption`: there are no more guards at a time than
frames, which is what `BufferPoolManager` needs to find a victim, and fifty frames
are more than a path through a tree; `NobodyAssumption` and `ContentAssumption`:
the mark for "no guard" is no guard, and a new page's content is a content.
`TableAssumption`: fewer pages than slots (50 and 53 in the program);
`StepAssumption`: size and step of the table have no common divisor (53 and 7),
said as what it is needed for, that a key's probes come back to the first slot
only at the end of a round.  Without it the theorem is false: keys could find
all their slots taken while others are free.  `SizeAssumption` of `BPlusTree`: keys are
integers, which stand for any linear order, a leaf splits at three entries or more
and an internal page at four children or more, as `b_plus_tree_page.hpp:11-12` has it for every
type that is stored; below that a half would be empty.  `StepAssumption` of `Clock`: an offset
grows; `MonthAssumption`: never beyond 31 days, as the comment of `operator=(int)` asks
("The time should not be longer than a month").

**The argument for ticketing.**  None of the invariants is inductive alone.
That seat counts stay natural needs the departure of every order to be on sale
when `Refund` reads its counts (`LookupsNeverMiss`); that the scan finds the
order of a query needs queue and orders to match (`QueueMatchesOrders`); that a
promotion does not touch the order being given back, and that a new order
replaces none, needs the numbers to be unique and the copy in `target` to be
what is stored (`ScanOK`); and trains must be well formed for the day of
departure to exist (`CatalogueOK`).  `IInv` is their conjunction.  There is a
lemma for each action (`...Keeps`), with a step for each conjunct it can
disturb; TLC has checked `IInv` on the instances of `train_queue` and
`train_catalogue`.  `StepOnOrders` sums up what a step can do to the orders, from
which the life of an order follows.

**The argument for seats.**  `SeatInv` adds to `IInv` that the orders are finitely
many and that each occupies legs its departure has (`OrdersRide`).  As far as seats
go a step can do three things only: move none, give a stored or promoted order
its seats, or take those of the order that is given back (`NoSeatMoves`,
`SeatsTaken`, `SeatsReturned`); each action is shown to be one of them, and
`SeatsConserved` follows by counting a disjoint union.  `RoutesMatch`, that the
route index holds a route for each pair of stations of each train on sale with
the day of departure there, is what `AdvertisedIsBuyable` needs.

**The argument for the queue.**  A purchase only takes seats, so whoever lacks
them goes on lacking them; seats come back at `RefundBegin` only, for one
departure, and exactly the waiters of that departure are then ahead of the
cursor.  `RefundVisit` passes a waiter who still lacks his seats, and later
promotions take more.  `NoOvertaking` needs `NoWaiterFits` at a purchase (the
earlier order would fit if the later one did) and the order of the scan at a
promotion; `QueueInv` is inductive.

**The argument for the ledger.**  `SeatLedger` decides with sums over orders; the
code decides with counts.  `SeatsConserved` makes the test of `BuyTicket` the
ledger's.  At `RefundEnd` the ledger promotes all at once, by a definition over the
order numbers, what the scan promoted one by one; `ScanDecides` says at every
iteration that the promoted waiters below the cursor are those the ledger would
promote.

**The end of the scan.**  The queue is finite because each query has an order of its
own.  A visit moves the cursor past the least of the queries ahead of it, so one fewer
is left (`ScanEnds`), and a finite set of numbers that is not empty has a least
(`ScanHasANext`).  With the fairness of the loop, which the prover cannot take
into account here, this is why `RefundAnswers` holds.

**The argument for users.**  `TypeOK /\ OnlineRegistered` is inductive because
nothing ever unregisters a user.  `StepGrants` says that a step that touches the
registry stores one user, with a privilege below that of somebody logged in or
the one it had; both action properties follow.  `LogoutOnlyOwnSession` is false;
`LogoutSparesTheOthers` is what is left of it: nobody but the only user who is logged in
can lose his session to the logout of another name.

**The argument for the program.**  `SameTrains` and `SameUsers` tie the halves of
`TicketSystem` to the modules that the proofs above are about; `StepOfTrains`
and `StepOfUsers` say that every step of the program is a step of each half or
leaves it alone.  For the first, `users_id_now` must remain a set of users, which the
invariant of the other half provides.  So both invariants hold of the program,
and with them `ReferencesResolve` is inductive: a new order comes from a session,
sessions are registered (`UserProofs`), its stations are stations of a train in
`release` (`AcceptedRequest`), whose names `add_train` stored.  `RefunderOnline`,
that the user of a `refund_ticket` under way stays logged in, gives `OwnerActs`.  The same
invariant carries the promises of ticketing over to the program, and with `ScanDecides`
the refinement of the ledger.

**The argument for the pool.**  `PoolInv` joins the checked invariants to:
each guard is counted in the pins of its frame, so that only a frame without
guards is a victim; table and frame headers agree on which page is where; who
may write makes the frame dirty before he writes; a clean frame equals its
page on disk; and after `Exit` nothing is left in memory.  With the content of a page
mapped to its frame's if it is cached and to the file's otherwise, every step is
one of `PageStore` or a stutter; eviction, write-back, exit and start are stutters
of the contents.

**The argument for the page table.**  The probes of one round are all different
(`ProbesDiffer`, by division with remainder), hence meet every slot (`ProbesCover`, a
pigeonhole), and as the table is never full an insertion finds a free one.  `WayIsOpen`
is the reason for tombstones: no EMPTY slot lies between a key's first slot and
its entry.  With it a search does not stop before the entry.

The pool relies on the table and the table on the pool: `PoolUsesItsTable` proves of
the pool what the table assumes.  Pages in the table have different frames
(`TableMatchesFrames`), none of which is the one being taken over, so there are fewer
of them than frames.

**The argument for the tree.**  The properties say what holds at every page; none of
them is inductive, and the pages alone do not say how they hang together.  `Sound` says it with two
functions that the program does not have.  There are `H + 1` levels; `at[l][k]` is the page of
level `l` that holds what is to be known of key `k`, and `see[l][k]` is the one that
the level above leads `k` to.  `Shape` states that the two agree with the separators
(`see[l][k]` is the child of `at[l+1][k]` at the slot of `k`), that each page is
on one level, that the root is the whole top level, that entries lie where
their keys lead, and that the chain of leaves follows level 0.  So each page
stands for an interval of keys, which is all of them at the root
(`RowsConvex`), and the height of the tree needs no induction: a claim about
all levels is one about the least level at which it fails (`LeastNumber`).

Between commands `at` and `see` are the same (`AtRest`).  A split changes `at` on one
level and leaves `see` as it was, for the parent does not know of the new page (`InSplit`);
`AddChild` lets `see` follow there and may begin a split one level up, and `AddRoot`
makes a new level.  A loan moves the boundary between two neighbours on both functions
at once, a merge gives the keys of the right page to the left one, and the parent may then
be the page with one element too few (`InMend`; `SizesFit` knows which page that
is).  There is a lemma for each action in each case.

With `Shape`, the descent for a key meets `at[H][k]`, ..., `at[0][k]`, so that the path
has `H + 1` pages whatever the key (`BalancedAndFilled`) and ends at the leaf where
the key's entry is if there is one (`LookupsFind`).  A page that hung at two places would stand
for two intervals (`EachPageHangsOnce`).  The next leaf of the chain holds the next keys
and is not empty (`ScansInOrder`).  The first step of a command changes the entries by one,
and the others only move entries between leaves, so that they are stutters of
`IndexContract`.

`TreeIsAMap` closes the seam between ticketing and users on one side and the trees
on the other: what they take for a function with `IndexInsert` and `IndexRemove` is one.

**The argument for the clock.**  `Count` and `Length` give minutes; a date of the season
and an offset below a month and a step (`IInv`) are what `Addit` and `Minus` are
defined on.  `CarryFacts` follows a day through the three ifs of `Addit`: whatever
month it starts in, the carry keeps the count and ends in a day of the month.  A date
is told by its count (`DateAndTime`), so each property becomes an equation of
counts; in `Minus` the month that is borrowed is the one before the later date, which is
right as long as the stretch is shorter than that month.  The state
machine of run `season` is `TrainQueries`, each of whose steps is one of `Clock` or leaves
its variables alone.

**Only model-checked.**  Liveness (`RefundAnswers`) and whatever needs ENABLED.
`TicketsAreTheTimetable` and `TransferIsBest`, about the quick sort and the choice of a
transfer, and `RedBlack` and `ImplementsSet`, about the red-black tree: their
definitions are recursive, and what they compute for every input needs induction
over data, which is out of the prover's reach.  `LogoutOnlyOwnSession` is false.
`Sound` quantifies over all levels and all keys, so TLC cannot evaluate it; it checks
the six properties that follow from it.  The theorems about the tree take pages as things
that keep their content, which `PoolIsAPageStore` proves of the pool; that a
guard is held for as long as the tree uses a page is part of `BufferPool`.  The theorems
about the pool take the page table as a function, and `TableProofs` proves of
the table what the pool uses.  That `sjtu::Set` is the set that `UserSystem` takes
it for is checked by run `session_tree` only.

## 5. What is not modelled

- `sjtu::vector`, the fixed strings, the token scanner, the cutting of command
  lines into parameters, and everything printed: containers and text.
- The widths of fares: `price * amount` is an `int` in the code.
- The end of the input: without `exit` the main loop goes on with failed reads.
- Copies, assignment and `Clear` of `sjtu::Set`, which nothing calls.
- Crashes, see above, and counters beyond the width of an `int`: `order_time`
  and the clock of the frame manager count commands and visits.

## 6. Plan

The order follows the weight of the behaviour: what customers are promised
first, what it stands on next.

1. *Done.* Ticketing with its ledger, users, the program that composes them.
2. *Done.* The storage under them: tree, pool, page table, each against its
   abstract specification; the calendar.
3. *Done.* Theorems: types, lookups, numbers, queue and life of orders; sessions
   and privileges.
4. *Done.* `sjtu::Set` with its rotations against a set; the queries and their
   sort against the timetable; the station names.
5. *Done.* Theorems: seats, the queue and its order, the refinement of the ledger;
   the buffer pool with its page store, the page table; the program.
6. *Done.* Theorems: the calendar, the end of the scan, the whole program as a ledger, the
   pool as a user of its page table.
7. *Done.* Theorems: the B+ tree, with commands that go level by level, and its
   refinement of the map.  What is only checked is out of the prover's reach, see
   section 4.
