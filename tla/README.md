# TLA+ verification of the MDB memory database

The repository is a collection of unrelated programs: textbook exercises and
copies (`cprogramming/apue.*`, `unpv13e`, `recipes-master`, `programs`, ...),
scripts in several languages, and `cprogramming/boss`, a telecom billing system.
What has a core of its own that is worth a model is the system's in-memory
database, `cprogramming/boss/src/mdb`: processes attach a shared-memory segment
and work on its tables directly, so everything that keeps them apart is in this
code. All paths below are relative to `src/cprogramming/boss/src/mdb`.

## The system and its parts

| Part | State | Operations | What can go wrong |
|---|---|---|---|
| Readers/writer lock, `semaphore/MutexDoubleLock.cpp` | per lock ("source"), in shared memory: a mutex, a condition variable, `m_rdCount`, `m_wtCount`, `m_wtWait` | get read/write lock, with and without waiting; release | exclusion, lost wake-ups, starvation |
| Registration, `semaphore/MutexShmMgr.cpp` | per thread a slot: for each source its reads, writes and waits | `lockRdSrc` ... `unlockWWaitSrc`, `setThreadSrcPos` | slot and counters disagree; slot full |
| `mutex_manager`, `semaphore/MutexSrcMgr.cpp`, `MutexManagerApp.cpp` | list of dead processes | find the slots of killed processes, give back what they say, unlock a mutex by force | a kill between any two accesses |
| Row locks, `LockManager.cpp` | lock table: (row, session, owns or waits), a hash index | `judgeAndAddLock`, `releaseLock`, deadlock detection | orphaned waiters, undetected cycles |
| Tables, `Table.cpp` | lock type of the transaction, the table's lock | `beginTrans`, `selectWithTrans`, `commit`, `rollback`, `truncate` | check-then-act, stale copies, undo |
| Sessions, `MdbSession.cpp`, `TransDataMgr.cpp` | transaction flag, cache of copied and changed records | `begin`, `select`, `update`, `deleteRec`, `insert`, `commit`, `rollBack` | use after an exception |
| Records and hash indexes, `BaseTable.cpp`, `IndexHash.cpp` | slots, index entries | insert, delete, update of record and all indexes, with undo | half-done index changes |
| B-tree indexes, `BTree/Node.cpp`, `BTree/IndexBTree.cpp` | nodes in shared memory; each process its pointer to the root | search, range select, insert with splits, delete with merges | keys or nodes lost in a restructuring, stale roots |
| Page memory, `memMgr/` | spaces, pages, free lists, descriptors | allocate and free slots, truncate | pages lost or given twice, exhausted memory |
| Index memory, `memMgr/IndexMemMgr.cpp` | idle and used segments of the index space | create, clear and drop the array of a hash index | overlapping arrays, broken lists |
| Control area, `memMgr/ControlMemMgr.cpp` | named descriptors | create and drop | - |
| Directory and files, `DataBase.cpp`, `DirFileCtl.cpp` | open database | open, create, dump | - |
| Server, `../mdbserver`, `client/` | a thread per connection | forwards requests | - |

A session's table operation runs under the table's readers/writer lock; the lock
table of the row locks is itself a table that is only touched under that lock,
with one exception (`beginTrans` reads whether it is empty). The lock's
counters are shared by all processes; when one is killed, `mutex_manager`
undoes what its slot says. A commit changes records and indexes under the same
write lock and gets slots and index nodes from the page memory, whose spaces
several tables share; the array of a hash index is a segment of the index space.

The hazards, line by line, with the properties that cover them or the reason
that none does, are in `PROJECT.json`.

## Modules

    RWLock            what a DoubleLock promises
      ^ implemented by
    MutexDoubleLock   the lock, its registration and mutex_manager
    MutexDoubleLockInv      its inductive invariant
    MutexDoubleLockProofs   lemmas: shape of the state, who owns a mutex
    MutexDoubleLockSafety   proofs: types, exclusion, exact counters
    MutexDoubleLockRefinement   proofs: it implements RWLock
    MutexDoubleLockWakeup       proofs: no wake-up is lost
    MCMutexDoubleLock       instances for TLC

    LockManager       the row locks of a table
      ^ extended by
    Table             sessions and transactions on one table
    TableInv                its inductive invariant
    TableProofs             proofs: row locks, deadlocks, who changes rows
    MCTable                 instances for TLC

    SlotPool          what the page memory promises
      ^ implemented by
    PageMem           slots, pages, spaces; MCPageMem for TLC
    PageMemInv              its inductive invariant
    PageMemProofs           proofs: the invariant, and what follows, SlotPool included

    IndexMem          segments of the index space; MCIndexMem for TLC
    IndexMemInv             its inductive invariant
    IndexMemProofs          proofs: the invariant holds, and what follows from it

    BaseTable         records, hash indexes and commit; MCBaseTable for TLC
    BaseTableInv            its inductive invariant
    BaseTableProofs         proofs: the invariant holds, and what follows from it

    BTree             B-tree indexes; MCBTree for TLC

### MutexDoubleLock

State: `mutex`, `waiters`, `rdCount`, `wtCount`, `wtWait` are a `MutexNode`;
`rcount`, `wcount`, `wwait`, `slot` a `ProcessMSrcInfo`, `node0` the mutex of
node 0, which guards the slots; `pc`, `cur`, `mode` a
client thread, `alive` and `kills` its process; `victims`, `victim` and `forced`
the manager. Each operation of the lock is split into one action per access to
shared memory, named after the function: `getWriteLock_incWait` is line 100 of
`MutexDoubleLock.cpp`, `getWriteLock_regWait` line 101. This is needed because
a process may be killed between any two of them, which leaves the counters and
its slot as they were. `mutex_manager` works on a node while it has that node's
mutex, so a round of its loop is one action. It holds the mutex of node 0 from
before it looks for the slot until it returns, and a process that starts takes the
same mutex for its slot (`setThreadSrcPos_lock`, `_take`, `threadSrcPos_unlock`) or,
if it has one, to find it (`getThreadSrcPos_lock`).

The forced unlocks are `rollbackSrc_force0` (lines 125-141 of `MutexSrcMgr.cpp`,
node 0) and `rollbackSrc_force` (lines 170-186 and their two copies, a source). The
code does not ask whether the owner is dead: it compares the bytes of the mutex over
three failed attempts, a second apart, and unlocks if they are the same. A dead
owner always passes this test. A running one passes it if it is stopped in the
mutex, or if the manager finds it there at each sample, although it has left and
taken the mutex in between; without clocks that can be said of any thread. So
`Caught`, a constant, is the set of running threads that may be found so, and
`Unchanging(owner)` holds of a dead owner and of a caught one. `Timely` (`Caught = {}`)
is an assumption about the machine, which the passing lock runs and all lock theorems
make; `MutexDoubleLock_v_force.cfg` drops it and shows a second running thread
in the mutex (`MutexProtects`). What the two then do to the counters is followed no
further: the unlock by the first of them is that of a mutex it does not own.

The mutex, the condition variable and the kill are external, modelled from how
they are used: a wait gives the mutex up and sleeps in one step, may wake
spuriously, and competes for the mutex again. `pthread_cond_init` on a
condition variable with sleepers is undefined; in the model its sleepers are
not woken (`orphans`), and whether a later broadcast reaches them is left open.

Assumed: a caller does not ask for a lock it holds and releases only what it
holds; each thread has a process to itself, a slot is free for each, and it opens
the database again only while it holds no lock; the manager is not killed. A counter's width does not matter: it is bounded by the number of
threads.

### LockManager and Table

`lockType[s][r]` is the record of session `s` for row `r` in the lock table,
`chain[r]` the order in which the hash index returns the records of `r`.
`judgeAndAddLock` has the five results of the code, 4 (deadlock) with the
release of all locks of the session. `detectDeadLock` says what the code's walk,
from a row to its owner to the row that one waits for and so on, finds: it meets
a session if every set of sessions that the walk cannot leave has it. The code's walk
has no visited set, so it comes to an end only where there is no cycle yet, which
`NoWaitCycle` says.

`Table` has the table's write lock as `writer`, the rows as `rec`, each session's
control point, select under way (`query`, `found`, `todo`, `cur`, `ii`) and
cache (`pool`, `added`). A record is its slot of memory and a version number: an
update writes the copied version plus one, so a lost update is visible, and a
row that has been deleted and inserted again may be in another slot. A commit
writes and frees by slot, not by key: an update of a stale copy is written over
whatever row has the slot now, which is then not found any more (`Applied`), and a
delete of one frees the slot again. A slot that is freed twice, or written while
it is idle, breaks the list of idle slots; `damaged` records this, and from then on a
commit that writes may leave any rows (`LandsAnywhere`, `Anything`). A select in a row-locking
transaction is several actions: copy the rows under the write lock, lock them one by
one, give the write lock up and poll while one is owned by somebody else
(`selectWithTrans_again`), give up after `MaxTries` polls. `commit` applies
deletes, inserts and updates in one step, as it does under the write lock;
`commit_throw` is a failing insert with the undo of the deletes.

Assumed: each session has its own `Table` object, as each process has (the lock
type is a member of that object); rows have a primary key, which is the resource
that is locked; updates do not change the key; after an exception the caller
rolls back; a transaction does not select the same key again after the row was
replaced under a stale copy of it; internal errors other than a failing
insert (a missing index, say) do not occur. `selectRangeWithTrans` has the same
steps as `selectWithTrans` and is the same action. Reads outside a transaction
are left out, since they change nothing.

### PageMem and SlotPool

`space` is the list of idle pages of each space (`PageListInfo`), `page` the
header of a page with its idle slots, `desc` the page list and the queue of
pages with room of a table or an index (`DescPageInfo`). A request of
`allocateMem` goes page by page: `allocateMem_old` takes from the pages with
room, `allocatePage` takes a page from a space under that space's lock,
`allocateMem_new` links the new pages to the descriptor, one in a step, and
returns; without memory `allocateMem_throw` and `allocateMem_undo` give all back,
slot by slot and then page by page. The lock of a space
is held for one page, so requests for different tables interleave between
pages; a descriptor is only used under its table's write lock, so there is one
request on it at a time. `truncate` walks the page list and gives back page
after page. `used` is what callers have got and not freed, and is all that
`SlotPool` knows.

Assumed: callers free only what they have; a page has room for at least one
slot (`DescsAssumption`; table creation does not test it); the option
`_USEDSLOT_LIST_`, which is not built, is off; no space is added meanwhile.

### IndexMem

`createHashIndex` and `dropHashIdex` hold the space's lock and are one action each;
`initHashSeg` takes no lock, but writes only the array of its own index, which its
caller's table lock protects, and is one action too. Memory counts in
cells of the size of a segment header, and `seg` keeps at every offset what a
header there would read: a segment that is merged away leaves its header behind,
`initHash` clears what lies under a new array. `dropHashIdex` follows the
code's steps 3 to 5: unlink, then into an empty idle list (`OnlyIdle`), behind
the last idle segment (`BehindLast`), or between two (`Between`), with the
merges. A loop over a list is described by the segments that it visits: `Walk` is the
least set with the first segment and the next one of each member that is not
what the loop looks for, `Search` what it finds. A drop in front of all idle segments makes the code follow the link
-1 out of the segment; its effect is undefined and the model does not take the
step.

The code keeps its lists right for some orders of drops only. `Sound` says
which, `Spec` takes those, and `AnySpec` takes all that are defined: there
`index_v_overlap` shows what happens.

### BaseTable

A commit holds the table's write lock from end to end, so it is one action, and
what is modelled is the inside: `deleteRec`, `insert` and `update` work record
by record and index by index, each with the undo of what it had done when it
throws, and `Committed` with the undo of the whole. An index is a list of lists
of slots at each place of the hash table and holds no keys: the code compares a
key with the record an entry points to, as that record is at that moment, and the
order of these reads and writes is what matters. Slots come from `SlotPool`, which
gives free ones: the model leaves open which (`CHOOSE`), and the proofs use
nothing else of them. A loop over indexes or records is a recursive function of the
step (`ChangeAll`, `CallAll`): the state, how many were done, and whether one has
thrown. `acked` is an auxiliary variable: what the commits that returned amount to.

`Sound` states the three limits within which the code is right, each a hazard in
`PROJECT.json` with its line: a refused batch of inserts frees its slots before
it removes their entries, which only works if the link of a free slot does not
lie over an indexed column (`Overlaid`); an update refused after another index
was changed cannot find the entries it moved, and the undo of a commit inserts
the deleted records before it deletes the inserted ones; index entries of all
updates are moved before any record is written. `AnySpec` drops the limits, and
`BaseTable_v_unique.cfg` shows the last one broken: one commit moves two records
to the same unique key.

Assumed: a transaction changes a record once; the copies a commit works from are
current (where they are not is `table_v_lostupdate`); indexes exist before the
first record.

### BTree

`node` is the memory of the nodes: what a `Node` holds, with the elements as a
sequence of keys and pointers; `header` is the root in the index descriptor,
`root[p]` the pointer that process `p` took from it when it opened the index.
Operations hold the table's write lock and are one action. `search` returns the
leaf and the path (`elemPosiInNodes`) that insert and delete use on their way up
again. `splitNode` is followed in its steps, since an exception in the middle
leaves what was done before; `deleteElem` with its three cases: the node is
empty (`Emptied`), fills up with one element of the next node (`Borrowed`), or
takes all of them (`Joined`), where the next node may have another parent
(`getNextBrotherNode`). Keys are numbers. `entries` is an auxiliary variable:
the keys that the calls that returned have left.

The code keeps the tree right within limits, which `Next` names and `AnyNext`
drops: a process works with the current root; a tree of three levels gets no new
minimum (line 88 of `Node.cpp` registers it one level up only); one key stays in
the index (line 348 finds a deleted key in an empty leaf); no inner node has a
single child when a key is deleted (line 159: `btree_v_uncle`); memory does not
end after a node was halved (line 459). With trees of two levels and memory left
only the first and the third of these matter.

Assumed: the index is unique. The lists of equal keys are left out: line 58
overwrites the first record of the list and line 124 returns before the element
is unlinked. So is `upper_bound`, which does not come to the same place for a
key that is the first of its node, and `truncate`, which frees all nodes and makes no
new root.

## Runs

| Run | Shows | Bounds |
|---|---|---|
| `lock_clean` | `Exclusion`, `CountersExact`, `NoLostWakeup` for all operations, with a kill at a clean point; the lock implements `RWLock` (`ImplementsRWLock`): no reader passes a waiting writer; readers do not starve a writer (`WaitingWriterServed`: without a kill only other writers can keep it waiting, and those that take the lock without waiting can do so for ever) | 3 threads, 1 source, 1 kill |
| `lock_anykill` | a kill anywhere, also while a slot is looked for: no counter of locks stays below zero (`NegativeIsReset`), although the rollback takes counts of running readers away, and the slot is always freed (`DeadSlotIsFreed`), through the forced unlock of node 0 or of the source | 2 threads, 1 kill, `Caught = {}` |
| `lock_v_reader` | violation: a reader killed asleep lets a writer in beside another reader | 3 threads, 1 kill |
| `table_rows` | hand-over, no wait cycles, changes only by the owner | 3 sessions, 2 rows in 2 slots, 1 update per row |
| `table_mixed` | a table lock keeps all other changes out, across failing commits (`TableLockHolds`); a wait for a row ends, unless a session stays in the table lock for ever, or others take the write lock again and again and one step of the waiting session is kept out for ever (`WaitEnds`) | 3 sessions, 1 row, select, insert, delete, truncate, both lock types |
| `table_v_lostupdate` | violation: an update is overwritten from a copy made before the wait | 2 sessions, 1 row, 2 updates |
| `page_mem` | no page and no slot is lost or given twice, the queue of pages with room is exact, the memory implements `SlotPool`, and every call returns | 2 descriptors, 2 spaces, 3 pages of 2 or 1 slots, requests of up to 3 |
| `index_mem` | within `Sound`: arrays never overlap, idle and used segments cover the space, neighbours are merged, lists agree in both directions | 4 indexes of 2 or 3 cells in 10 |
| `index_v_overlap` | violation: drops in any order lay one index over another | the same |
| `base_table` | within `Sound`: every index finds exactly the records, unique keys stay unique, a commit has all of its effect or none | 4 slots, 2 indexes, 4 keys at 2 places, 5 rows, 2 changes in a commit |
| `btree` | within the limits above: search and range give exactly the keys (`SearchExact`, `RangeExact`), every node hangs under its parent and none is lost (`ParentsExact`), only the last of a level is less than half full (`HalfFull`) | 2 processes, nodes of 4; from the empty index and from 13 and 15 keys in three levels, the latter without memory left; 5 keys inserted and deleted |
| `btree_v_uncle` | violation: a merge that empties an inner node unlinks another one, with all its keys | 1 process, from 11 keys |

Why the bounds are enough for the cases to happen: three threads give a holder, a
waiting writer and a reader behind it, and a kill of any of them; one source,
because operations on different sources share only the slot (its limit
`MaxPSrcNum` is not reached in these runs). Three sessions and two rows give
deadlocks of two, a third session that waits for a row of a deadlocked pair, and
two sessions waiting for one row. Three pages in two
spaces, of which one is shared, give requests that take old slots and new pages of
both spaces, that run out of memory half way, and that hold the last pages
against each other. The four indexes fill the index space exactly in some orders
(one needs three cells, the others two), so that segments are taken whole, split,
and merged on either side. In `base_table` two keys share a place, rows share a
key, the unique index refuses by key and the other for want of a node (three
nodes for four slots), so that a commit fails at either index, at its first or
second change. Nodes of four elements are the smallest that borrow and merge; the
13 keys lie so that the keys that change split an inner node, merge leaves of one
and of two parents, and make an inner node borrow. Deadlock is checked in every run.

More configurations are kept beside the runs, each with a counterexample
that a hazard in `PROJECT.json` refers to:
`MutexDoubleLock_v_condinit.cfg` (after a forced unlock sleepers are not woken),
`MutexDoubleLock_v_writer.cfg` (a writer killed between counting and registering
is never rolled back), `MutexDoubleLock_v_force.cfg` (the forced unlock of a running
thread's mutex lets another in beside it) and `MutexDoubleLock_v_node0.cfg` (a process
killed before it has a slot leaves node 0 locked: `Node0IsFreed`), all of
`MCMutexDoubleLock`; `Table_v_tablelock.cfg` (row locks in a locked table) and
`Table_v_stale.cfg` (the update of a stale copy is written over another row:
`NoStrayUpdate`) of `MCTable`; `BaseTable_v_unique.cfg` of `MCBaseTable` (see above), and
of `MCBTree` `BTree_v_root.cfg` (a process misses keys after another has split
the root), `BTree_v_empty.cfg` (a deleted key is found in an empty leaf) and
`BTree_v_lastleaf.cfg` (the leaf left of a last leaf that was emptied stays linked
to it, where `Node.h` says that the last leaf's link is -1; a range without an
upper end stops before it would follow that link).

"Clean" kill points (`CleanPCs`) are the caller's own code and the blocking
calls of `getWriteLock`, `releaseReadLock` and `releaseWriteLock`; that is where a
process spends its time. At other points the code does not promise, and the
violation runs show that it does not give, exact counters: those findings quote
the comments that claim otherwise.

Fairness. Lock: a running thread takes its next step (weak fairness on
`Proceed`), callers release what they hold (on `Release`; every caller in `Table.cpp` does, exceptions
included), and a mutex is not withheld for ever from a thread that it is offered to
again and again (strong fairness on `Acquire`; the scheduler's and
pthread's part); the manager loops for ever. Nobody is obliged to ask for a
lock. Table: weak fairness on the steps of a call under way, no more, since the lock
lets other writers keep one waiting for ever (`WaitingWriterServed` excuses it too);
`WaitEnds` names that case as `KeptOut(s)`: the poll of `s` is possible again and again and
never taken. None on the caller, who may keep a row for ever. Page
memory: weak fairness on the steps of a call under way, since the lock of a space
is held for one page only; callers need not ask.

Every property of a passing run has a seeded fault that breaks it: the operators
`Fault_...` stand next to what they imitate, and nothing uses them.

## Proofs

For any number of threads, sources and kills; of sessions, rows and versions; of
spaces, pages, slots and descriptors; of hash indexes, their sizes and cells of the
index space; of records, indexes of a table, keys, hash functions and changes in a
commit.

### The lock

* `TypeCorrect`, `WritersExclude`, `CountersAreExact`: with kills at clean points
  (`CleanKills`), no running thread taken for a dead one (`Timely`) and a slot with
  room for every source (`RoomForAll`), types,
  exclusion and exact counters. Exclusion is not inductive: a writer tests the
  counters, not the other threads, so the counters must be exact, which needs
  what every slot says at every control point (`BooksOfLiving`), also for the
  dead not yet rolled back (`BooksOfDead`), which needs in turn that no source's mutex is
  ever forced (`Unforced`) and what the caller holds at each point
  (`ModeOfPC`). `IInv` is their conjunction and `IInvHolds` its theorem.
  Counting is done once: `Moves` says that at most one thread changes what
  it counts for, `MovesCount` turns this into cardinalities, `MovesExclude`
  into exclusion, and `MovesStep` shows it for every action.
* `LockRefines`, under the same assumptions: the lock implements `RWLock`.
  Every action is one of the `Moves` above, and every move is a step of `RWLock`
  or none (`MoveRefines`). `OneKind` is needed besides `IInv`: the mapping does not
  count a writer that is in and still counted as waiting as pending, and a killed
  one is never both.
* `NoWakeupIsLost`, under the same assumptions. `NoLostWakeup` is not inductive:
  that somebody will broadcast says nothing of which of several sleepers it is for.
  `Justified` says for each sleeper what it waits for: a reader for a
  writer that is in, waits, or has just left and has yet to broadcast; a writer for
  anybody who is in or has just left.

Assumptions on the constants: threads and sources are finite sets, `NoThread` is
not a thread, the kill points are control points.

### Tables

`IInv` of `TableInv` says of each session which lock type and which locks go with
its control point (`ModeOfPC`, `WriterOfPC`, `LocksOfPC`), that it waits for one row
and only in the loop of `selectWithTrans` (`WaitsOnce`), and that it owns what it has
selected so far and what it has cached (`SelectedOwned`, `CachedOwned`); and of the
lock table that every waiter is in the chain that `releaseLock` searches
(`WaitersListed`) and that no row with waiters is without an owner.

* `RowsAreHandedOver`: a row has one owner at most, and none only if nobody waits
  for it. This fails without `WaitersListed`: the hand-over picks from the chain.
* `ChangesStayLocked`: what a row-locking transaction is going to change it owns,
  although the write lock is given up while it waits.
* `DeadlockIsDetected`: no set of sessions waits within itself, so there is no ring
  of any length. A request that waits would have to close the ring; then the
  sessions the walk of `detectDeadLock` can reach are a set it cannot leave, and
  it would have met the session that asks. A hand-over makes one session own what it
  waited for and everybody else wait for that session, which waits for nothing.
* `TableLockKept`: while a transaction has locked the table, nobody else changes
  a row.
* `RowsStay` and `OwnedRowsKept`: if transactions lock rows only (`RowLocksOnly`) and
  delete none (`NoDeletes`), a row changes, while a session owns it, only by that
  session, in the step in which it gives its locks back. Commits write by slot, so this
  needs that no copy is stale in its place (`StayInv`): rows are in different slots
  (`OneRowPerSlot`), and what is copied, before its lock is obtained, stays where
  it was (`CopiesInPlace`); inserts take free slots, and `truncate`, which removes every
  row, needs the write lock and is refused while there are row locks, one of which
  everybody with a copy has unless it has the write lock. With deletes it is false (`Table_v_stale.cfg`). With both lock types a table lock may be taken beside row
  locks (`Table_v_tablelock.cfg`), and its holder changes rows that others own.

### Page memory

A link says nothing of the pages that it does not lead to, and the properties are
about pages that no list leads to. So `IInv` of `PageMemInv` gives every page a place:
idle in a space, in the list of a descriptor, or new with a request; every list is
made of exactly the pages of one place, in some order without repetition; what
is left of a list under `truncate` is such a list too, although freed pages
already use the same link for the idle list. Slots are given once, to the caller or to
the request, and the others are the idle ones of a live page. `QueueInv` says also that
a page which is not in the not-full queue has no link of that queue: `freeMem` puts it
at the end without clearing that link, so the queue would otherwise not end there.

`PageMemProofs` has lemmas on sequences and lists (`ListAppend`, `ListTail`,
`ListChain`: the pages that links lead to are the pages of the list), what a step
leaves alone (`DescKept`, `SpaceKept`), one lemma for each action or branch of an
action, and `Invariance`. From it follow `TypeCorrect`,
`PagesAreAccounted`, `SlotsAreAccounted`, `QueueIsExact`, and `PoolRefined`: callers see
`SlotPool`. For the last one a served request gives as many different slots as were
asked for (`Served`), and two descriptors have no page in common (`PagesApart`).

Assumptions on the constants: `PagesAssumption` (the pages of the spaces are
different ones, `NullPos` is none) and `DescsAssumption` (a page has room for a slot).

### Index memory

The properties speak of the segments that the links lead to, and the headers of
merged segments stay in the memory with old links. So `Inv` of `IndexMemInv` names
the idle and the used segments as sets, and says of each list that its links go
through exactly that set in the order of a rank (`List`): the address for the idle
list, where the search for the place of a dropped segment depends on it; any rank
for the used list, which is ordered by age. The two sets are disjoint and tile
the space (`Tiled`), no two idle segments touch (`Apart`), and each used one is that of
one index and holds its array (`Owned`), so that `initHash` clears no header of
another segment. `IInv` says that such sets and such a rank exist.

`IndexMemProofs` shows first what a rank gives: the list is the least closed set
(`WalkIsList`), since of the members that a smaller one would leave out, the one
with the least rank would have a predecessor in it; and a search finds the first
in the order or nothing (`FoundIsFirst`, `NothingFound`). Then what inserting,
appending and removing do to a `List` (`ListInsert`, `ListAppend`, `ListRemove`),
what cutting and merging do to the tiling (`TiledSplit`, `TiledMerge`), one lemma
for every branch of `createHashIndex` and of steps 4 and 5 of `dropHashIdex`
(`OnlyIdleKeeps`, `BehindLastAppends`, `BehindLastMerges`, `BetweenLinks`,
`BetweenMergesNext`, `BetweenMergesBoth`), and `Invariance`. From it follow
`TypeCorrect`, `IndexesAreDisjoint`, `SpaceIsCovered` and `IdleIsCoalesced`. They hold of `Spec`, the sound orders of drops: each
conjunct of `Sound` rules out a branch in which the code leaves a link wrong, and
the proof of that branch uses it. Of `AnySpec` they are false (`index_v_overlap`).

Assumption on the constants: `SpaceAssumption` (finitely many indexes, arrays and
space not empty). An index need not fit in the space.

### Records and hash indexes

An entry is compared by the key that its record has at that moment, so an index is right
or wrong only together with the records, and inside a commit the two do not agree:
updates move entries before they write records, a refused batch of inserts frees its
slots before it removes their entries. So what an index holds is stated apart from the
records, as `K`: by slot, the key under which it was entered, or `Link`. `Holds(d, K)`
says that each place of each index has one list for each key that `K` enters there, made
of exactly those slots (`PlaceRight`), that the nodes in use are those of the entries,
and that unique indexes have each key once. `IInv` says that between commits `K` is what
the records say (`KeysOf`), that `m_recordNum` counts them, and that they are those of
`acked`. TLC has checked `IInv` on the instance of `base_table`.

`BaseTableProofs` goes up the calls of the code:

* one place: a new list, one slot more or less, a list that ends (`NewList`,
  `ListChanged`, `ListDropped`); then `InsertIdx` and `DeleteIdx`: with `K` and the
  condition that the records entered under the key, and only they, read as that key
  (`ReadsAs`), the operations do to the index what `K` with one slot changed says.
  This condition is the point of the proof: every caller has to show it, and each
  conjunct of `Sound` is there because one caller could not;
* loops: `ChangeLoop` and `CallLoop`, by `AlongLoop`, give the states a loop goes through,
  or the one at which it stops;
* one record: `DeleteAll`, `InsertAll` (refused at any index, it takes the others back),
  `UpdateAll`, and `UpdateRefused`, for a refusal by the first index that changes;
* a batch: `DeleteBatch`, `InsertBatch`, `UpdateBatch`, where the first `n` records are
  entered in one way and the others in another (`Over`); and with the records, `Deleted`,
  `InsertPassed`, `InsertTakenBack`, `UpdateMoves`, `UpdateKeeps`;
* the commit: `InsertsAgain` (what was deleted fits in again, so the undo does not throw),
  `TakenBack`, and `CommitRight`.

From `Invariance` follow `TypeCorrect`, `RecordsAreFound`, `EntriesAreExact`,
`KeysStayUnique` and `CommitsAreAtomic`. They are about `Spec`, the commits that `Sound`
names; of `AnySpec` they are false (`BaseTable_v_unique.cfg`). So of refused commits they say
only this: a commit may be refused at any insert (of one record, or with no link over an
indexed column), after any deletes, or at its only update, by the first index that it
changes and with deletes or inserts but not both. Of updates refused later the code
leaves entries (line 743 of `BaseTable.cpp`) or fails in its undo (`Table.cpp`, 327-334). `base_table` runs with no
column under the link of a free slot (`Overlaid = {}`), the theorems hold of any.

Assumption on the constants: `TableAssumption` (what kind of thing each is, and that
`Link` is no key). Indexes may have fewer nodes than the table has slots.

### Only model-checked

* Liveness, which the prover does not take: `DeadSlotIsFreed`,
  `WaitingWriterServed`, `WaitEnds`, `CallEnds`.
* `BTree`: a tree is descended and rebuilt by recursion over its nodes, written with
  recursive operators, and the prover takes none.

The loops of `BaseTable` are proved in spite of being recursive. The library's
induction takes an operator, which the provers cannot instantiate; `AlongLoop` takes the
set of the steps at which a fact holds instead, and rests on a least counterexample. That
a recursive function satisfies its own equation is shown in the same way
(`ChangeSteps`, `CallSteps`).

## Not modelled

* Shared-memory creation and attachment, signals, logging, command lines and
  files: pure I/O.
* `RwDoubleLock`, `IpcDoubleLock`, `SysSemaphore`: unused alternatives.
* Of the B-tree, lists of equal keys, ranges with an upper end, `truncate` and
  `drop`; `createIndex` and `reIndex` on a table that has records;
  the control area with its named descriptors; spaces added to a running
  database.
* A session killed inside a commit or a memory request, which leaves records,
  indexes and pages half changed: the code has no log to recover from, so there
  is nothing it promises.
* Expressions, record conversion, ODBC: functions of one record, no shared state.
* pid reuse, which needs the operating system's tables; how long three samples take, so
  which running threads the manager may mistake is a constant; and what follows once it
  has unlocked one.
* The other `boss` programs, which are clients of the database, and the rest of
  the repository.

## Plan

Done: the lock with its manager, row locks and transactions, the page memory, the
index memory, records with hash indexes and commit, checked and proved; B-tree
indexes, checked.

1. `Table` over `BaseTable`, with the idle slots of `PageMem` in the place of
   `damaged`; two tables (cycles that no single lock table shows).
2. The full slot (`MAX_PSRC_NUM`), the manager killed in its rollback, the
   creation of the shared memory by two processes at once.
3. Equal keys in the B-tree; the server's threads.

Proofs: that `BaseTable`'s slots are those of `SlotPool`; the B-tree, with its levels
as a recursive function of the height and `AlongLoop` over it.
