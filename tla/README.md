# A verification project for tl2-cpp

tl2-cpp is a header-only software transactional memory for C++ in the style of
Transactional Locking II. Threads wrap code in `atomically(...)` and access shared
`TVar<T>` objects inside it. Reads and writes are logged; a commit locks the logged
locations, validates what was read, and writes back.

This directory holds TLA+ models of the library, TLC configurations that check them on
small instances, and TLAPS proofs of the results that matter most for every instance.

## 1. Inventory of the system

| Part | State | Operations | What makes it correct |
|---|---|---|---|
| `tl2/version_lock.h` `VersionLock`, `global_clock` | one 64-bit word: version and lock bit | `lock`, `unlock`, `get_version`, `set_version`, `unsafe_*`, `incr_version` | one owner, no operation is torn or lost |
| `tl2/hash_table.h` `LockTable` | 2^22 version locks | `operator[]`: address to stripe | every address has a lock, neighbours share one, far addresses wrap around |
| `tl2/t_var.h` `TVar<T>` | `m_data` | conversion to `T` (read), `operator=` (write) | a read that may be stale or torn is caught later |
| `tl2/op.h`, `tl2/log.h`, `tl2/memory.h` | vector of locations, map from address to index, staged objects | `register_read`, `register_write`, `find_write`, `stable_sort`, `clear` | one location per address, reads served from the write set, objects destroyed once |
| `tl2/lock_guard.h` `LockGuard` | locations whose lock it took | constructor (sort and lock all), destructor | locks taken in one order, each once, all released |
| `tl2/stm.h` `try_commit`, `commit` | | lock, increment the clock, validate, write back | strict serializability |
| `tl2/state.h` `TMan`, `tl2/stm.h` `atomically` | state, read version, log; saved arguments | start, end, retry, nested call, exception | only a successful attempt is visible; the manager is RUNNING exactly inside a call |
| `zoo/` | linked list, ordered list, hash map of `TVar`s | each operation is a transaction | behave like the sequential container |
| `.graphs/`, `graphs/` | queues, stacks and lists for benchmarks, some lock-based or lock-free | `add`, `remove`, `contains`; enqueue, dequeue; push, pop | well formed at every step, linearizable, calls return |
| `examples/bank` | a `zoo::HashMap` of accounts | add, withdraw, transfer (the first two nested) | a transaction is seen whole or not at all |
| `tl2/ankerl/unordered_dense.h` | dense vector of values, Robin Hood table of buckets that point into it | insert, assign, erase, replace, rehash, copy, move | every value has exactly one bucket, where a search finds it |
| `tl2/ska_sort.h` | the range that is sorted; partitions, recursive calls | `ska_sort`, `ska_sort_copy` | a permutation in order, in the buffer the result names |

The parts interact through shared memory only. `atomically()` drives the thread-local
manager; the body reaches the manager through `TVar`; `try_commit()` walks the log, whose
locations lead to lock words of the table and to the `TVar`s themselves. Threads meet in
the clock, the lock words and the `TVar`s. The log finds a location with the hash map and
is sorted with the radix sort before a commit takes its locks; both are vendored, and both
are used by one thread at a time. The containers call nothing but `atomically()` and `TVar`,
except the three lists that the benchmarks compare with, which use mutexes or atomics.

What is hard here: the interleaving of an unvalidated read with a write-back in progress;
the fast path that skips validation; the order in which locks are taken, when the order of
addresses is not the order of stripes; exceptions between an acquisition and its release,
or out of a body; stripes shared by several locations of one log; the retry loop, which
has no bound and no back-off; compare-and-swap loops mixed with plain stores on the same word;
results that a body captures and a retry does not reset; locks taken hand over hand; nodes
marked in one step and unlinked in another; a table whose values move when one is erased, and
whose searches end early because of what the order of the buckets promises.
`PROJECT.json` lists each of these hazards at its line.

## 2. Modules

| Module | Models | Notes |
|---|---|---|
| `AtomicSTM` | what `atomically()` promises | abstract: one memory, a commit is one step |
| `TL2` | `stm.h`, `t_var.h`, `lock_guard.h`, `hash_table.h`, and their use of the lock words | one action per access to shared memory |
| `TL2Props` | | the properties of the core and the refinement mapping to `AtomicSTM` |
| `TL2Inv` | | the inductive invariant |
| `TL2_proofs` | | the proofs |
| `MCTL2` | | instance for TLC |
| `AtomicVersionLock` | what the core takes a lock word to be | abstract |
| `VersionLock` | `version_lock.h`, load by load | `is_clock` says whether the word is the clock or a table entry |
| `MCVersionLock`, `VersionLock_proofs` | | instance and proofs |
| `LocationSet` | `op.h`, `log.h`, `memory.h` | the log of one thread; `rd` and `wr` record what was asked of it |
| `LocationSet_proofs` | | proofs |
| `Manager` | `state.h`, `atomically()` and `restore_args()` of `stm.h` | one thread; nesting, exceptions, retries |
| `Manager_proofs` | | proofs |
| `AtomicList` | what a `zoo::LinkedList` promises | abstract: a sequence of items, an operation is one step |
| `LinkedList` | `zoo/linked_list.h`, and a bucket of `zoo/hash_map.h` | one action per `TVar` a body reads, with `new` and `delete` of nodes |
| `Override` | | `:>` and `@@` with definitions that proofs can expand |
| `MCLinkedList`, `LinkedList_proofs` | | instance with symmetry, and proofs |
| `SharedObject` | calls, mutexes, heap and transactions, as all the containers below use them | base module of the next seven |
| `OrderedList` | `zoo/ordered_ll.h`, `.graphs/coarse_linked_list/` | sorted list of `TVar` links |
| `RingQueue` | `.graphs/bounded_queue/`, the queue of `.graphs/queue/batch_bench.cc` | ring buffers of `TVar`s |
| `LinkedQueue`, `LinkedStack` | `.graphs/queue/queue.h`, `.graphs/coarse_stack/` | |
| `Bank` | `examples/bank/transaction.cc`, `account.h` | nested transactions |
| `CoarseList`, `FineList`, `LockFreeList` | `.graphs/linked_list/`, and the same files in `graphs/ordered_ll/` | one mutex; a mutex per node; marked links and compare-and-swap |
| `AtomicObject` | what a shared container promises | abstract: a set, a queue, a stack or accounts; a call takes effect in one step |
| `Containers` | | composes the seven, with the refinement mapping to `AtomicObject` and the properties |
| `Containers_proofs` | | proofs |
| `AtomicMap` | what the hash table promises | abstract: a map from keys to values |
| `DenseMap`, `MCDenseMap` | `detail::table` of `tl2/ankerl/unordered_dense.h` | an operator per member function, an action per operation |
| `DenseMap_proofs` | | proofs |
| `SkaSort`, `MCSkaSort` | `tl2/ska_sort.h` | an action per iteration, recursive calls as frames |
| `SkaSort_proofs` | | proofs |

How they fit. `TL2` is written in terms of atomic lock words: its `Lock`, `Unlock`,
`Readable`, `Stamp` and `IncrVersion` are `Acquire`, `Release`, `Get`, `Set` and `Increment`
of `AtomicVersionLock`, which `VersionLock` is proved to implement. `TL2` takes a log to be
a set of addresses read and a staged value per address; `LocationSet` is proved to keep
exactly that (`LogComplete`, `ReadOwnWrites`). `TL2` runs flat transactions; `Manager`
shows that nesting, exceptions and retries reduce to its `Begin`, `Retry`, `Return` and `Throw`.
`LinkedList` stands on what is proved of `TL2`: a body reads whatever is committed when it
reads, with no promise that two reads fit together, and it commits in one step if nobody
has committed to anything it has read (`StaleReadsDetectable`, `CommittedReadsCurrent`,
`Refinement`).

### TL2

| Variable | Code |
|---|---|
| `clock`, `version[s]`, `locked[s]` | `global_clock`; the two parts of a lock word |
| `mem[a]` | `m_data` of the `TVar` at `a` |
| `rv[t]`, `wv[t]` | `context.rv`, `write_version` |
| `reads[t]`, `wset[t]`, `owner[t]` | `m_read`, `m_written` with the staged value, `m_owner` of the locations |
| `held[t]`, `todo[t]` | `LockGuard::m_locked`; what the current loop over the log has left |
| `seen[t][a]` | history: the values the body got from shared memory |

A read is `RegisterRead` (append to the log), `SampleVersion` (spin until the stripe is
unlocked) and then, for a trivial type, `LoadTrivial`: a plain load, which races with a
write-back and may return a torn value, any value at all in the model; for other types
`LockForCopy` and `CopyAndUnlock`, or `CopyThrows` when the exception of the copy leaves the
body and `CopyCaught` when the body catches it and goes on, the stripe still locked in both. A commit is `TryCommit`, `LockNext` for
each location in address order (or `GuardThrows`), `IncrVersion`, `ValidateNext`, then
`SetVersion` and `Move` for each written location, `CommitDone`, and `UnlockLast` for each
lock. Note that the code compares no version while it reads; only validation does. `Spin`
is an explicit stutter for a thread that waits.

### VersionLock

`lock()` and `set_version()` are a load and a weak compare-and-swap that may fail
spuriously; `unsafe_set_version()` is a load and a store. The memory is sequentially
consistent: the orders in the code are acquire and release on a single word, on which all
operations agree about their order anyway.

### LocationSet

`m_vec` and `m_map` as in the code. `Sort` permutes the vector and leaves the map stale, as
the code does. After it nothing asks the map until `Clear`, and the guard of `Call` says so: `try_commit()` and
`LockGuard`, all that runs between the two, walk the vector (`stm.h:21-66`, `lock_guard.h`), so the guard is
a reading of the callers and not something the run could refute. `InsertFails` is a
`std::bad_alloc` after the map got its entry and before the vector got its location, caught
by the body; `OutOfBounds` is the undefined access that may follow. `MapFails` is one thrown by the map itself as it
grows, which leaves it without buckets (`AllocFails` of `DenseMap`); `Clear` does not give it new ones, and the next
request of this or any later attempt is `NoBuckets`, undefined too. `failed` tells the cases apart.

### Manager

The stack of calls (`frames`) makes nesting explicit: an `"outer"` call runs the retry loop, an
`"inner"` one found a transaction running. The body may call, assign, change a captured
lvalue, throw and catch. `Commit` and `Retry` are the two answers of `try_commit()`; `CommitThrows` is a commit
after which copying the result out (`return ret.value();`) throws, so that the call ends with an exception and
its assignments are stored. `OnlySuccessVisible` therefore speaks of the answer of `try_commit()`, not of how the call ends.
An exception leaves the arguments as the failed attempt left them (`UnwindStd`), as the
code does; `main.tex` promises a rollback for a transaction that aborts, and does not say
whether an exception is one.

### LinkedList

`mem` maps the list's `TVar`s (`m_head`, `m_sz`, and `item` and `next` of every node) to their
committed values, `heap` is the set of allocated nodes, and `th[t]` a record with the local
variables of the body, its read set `rd`, its staged writes `wr` and `stale`, which a commit
of another thread sets when it writes something in `rd`. `add()` allocates its node before the
transaction (`Call`); `update()` of an absent item calls `add()` inside its own (`NestedAdd`,
`NestedPush`), so `Retry` forgets that node, the leak the comment in the code speaks of.
`remove()` reads `m_head` again when it removes the first node (`ReadOldHead`), and deletes its
node once the transaction has committed (`Return`). `UseDead` is a body that follows a null pointer
or a pointer to a deleted node; nothing is claimed of what comes after it, which is
undefined, and the run `list_reclaim` shows that it happens. `HashMap::get` and `contains` are `get()`
of the bucket's list, `set` is `update()`; `LinkedList::contains()` is `get()` without its last read.

### Containers

`kind` says which container the object is; `mem` maps its locations to values, `owner` its mutexes
to their holders, `used` is the set of allocated nodes, and `th[t]` holds the call of thread `t`, the
local variables, the read set and staged writes of its attempt, and the result variable `ret`.
Each action reads at most one shared location. Transactions are taken as `TL2` is proved to
provide them, exactly as in `LinkedList`; `Retry` may happen at any commit, since a stripe may
be shared with a location that somebody has written. Result variables are reset by a retry
where the code assigns them on every path or passes them to `atomically()`, and kept where it
does not (`try_deq()`, and both operations of the queue in `batch_bench.cc`). A node that an
attempt has allocated is lost with the attempt; no pointer to it is left, so the model lets the heap
hand it out again, which keeps `Node` small. The `size()` of the ring may read its two ends in either order. The `Bank` takes an account of its hash map as
one location, because `get()` and `set()` of one name read the same nodes of one bucket.

The links of the lists are plain memory under locks (`CoarseList`, `FineList`), where no race is possible
as long as the locks work, and words read and swapped in one step in `LockFreeList`. Keys of
items lie between the keys of the sentinels.

`could`, `changed` and `unsure` are history variables of the refinement: the answers a
call would have got had it run alone at some moment so far, whether it has changed the
object, and whether its answer is excepted from the promise. Two cases are excepted, and section
5 says why: `contains()` of the lock-free list during which a marked node was linked, and an
operation of a ring that starts again with the result of a failed attempt.

### DenseMap

The table is a record with the fields of the class, `m_hash` an arbitrary function from keys to hashes. A
member function is an operator that takes the table to the table after it; loops over buckets
are written as the least number of steps after which they stop, loops over values as recursive functions of the round. Widths are constants: 64, 8 and
32 bits in the code become 3, 1 and 2, so that tables fill up, grow, wrap around and reach
`max_size` within a few operations. `AllocFails` is the allocation in `increase_size()` that throws after
the old buckets are freed, `RehashFails`, `ReplaceFails` and `CopyFails` are those of `rehash()` and `reserve()`, `replace()` and copy
assignment; all leave a table without buckets. `AssignList` with more keys than fit clears the table, inserts until it is full, and throws. `Representable` keeps `reserve`, `rehash` and `replace` to sizes for which the code does not shift a
word by its full width. `extract()` of one element is `erase()`. The lookups are `do_find()`.

### SkaSort

`frames` are the calls that are left, with their range, sub key and byte offset. `american_flag_sort()` takes
one action per iteration of its loop, `ska_byte_sort()` one per element it moves and one per partition that
`custom_std_partition()` visits. `std::sort()` may leave equal elements in any order and `std::partition()`
each side: both actions choose any bijection of the range that has the promised result. `ska_sort_copy()`
takes one action per byte. Thresholds (128 and 1024 in the code) are small, so that each pass and `std::sort`
alternate in the recursion. A sub key has 1, 2, 4 or 8 bytes, the widths for which the code has a
`SizedRadixSorter`, and a `bool` is a sub key of its own. Floating-point keys are sign and magnitude, without
negative zero and NaN, which `<` does not order as their bits do. `char` and `wchar_t` are type `"char"`: two's complement in `<`, and
sorted by their bits as they are (section 5).

## 3. Runs

| Run | Instance | Shows |
|---|---|---|
| `isolation` | 2 threads, addresses 0, 2, 4 on 2 stripes, trivial and copied types, failing allocations, bodies of 2 operations | types, lock exclusion, the inductive invariant, detectable stale reads, no lost update, growing versions, exclusive write-back, refinement of `AtomicSTM` |
| `progress` | the same without failing allocations, weak fairness | no orphaned lock, no cycle of waiting threads, every call ends |
| `version_lock` | 3 threads, versions up to 2 | one owner per lock bit; refinement of `AtomicVersionLock` |
| `log` | 3 addresses, 2 values, 4 calls per log | one location per address, read-own-writes, objects destroyed once |
| `manager` | 2 arguments, nesting 2, 2 calls of 3 attempts | RUNNING exactly inside, only success visible, arguments restored, nothing staged outside a call |
| `list` | 2 threads, 3 nodes, 2 keys, 4 calls | list and `m_sz` agree, nodes have one owner, refinement of `AtomicList` |
| `containers` | 9 containers, 2 threads, 2 keys, 2 values, rings of 2, 3 calls | structures well formed, refinement of `AtomicObject`, calls on the lists without STM return |
| `dense_map` | 5 keys, 3 hashes, up to 4 buckets, 5 ranges, 2 operations, failing allocations | buckets exact, every key found, erasures exact, refinement of `AtomicMap` |
| `sort` | 4 shapes of keys, up to 4 elements, 2 pairs of thresholds | no element lost, partitions respected, sorted at return, the call returns |
| `lock_table_wrap` | addresses 0, 4, 8 on 2 stripes | violation: lock cycle |
| `list_reclaim` | as `list` | violation: a body follows a pointer to a deleted node |
| `stale_result` | the bounded queue of `containers` | violation: `try_deq()` returns an element that it has not dequeued |

Bounds. Two threads are enough for the conflicts of the core, which are all between a reader
or committer and one other committer; three threads meet in `version_lock`, where a third can
steal between a load and a swap. Three addresses give two locations on one stripe and one
on another, which is what sharing and ordering need. Bodies of two operations give read-read,
read-write and write-write transactions; one transaction per thread is enough to have a
commit before, inside and after another. Four calls per log reach read-then-write,
write-then-read and two further addresses. Four calls on a list build one of two nodes and let
two further operations overlap on them; with three nodes one can be deleted and allocated
again while a search still holds it. `MaxOps`, `MaxTxns`, `MaxVersion`, `MaxDepth`,
`MaxCalls`, `MaxTries` and, for lists, the set `Node` are the only bounds there; the proofs hold for
all their values.

The containers start from any list over the keys and any ring that an earlier use can have left,
with its ends one step before the wrap-around, so the three calls are all spent on the
conflict: two that overlap and a third before, between or after them. That is enough for a search
past a node that is marked, unlinked and put back by the other thread. Calls are bounded,
hence the program may stop, and `MCContainers.cfg` does not check for deadlock; `CallsReturn` does, for every call that was made. The hash table starts from ranges of up to four values, inserted into tables of every
initial size, so that two operations act on tables that are empty, at the point of growing, and
full. Hashes 0, 6 and 7 give keys with equal home and fingerprint, equal home only, and runs of buckets
that wrap around; hash functions that differ by a renaming of keys are taken once. Four elements of two
digits of radix 4 give a sort with up to four partitions, swaps across three of them, and a second level of recursion.

Fairness. `FairSpec` of `TL2` is weak fairness of each thread: the operating system
keeps running every thread, and no thread has to get a lock at any particular moment, since
`get_version()` and `lock()` succeed in the first iteration that finds the bit clear. The number
of calls is bounded, so that a thread cannot be aborted for ever by new calls of others.
Without that bound the code gives no such guarantee: the retry loop has no back-off. `Containers` has
weak fairness of each thread too, and assumes that `new Node` does not throw (section 5): a mutex that stays free is given to a thread that waits for it, and with
bounded calls nobody overtakes for ever. For the STM containers `CallsReturn` is not stated: there `Retry` may
repeat, and what bounds it is in `progress`. `SkaSort` has one thread, which runs.

## 4. Proofs

Every theorem holds for all values of the constants. Assumptions on them (`ConstAssumption`, `WordAssumption`,
`LogAssumption`, `ManagerAssumption`, `ListAssumption`, `SkaSortAssumption`, `DenseMapAssumption`, and for the containers `ObjectAssumption`,
`KeyAssumption` and `RequestAssumption`) are types, that markers such as `NoVal` are no values, that a heap has
finitely many nodes, that allocating one succeeds in the lists without STM, that a hash has at least as many bits as an index of the hash table and its load factors are
at most 1 (the code does not check them; with a larger one a table can fill up before it grows, and then `place_and_shift_up()` finds no vacant bucket to end at), that the keys of items lie between those of the sentinels, and that the elements to be sorted are keys of
the shapes `SkaSort` models, over an even radix. Two theorems have a hypothesis
of their own: `EveryLockHasAnOwner` that no allocation fails, `DeadlockFree` that the order of addresses is the
order of stripes (`StripesOrdered`). Without them the code does not have the property (section 5).

- `TL2_proofs`: `IndInv` (module `TL2Inv`) is inductive. The heart is `WriterInv`: who
  overwrites what a body has sampled took the lock after the sample, so incremented the
  clock after the body read it, so stamps a version beyond the body's read version.
  `ClockInv` and `MoveInv` carry this to the versions, and `StaleReadsDetectable` follows: a
  value that is stale or torn lies on a stripe that validation rejects. `CommittedReadsCurrent`
  needs, for the fast path, that `wv = rv + 1` leaves no room for another writer's version.
  From the invariant follow `TypeCorrect`, `Exclusion`, `StaleReadsCaught`, `NoLostUpdate`,
  `VersionsMonotone` and `ExclusiveWriteBack`.
  `EveryLockHasAnOwner`: with the invariant, no step leaves a stripe locked that its thread stops counting as its own
  (`NextNoOrphan`), also when several locations of a log share the stripe. `DeadlockFree`: a thread that holds a lock
  and waits is in the constructor of its `LockGuard`, and waits for a stripe beyond all it holds (`WaitsUpwards`), because `mark_owner()`
  keeps validation and write-back from waiting. In a set of threads that wait for each other, the one that is waited for at the
  greatest stripe would wait for a greater one (`NoCycle`). `LargeTableOrdered` gives a case in which `StripesOrdered` holds.
  `Refinement`: the core implements `AtomicSTM`. A transaction takes effect
  at its decision; from then on its staged values count as memory (`AbsMem`).
- `VersionLock_proofs`: `BitInvariance` (the invariant says also what a thread knows about
  the word it has loaded), `TypeCorrect` and `LockRefinement`.
- `LocationSet_proofs`: `LogFaithful`, `TypeCorrect`, `OwnWritesRead`. The invariant ties the map, the vector and what
  was asked: the map is a bijection between addresses and indices until the sort, and after it the
  vector is a permutation. `StagedObjectsOwned` counts: each step that constructs an object makes one
  location more the owner of one, and the sort permutes the owners.
- `Manager_proofs`: `Invariance`, `TypeCorrect`, `SuccessVisible`, `ArgumentsRestored` and `OutsideRejected`. The invariant
  says that an outer call can only be at the bottom of the stack, that the log holds what its
  attempt assigned, and its tuple what the arguments were. `SuccessVisible`: memory changes only when `try_commit()` of an
  outermost call succeeds, to what that attempt assigned; copying the result may still throw afterwards.
- `LinkedList_proofs`: `TypeCorrect`, `ListStaysIntact`, `NodesHaveOneOwner` and `ListIsLinearizable`. The invariant `IInv` says that
  there are a number k and a sequence L of k different nodes that `m_head` and the `next` fields link and `m_sz` counts,
  that nodes in the hands of a thread are outside L and no other thread has them, and (`Fresh`) that a body
  whose read set is not stale has followed L up to the node it holds. At a commit that last part is all that is known, and
  the four kinds of commit (`Answers`, `Prepends`, `Overwrites`, `Unlinks`)
  each give the L of the next state. The recursive function `Chain`, with which the properties are stated, returns L: a
  least place where the two differed would have none before it. Items of `Chain` are the list of `AtomicList`.
- `SkaSort_proofs`: `ElementsKept`, `PartitionsAreRespected` and `ReturnsSorted`. In place, the invariant says that the
  elements are a permutation of the input; that the elements of a call's range agree on the bytes
  sorted so far; that ranges are disjoint; and that two elements are in the order of the sort (`Below`) unless one call has both in its range, so
  nothing is out of order when no call is left. During a pass, blocks of the counted sizes follow each other, every
  element has a block with room for it, and what lies before the offset of a block belongs there. `InPlace`
  may stop before the last block: when all others are complete, so is that one, because the counts leave no other place
  (`LastComplete`). `ska_byte_sort()` may stop when one partition is left for the same reason. By copying, the
  elements are in the order of the bytes done so far (`LowLess`), which the stable counting sort extends by one, and
  `which` and the number of bytes done in the current sub key tell which buffer holds them. `UnsignedOrder` is where the types come in: the number
  whose bytes are sorted has the order of the key, for unsigned, signed and floating-point keys and booleans. For `char` and
  `wchar_t` it has not: the passes sort by `RadixLess`, in which a negative character comes last, and `std::sort()` by `Less`. What both respect is
  `Below`, `Less` without the pairs that only a negative character orders (`BelowIsRadixLess`), and `ReturnsSorted` says that no such pair is left the wrong way round.
- `Containers_proofs`: `ObjectInvariant`, and from it `ContainersTyped` and `ContainersWellFormed`. The invariant `ObjectInv` has a part for
  all kinds (`Base`) and one for each shape of memory. `ListInv`: every allocated node, linked, unlinked, marked or not yet linked, leads
  to one with a larger key, and the nodes and staged writes that a thread holds keep the order of keys too, however old they are. Keys of
  nodes never change, so this needs no lock, and the shape of a list does not depend on the locks: what they and validation protect is which keys the
  list has (`Linearizable`). A node is given back only by a `Retry`, when no link, no staged write and no other thread leads to it
  (`ListPrivate`). `RingInv`: a ring holds at most
  `Capacity` elements, because the ends an attempt has read are the current ones as long as it is not stale. `QueueInv`: there is a way of different nodes
  from the head to the tail (`Way`); a node of an `enq()` under way is outside of it, and a commit that is not stale extends it by that
  node. `StackInv` says what is needed for the types of what `pop()` answers. `WellFormed` speaks of `Chain`, a recursive
  function; that a list's chain reaches the tail is a count: after d steps there are at least d + 1 nodes with a key
  not larger than the one reached, so at most as many steps are possible as there are nodes (`ListWalk`, `QueueWalk`).
- `DenseMap_proofs`: `TableInvariant`, and from it `MapTyped`, `BucketsAreExact`, `FindIsExact`, `EraseIsExact` and `ImplementsAMap`. The invariant
  `TableInv` says that a table is `Ready` or `Bare`. `Ready`: each value has exactly one bucket, n steps behind the home of
  its key and with that n in its distance (`Stands`); the distance grows by at most one from a bucket to the next (`Ordered`);
  and some bucket is vacant or at home (`SomeAtHome`), without which the loop that shifts buckets back need not end in a full table. `Bare`: no
  buckets, after any of the failed allocations, and different keys all the same, from which `rehash()` and `replace()` make
  a table that is `Ready`. `Sound(T, I)` states this for the values with an index in I, since in the middle of an operation one value has no bucket yet, or
  no longer. A search ends early, and rightly so: the distances on the way to a key's bucket are at least those of the search (`Ordered`, read backwards from the
  bucket). Placing a bucket shifts a run by one and needs a vacant bucket, which there is while values are fewer than buckets; erasing shifts a
  run back. Growing, `replace()` and the loops over values and ranges are recursive functions whose rounds each keep an invariant of their own
  (`InsertStep`, `EraseStep`, `SiftStep`, `ReplaceRound`). For `ImplementsAMap` each operation was given an equation for the values it leaves
  (`Adds`, `Assigned`, `Removed`, `Rekeyed`, `Gathers`), from which the mapping follows because keys are different (`MappingIs`).

Induction over data was avoided by least counterexamples (`LeastNat`): powers, `Chain`, the counts
of a pass and the rounds of loops are proved that way.

Only model-checked: `Termination`, `CallsReturn` and `Returns` (liveness is out of the prover's reach), and `Linearizable` of `Containers`, whose
mapping to `AtomicObject` makes sets, sequences and balances of the memory and needs what each container holds, beyond its shape.

## 5. Findings

Disagreements that a run shows:

1. `tl2/hash_table.h:23`: the lock index wraps around, the log is sorted by address. Two
   committers with addresses further apart than the table reaches (16 MB) can deadlock.
2. `zoo/linked_list.h:68`: `remove()` deletes a node that a body of another thread may still
   reach. The body would not commit, but reads freed memory first.
3. `.graphs/bounded_queue/bounded_queue.h:27`: the captured result of `try_deq()` survives a failed
   attempt, so two threads can both return the only element. The queue in `batch_bench.cc`
   can report an element as enqueued that it has dropped, in the same way.

Remarks without a run:

- `tl2/t_var.h:38`: no version is compared while a body reads, so a body can see one `TVar` before
  and another after a single commit and go on running with both. It will not commit
  (`StaleReadsDetectable`), but acts on what it saw; `main.tex:242` lists a comparison
  among the steps of a read. Finding 2 is what this costs.
- `tl2/t_var.h:43`, `tl2/lock_guard.h:17`: an exception between `lock()` and `unlock()` leaves a stripe
  locked for ever (`CopyThrows`, `CopyCaught` and `GuardThrows` of `TL2`); `main.tex:262` says that a failed step
  releases the locks. `NoOrphanLock` is checked without these.
- `tl2/stm.h:116`: the result is copied out after the commit and inside the `try`. When that copy throws, the call
  ends with an exception, and the message that one occurred during the transaction, although everything it assigned is
  in memory (`CommitThrows` of `Manager`).
- `tl2/stm.h:127`: an exception that is no `std::exception` leaves the manager RUNNING; the
  properties of `Manager` are stated up to it (`escaped`).
- `tl2/stm.h:102`: arguments of a nested call are not restored by the parent, against the
  comment above that line.
- `tl2/op.h:230` and `:239` enter an address into the map before its location
  exists. If the second allocation fails and the body catches `std::bad_alloc`, the next
  address gets the same index, and the two share a location from then on. If the map's own allocation fails the
  log is unusable for the rest of the thread's life (`MapFails`, `NoBuckets`). `LogComplete` and `ReadOwnWrites` are stated up to such a failure.
- `tl2/ankerl/unordered_dense.h:1232`: after a `std::bad_alloc` while it grows, the table has a value without a
  bucket and no buckets at all, and the next lookup runs outside the array; the comment at line 1305 says
  the index stays valid when inserting throws, which is true of its own line only. `rehash()`, `reserve()`, `replace()` and copy assignment
  free the buckets first as well.
- `tl2/ska_sort.h:42` and `:51`: `char` and `wchar_t` are signed on common platforms and get no offset, so ranges long enough for a radix
  pass come out with negative characters behind the others, and shorter ones, left to `std::sort()`, before them.
  `SortedAtReturn` excepts exactly those pairs (`NegativeChar`). The log sorts by addresses, which are unsigned.
- `.graphs/linked_list/fine_list.h:45`: a `new Node` that throws leaves the mutexes of two nodes locked for ever. `CallsReturn` is stated
  for allocations that succeed.
- `.graphs/linked_list/lockfree_list.h:105`: a `contains()` that meets a node another thread is removing may
  answer for neither the list before nor the one after. Nothing is promised for that case.
- `examples/bank/transaction.cc:11`: a withdrawal from a missing account creates it with a positive
  balance. `account.h:20` gives each source file its own accounts, so the logger's check compares with an
  empty map.

## 6. Not modelled, and the plan

Not modelled:

- `LocationOrderedSet` and `SynchronizedPoolPolicy` (instantiated nowhere), the benchmarks and
  tests (clients), weak memory orders (see `VersionLock`);
- the destructors of the lists, and `remove()` nested in a larger transaction;
- items of ordered lists whose hash is `INT_MIN` or `INT_MAX`, the sentinels' keys (`KeyAssumption`), for which a search finds a sentinel
  and `remove()` unlinks the tail; a `new Node` that throws in the lists without STM;
- the bank's server and logger: random choices, threads that are joined, and a map updated without
  synchronisation;
- the static storage of clock and table in programs of several translation units;
- of the hash table: `wyhash`, `extract()` of the whole container, `swap`, comparison, the lookups
  around `do_find()`, `segmented_vector`, the other bucket types, searches in a table without buckets, and the branch of move assignment
  for unequal allocators (`:1517-1529`; those of `std::allocator` are always equal); of the sort: keys that are
  lists, `std::array` sorted in place among them (`ListInplaceSorter`), negative zero and NaN.

What could come next, most important first:

1. `Linearizable` of `Containers` as a theorem, container by container; `ObjectInv` is the invariant it needs.
2. The static storage of clock and table: what holds with two translation units.
