# mini-memcached in TLA+

A verification project for mini-memcached (`src/memcached`): TLA+ modules of
the parts of the server, TLC runs on small instances of them, and theorems that
TLAPS proves for every value of the constants. Line numbers such as
`slab.cpp:332` refer to files under `src/memcached/`.

## 1. The system

One process listens on a TCP port. The **main thread** runs a libev loop with
one connection object for the listening socket. It accepts sockets and hands
each to a **worker thread** (`memcached.cpp:27` starts one), which runs a loop
of its own and serves all its connections by callbacks. All connections share
one **item store**: a hash table of chained buckets, LRU lists and the slab
allocator that owns the memory of items. Nothing is persisted.

```
 client --TCP--> kernel --accept--> main thread --Item, byte--> worker loop
                                                                    |
                                              Conn (state machine, buffers)
                                                                    |
                                   commands: get delete set add replace ...
                                                                    |
                     LRU_list (items)  --  HashTable  --  Slab (chunks)
```

### Components

| component | state | operations | how it interacts |
|---|---|---|---|
| `Slab` (`slab.cpp:91-253`) | per class: free list, `sl_curr`, pages, `slab_list`, `requested`; `mem_malloced` | `slabs_alloc`, `slabs_free`, `slabs_adjust_mem_requested`, `slabs_preallocate` | called by item operations; calls `malloc`/`realloc`; the free list runs through the headers of the chunks |
| `HashTable` (`slab.cpp:255-366`) | buckets, `hashitems`, a lock per bucket | `hash_find`, `hash_insert`, `hash_delete` | called by item operations |
| `LRU_list` (`slab.cpp:368-876`) | `heads`, `tails`, `sizes`, item headers, `cas_id` | `do_item_alloc/get/link/unlink/remove/update/replace`, `do_store_item`, `item_free` | called by commands; uses both of the above |
| commands of `Conn` (`conn.cpp:465-640`, `706-800`) | `item`, `cmd` between command line and value | `get`, `delete`, six storage commands in five or six words | item operations, replies |
| state machine of `Conn` (`conn.cpp:140-365`, `642-846`) | `state`, `flag_shake`, `flag_precmd`, `rbuf`, `rnbuf`, `wbuf`, watchers | `drive_machine`, `try_read_tcp`, `try_read_command`, `conn_shake`, `read_value_stored`, `write_activate_read` | socket, commands |
| dispatch (`thread.cpp`, `threadsafe_queue.h`, `conn.cpp:255-272`) | a queue per worker, one shared pipe | `dispatch_conn_new`, `thread_libev_process`, `push`, `wait_and_pop` | main thread to worker |
| `tool.cpp` | none | string to integer conversions | commands |
| `socket.cpp`, `settings.h`, `stat.h` | configuration, counters nobody updates | socket set-up | start of the process |

### What is hard

* **Interleaving.** A storage command is two callbacks: the command line
  allocates an item, the value stores it. Other connections run in between. Main
  thread and workers share queues and one pipe.
* **Stale state.** cas ids read by one connection are compared after others have
  stored; `old_it` is used after the test that found it null.
* **Order of calls.** What `hash_delete` and `item_unlink_q` do depends on
  where in its chain or list an item sits, hence on the commands before.
* **Limits and failure.** Memory runs out, `malloc` fails in the middle of a
  growth, the pipe is full, `set_nonblock` fails, a client leaves half-way.
* **Numbers.** Unsigned reference counts, deadlines on both sides of
  `REALTIME_MAXDELTA`, lengths near 2^31.
* **Framing.** Segments of the byte stream do not respect commands and values.

### What makes each component correct

* *Allocator*: a chunk is either once on the free list of its class or lent to
  one caller; counters are exact; the overrun of the limit is bounded.
* *Hash table and items*: a chain holds linked items of its own bucket, no key
  twice; the memory of an item has one owner; references are balanced.
* *Commands*: replies are those of a map with conditional stores and deadlines.
* *Dispatch*: one byte per queued item; connections become `Conn`s in order, on
  the thread of their loop, and eventually; the worker never sleeps in its handler.
* *State machine*: a request is answered once and with a reply to it, whatever
  earlier ones left in the buffers; every reply is written; no callback waits
  for ever; a client that leaves takes nobody with it.

The hazards, each at its line and with the properties aimed at it, are listed in
`PROJECT.json`.

## 2. The modules

| module | models | role |
|---|---|---|
| `SlabMem` | `Slab`, as functions on a state record | used by `Slab` and `StoreMem` |
| `SlabClasses` | the table of chunk sizes the constructor computes | used by `MCSlab` |
| `Slab` | the allocator as a component under any callers that keep its contract | checked, proved |
| `StoreMem` | `HashTable` and `LRU_list`, as functions on the extended record; `do_store_item` included | used by `Store` |
| `Store` | the item store under the commands of several connections | checked, proved |
| `Cache` | what clients are promised: a map from keys to entries | abstract specification |
| `StoreRefinement` | `Store` implements `Cache`: the refinement mapping | checked, proved |
| `StoreClaims` | what comments and `protocol` say of the store and the code does not do | refuted |
| `Dispatch` | accept, queue, pipe and workers | checked, proved |
| `Tool` | the conversions of `tool.cpp`, with their widths | used by `ConnMem` |
| `ConnMem` | the functions of `Conn` on one connection object, as operators on a record | used by `Conn` |
| `Conn` | the connections of one worker: `drive_machine`, the event loop, sockets and clients | checked, proved |
| `Session` | what a connection promises its client | abstract specification |
| `ConnClaims` | what comments say of the framing of the byte stream and the code does not do | refuted |
| `SlabLemmas` | chunks, pages and free lists: facts the proofs of `Slab` and `Store` share | proofs |
| `SlabProofs` | the inductive invariant of `Slab` and its theorems | proofs |
| `StoreLemmas`, `StoreProofs` | the inductive invariant of `Store` and its theorems | proofs |
| `ItemLemmas` | what each function of `slab.cpp` does to chains, headers and counts | proofs |
| `CacheProofs` | chains, reference counts, and the refinement of `Cache` by `Store` | proofs |
| `ConnProofs` | types and lengths of connections; what `rbuf` holds, and that connections of polite clients keep the promise of `Session` | proofs |
| `DispatchProofs` | the inductive invariants of `Dispatch` and its theorems | proofs |
| `MCSlab`, `MCStore`, `MCConn` | constants of small instances | TLC |

### How state and actions correspond to the code

**SlabMem.** A chunk is a triple of class, page and place. `slots[id]` is the
free list, head first; `list_size` is the length of `slab_list`. Each operator
has the name of the C++ function and returns the new record, with the return
value where there is one. The argument `os` says whether `realloc` and `malloc`
grant the request. The table of chunk sizes enters as the constants
`Size` and `PerSlab`; `PreallocBytes` is tied to them by `PreallocAssumption`.

**SlabClasses.** The loop of the constructor as a recursive function. `MCSlab`
takes the table of its small instance from it, and an assumption there
(`ShippedTable`) checks the real settings: 50 classes, increasing, none of
whose slabs is longer than the largest item.

**Slab.** One action per public operation, each a critical section of
`slabs_lock`. `lent` records what callers hold. The callers assumed here keep
the contract of `item_free` and of the reuse branches of `do_item_alloc` (give
back what you hold, name its class). The item store of this code never gets as
far as returning a chunk (`NothingIsFreed` below), so `Slab` checks the
allocator for the use it was written for, and `Store` for the use it is put to.

**StoreMem.** The record of `SlabMem` extended with chains, lists and headers. A
bucket is the sequence of its items, head first. LRU lists keep head, tail, `next`
and `prev` exactly as the code does, because `item_unlink_q` does not restore them
to a list. A value is a short sequence of atoms; `Overhead` stands for the bytes of
header, key and `\r\n`. The locks are not in the model: one worker thread runs all
callbacks (module `Dispatch`), so `hash_lock` never contends.

**Store.** One action per callback: `get_command`, `delete_command`,
`command_five_six_para` (with its two outcomes), `read_value_stored`,
`conn_close` between command line and value, and the clock. `held[c]` is
`Conn::item` in that interval, and `out` the last reply. `flags` overwrites
`item_flag` as in `conn.cpp:626`. A `cas` on an absent key sets `up` to `FALSE`,
since `slab.cpp:696` reads through a null pointer.

**Cache.** A map, one pending request per connection, a cas counter and a
clock. Three weaknesses of the code show in replies and are part of the promise:
taking a key out may lose keys of its bucket, a store with reserved flag bits
says STORED and leaves the key absent, and `cas` on an absent key ends the
process. Everything else is that of a map: a hit returns the latest entry, and
`add`, `replace`, `append`, `prepend`, `cas` store exactly on their condition.

**Dispatch.** The main thread's steps are accept, push, write; a worker's are
wake, read, pop, with `wait` for the sleep in `wait_and_pop`. `last_threadid` is
never assigned, so the chosen worker is always number 0, and `OneLoop` says what
follows: one thread runs the item store.

**Tool.** A word is a number or it is not. The operators return what the C++
functions return and leave in `*out`: failure outside the range of `long`, the
refusal of negative numbers in place of unsigned ones, and the truncation to 32
bits.

**ConnMem.** A `Conn` is a record with the fields of `conn.h`. A buffer is a
sequence of units: the text of a command line is one unit, and so are a blank, `\r`,
`\n`, a NUL and a character of a value; pointers are offsets. What the words of a
command line are is given by the constant `Info`. A function returns the set of
records it may leave: hits and misses of the item store, `item_alloc` that fails,
and memory nobody has written are choices. The state `fault` is a bad access that
ends the process, or one outside a heap block after which nothing can be said. Where
the second may also do no harm (a text longer than `wbuf`, `conn.cpp:514-536`, by
one of the lengths in `TextExcess`; a `memmove` that starts inside and ends outside
`rbuf`, `650`; a value moved over the end of `rnbuf`, `345`), the fault is one
outcome and going on with the bytes there the other. `wbuf` holds the kind of the
reply and its length, `wbuf_size` the length of the memory at it; `wbuf_stale` is
set while `wbuf_now` points into a `wbuf` that `get_command` has freed
(`conn.cpp:516`), and a write in that state may send the reply, anything else
(GARBAGE, which is a reply to nothing), or fail.

**Conn.** One action per case of the switch in `drive_machine`. `running` is the
connection in whose callback the worker is; until `flag_stop` is set no other
callback runs, while sockets and clients go on. The client asks one request at a
time and reads replies; `sock` is what the server has not read, `room` what the
socket takes before the client reads. A client of `Leavers` may close at any time:
`peer` follows what the server's kernel knows of it, from `fin` over a first write
(`late`) to the reset that makes the next write raise SIGPIPE (`pipe`), or straight
to `rst` if it closed with unread data. Clients and kernel are external to the code;
the five actions for them are the environment.

**Session.** Per client the last request, the value stored for it and the reply. A
request is answered at most once, by a reply to that request; a value is stored at
most once, as it was sent, before a reply that speaks of storing (`Spec`, the
property `KeepsPromise` of `Conn`); and the answer comes (`Answered`, there
`EveryoneIsAnswered`). `Conn` keeps `session` as a history of what it has done, so
the refinement maps it to itself.

## 3. The runs

Passing runs:

| run | question | bounds | distinct states |
|---|---|---|---|
| `slab` | do free lists, counters, `slab_list` and limit survive every order of allocations, returns and re-purposings, with `malloc` and `realloc` failing at any time? | 2 classes (2 and 1 chunks a page of 4 bytes), 4 pages each at most, of which the limit of 13 bytes admits 3, `slab_list` growing 1, 2, 4 | 23,084 |
| `store_interleaved` | do `set`, `add`, `replace`, `get`, `delete` of two connections keep ownership, chains and LRU list, and the replies of `Cache`, also with flags that carry ITEM_LINKED? | 2 keys in one bucket, 2 connections, 3 chunks of the class that fits | 109,690 |
| `store_cas` | are `append`, `prepend`, `cas` exact under races, references balanced; what does a value too large for any class do? | 1 key, 2 values, cas ids 0 and 1, 2 connections | 122,802 |
| `store_expiry` | are deadlines exact; is nothing evicted? | 2 keys in two buckets, clock 0..3, deadlines 0, negative, absolute | 168,840 |
| `dispatch` | do bytes, items and order survive races of several workers for one byte? Does one thread get all connections, and is each served? (liveness) | 3 workers, 5 clients, pipe of 2 bytes | 3,417 |
| `conn_session` | does anything a request leaves in buffers, flags and watchers change how a later one is answered? Is every one answered? (liveness) | 1 client, 15 kinds of request in any order, `rbuf` of 8 growing, `wbuf` of 4, replies of 2 and hits of 4 units into a socket of 3 | 50,057 |
| `conn_pieces` | do two connections of a worker survive values in pieces, replies in pieces and a client that leaves at any moment? (liveness) | 2 clients, one leaves; a `set` and a `get`; values cut anywhere; a socket takes 1 unit | 132,620 |

Violation runs (each states what the repository says of itself; TLC finds the
counterexample, recorded as a finding):

| run | what is said | what the code does |
|---|---|---|
| `claim_unlink_one` | `slab.cpp:438`: unlink takes the item out | a key at the head of a bucket takes the whole bucket with it (`slab.cpp:332`) |
| `claim_removed` | `slab.cpp:427`, `680-683`: remove returns the chunk of an item when its last reference goes | the count before the decrement is compared with 0 (`slab.cpp:433`): the chunk is lost |
| `claim_read_ahead` | `conn.h:98`: `flag_shake` serves a read that took the value with its command line | the value is copied two units short and never completed: the worker loops in `conn_nread` (`conn.cpp:344`, `716`) |
| `claim_partial_line` | `conn.cpp:292`: a read without a newline waits or closes the connection | address 1 is read before that (`conn.cpp:287`), the process dies |
| `claim_get_grown` | `conn.cpp:513`: a hit is answered `VALUE key flag bytes\r\nvalue` | `ntotal` is at least 7 bytes short of the text, which runs over the end of the new `wbuf` (`conn.cpp:514-536`); what is sent comes from the freed one (`516`) |

More of the same kind was met and has no run of its own; `Cache`, other properties
or the model's comments say it: a `cas` on an absent key, for which `slab.cpp:692`
sets NOT_FOUND, reads through a null pointer and ends the process (`slab.cpp:696`;
the step `Die` of `Cache`); a five-word `append` or `prepend` is compared with a cas
id it does not have and never stored (`slab.cpp:712`, against `protocol`); a `set`
whose flags have bit 0 or 2 says STORED and stores nothing (`slab.cpp:455`); the
first slab of the largest class ignores the limit (`slab.cpp:182`; `LimitOverrun`
bounds by how much); the first and last item of an LRU list stay on it after unlink
(`slab.cpp:411`; `LinkedItemsListed` states what still holds); moving items by a
refused `add` can leave an LRU list with a head and no tail (`slab.cpp:415`); a full
store refuses a `set` while expired items are in it, because the search starts on a
list that is always empty (`slab.cpp:586`; `NeverEvicts`); a `get` prints
`item_flag`, with ITEM_LINKED and ITEM_FETCHED in it, instead of the client's flags
(`conn.cpp:531`); a value that comes in two segments is stored with its head
overwritten (`conn.cpp:719`: `KeepsPromise` compares values whole, and is violated
when `CutValues` is `TRUE`); a hit for which `wbuf` need not grow sends all of
`wbuf`, 2048 bytes with whatever is in it, because `wbuf_len` is not set to the
length of the text (`conn.cpp:514-523`, `817`); the move of a refused line longer
than half of `rbuf` reads past its end (`conn.cpp:650`; `Overread` of `ConnMem`); a
length of 2^32 + n is taken for n (`tool.cpp:98`; `LengthsChecked` in `MCConn`).

**Why the bounds are enough.** The interesting cases are reached: free lists run
empty and classes grow (`slab`), memory runs out and a command line is refused with
the other connection holding an item (`store_interleaved`, three chunks for two
connections and two keys), keys collide in one bucket, at its head and further down,
a count wraps (`UInt` is 3), cas ids match and do not, an item expires in the very
second of its deadline, the pipe is full while a worker holds a byte or sleeps with
one. In `conn_session` a line fills `rbuf` exactly and another makes it double, ints
are -8..7, so that the lengths 6 and -1 are the edges of `vlen + 2`, and
`item_alloc` may fail. In `conn_pieces` each reply needs several writes with
`EAGAIN` in between and each value up to three reads, and the client leaves in every
state of its connection. No code distinguishes more keys, connections or chunks than
that; the sizes of chunks matter only through the class they select. ITEM_SLABBED in
the client's flags takes the branch of `do_item_link` that ITEM_LINKED takes, and
stands for it. `MaxSlabs` is the bound on pages (`malloc` refuses more), `MaxTime`
on the clock, `NumConns` on clients. cas ids and reference counts are bounded
through memory that never comes back (`NothingIsFreed`) and, for the count, by
`UInt`.

**Symmetry.** Connections are interchangeable in `Store`, and so are the keys of
one bucket: the runs that use `Alike` check safety only and name none of
them.

**Deadlock** is checked except where the system stops: `store_cas` (the
process dies at a `cas` on an absent key), `dispatch` (all
clients have been served, or the listening socket is closed), and the runs of
`Conn` (clients may stop asking, or have left, and the process may die).

**Fairness.** In `Dispatch`: weak fairness of the main thread's steps and of each
worker's handler. The threads are never blocked by anything but the pipe and the
queue, and a libev loop calls the handler of a readable descriptor; it presumes that
callbacks of connections return, which is what `StayersAreServed` and
`LeaversAreClosed` of `Conn` show for clients that send what they begin and read.
Clients are not assumed to connect. `Served` has one way out, `ByteStolen`: another
worker took a byte and sleeps with it in `wait_and_pop`. With one worker, as
shipped, there is none; the behaviours of that instance are those of three workers
in which the other two never run, and `ByteStolen` is false in them. In `Conn`: weak
fairness of `drive_machine`, which is plain code; strong fairness of `Wake`, since
one turn of a libev loop calls the handler of every ready watcher, so that a
connection that stays ready between callbacks of others is reached; weak fairness of
clients that have begun a request and of their reading, and of TCP's reset. Clients
are not assumed to ask, or to leave. Without a client that reads, the worker loops
in `conn_write` (`conn.cpp:837`), and without one that sends the rest of a value in
`conn_nread`: that assumption is needed.

**What the runs of `Conn` assume of clients and memory.** Outside `claim_read_ahead`
and `claim_partial_line`, a command line arrives whole, and a client sends no more
before the server has read what it sent (`Hasty` is `FALSE`): these two show that
the code does not survive anything else. Memory that is not initialised holds NULs
(`Fresh`): `try_read_command` looks at the byte behind the newline, and any other
content makes it treat a line that came alone as one with a value. `flag_precmd`
starts with either value. Some requests are in the model and in no run. Three words
(`command_three_para` is empty and leaves a line without a newline) end the process
at the next event; five words of an unknown command (`conn.cpp:739` has no case for
it) keep the worker in `conn_nread`; a `get` with a key over `KEY_MAX_LENGTH` is
refused without a write watcher, and no value follows that would wake the
connection; a refused storage line that takes more than half of `rbuf` is moved with
bytes behind the end of the buffer (`conn.cpp:650`); a `get` whose text does not fit
into `wbuf` writes past its end (`conn.cpp:514`; the run `claim_get_grown`). Values
in pieces are in `conn_pieces`, which says nothing of what is stored for them.
`Polite` in `Conn` collects all of this as one hypothesis; `MCConn` checks it
(`PoliteRuns`) of the requests of `conn_session` and `conn_pieces`.

Every property of a passing run has a mutant: a plausible slip in the code,
written next to the definition it replaces, under which the run must fail.

## 4. What is proved

### Item store

`StoreProofs` (lemmas in `StoreLemmas`), for any number of keys, buckets,
connections, classes, chunks, flags, deadlines and lengths, from the named
assumptions `SlabAssumption`, `PreallocAssumption`, `StoreAssumption`,
`ClientAssumption` only:

| theorem | statement |
|---|---|
| `TypeCorrect` | `Spec => []TypeOK` |
| `ChunksHaveOneOwner` | `Spec => []ChunkOwnership`: no chunk is free twice, free and in use, held by two connections, or held and in the hash table |
| `NothingIsEvicted` | `Spec => []NeverEvicts`: no header names a class, the lists `do_item_alloc` searches are empty |
| `NothingIsFreed` | `Spec => NeverFreed`: no step returns a chunk, for any instance (`claim_removed` shows it of one item) |

**The argument.** None of these is inductive alone. The invariant is
`Inv == TypeOK /\ Sound(store) /\ Owned /\ HeldKeys`:

* `Sound` says that free lists are injective, hold chunks of their own class
  from pages obtained, that `sl_curr` counts them, and (`Unlisted`) that no
  header names a class. The last part is what makes the rest go through: the
  class of every item is 0, so `item_free` calls `slabs_free` with class 0, which
  refuses, and a free list only ever changes at its head in `do_slabs_alloc`.
* `Owned` says that what connections hold and what chains hold is in use, and
  that these are disjoint and held once.
* `HeldKeys` says that a held item has a key, which `hash_insert` needs.

The lemmas follow the call graph of `slab.cpp`. Two relations between the record
before and after a function carry the effect: `Keeps` (no allocation, free lists and
pages unchanged, chains gain nothing) for everything below `do_store_item` that does
not allocate, and `Advances` (at most one chunk leaves a free list) for what does.
Each function has one lemma saying which relation it satisfies and what it may add
to the chains; `StoreProofs` has one lemma per action.

`CacheProofs`, from these assumptions and `AbsenceAssumption` (the values
`NoEntry` and `NoRequest` of `Cache` are no entry and no request):

| theorem | statement |
|---|---|
| `ChainsAreSound` | `Spec => []ChainSound`: a chain holds linked items of its bucket, no key twice |
| `ReferencesAreBalanced` | `Spec => RefsBalanced`: a command gives back every reference it takes, except a hit of `get` |
| `StoreImplementsCache` | `Spec => ImplementsCache`: every step of `Store` is one of `Cache` or a stutter |

**The argument.** The invariant is `CacheInv == Inv /\ ChainOK(store) /\
Fresh(store) /\ Unreferenced /\ HeldCmds`. `ChainOK` is `ChainSound` as a predicate
of the record: `hash_insert` puts no key twice into a chain only because the caller
has looked for the key before, so the lemmas carry it from function to function.
`Fresh` says that no two chained items have the same cas id and that every id was
given out before: that is why a reply VALUE, which names its item by cas id in
`RefsBalanced`, names one item. `Unreferenced` says that the count of a chunk not in
use, or held between command line and value, is 0; without it, what enters the table
could bring a reference along. `HeldCmds` ties a held item to a storage command.

`ItemLemmas` follows the call graph once more, with three effects on what a client
can see: `Stays` (chains and entries as before), `Clears` (a key leaves its chain,
with or without the rest of its bucket) and `Puts` (one item enters, on top of one
of the former). Each function has a lemma with its effect and the counts it changes;
`StoreEffect` sums up `do_store_item`, the longest function of the program, by the
four ways it can end: `Rejects`, `Dies`, `Stores`, `Joins`. The refinement maps the
table to the map from keys to entries; `Shows` relates a set of items to a map, and
lemmas say that `Clears` makes it one of `Without(k)` and `Puts` one of those with a
new entry. Then there is one lemma per action (`GetRefines`, `DeleteRefines`,
`RefuseRefines`, `AcceptRefines`, `ValueRefines`, `CloseRefines`, `TickRefines`).

`NothingIsEvicted` also justifies a simplification of the model: the body of the
search loop of `do_item_alloc` (`slab.cpp:586-646`), the only caller of the reuse
branches, is left out because the loop is never entered.

### Allocator

`SlabProofs`, for any table of classes, any limit, any sizes asked for and any
answers of `malloc` and `realloc`, from `SlabAssumption`, `PreallocAssumption`
and `RequestsAssumption`:

| theorem | statement |
|---|---|
| `SlabTypeCorrect` | `Spec => []TypeOK` |
| `EveryChunkIsFreeOrLent` | `Spec => []PagesAccounted`: free list and lent chunks partition the pages of a class, `sl_curr` counts the free ones |
| `SlabListHasRoom` | `Spec => []ListRoom`: `slab_list` has an entry for every page |
| `OverrunIsOneSlab` | `Spec => []LimitOverrun`: past limit and preallocation goes one slab at most |

The invariant is `Good(slab, lent)`, a predicate of the record and of what is lent,
so that one lemma per function of `slab.cpp` can speak of intermediate records.
Beyond the four properties it has two parts. `NoClass`: no header names a class;
`do_slabs_free` refuses a chunk whose header does, and a refused chunk would be
neither free nor lent. `Started`: each class below the largest has a slab from the
constructor on; without it any class could take its first slab past the limit. The
central step is a growth: page `slabs[id] + 1` is new, so its chunks are on no list
and lent to nobody (`PagesGrow`).

### Dispatch

`DispatchProofs`, for any number of workers and clients and any size of the
pipe, from `DispatchAssumption`:

| theorem | statement |
|---|---|
| `TypeCorrect` | `Spec => []TypeOK` |
| `EveryItemHasItsByte` | `Spec => []BytesMatchItems` |
| `HandlerNeverSleeps` | `Spec => []Worker0NeverWaits` |
| `ConnsOnTheirOwnLoop` | `Spec => []OwnLoop` |
| `ServedInOrder` | `Spec => []InOrder` |
| `OneThreadServes` | `Spec => []OneLoop` |

`Inv` joins the first four with `QueueLoops`: an item names the loop of the worker
in whose queue it is, which is what makes the `Conn` popped from it one of the
popping thread. `BytesMatchItems` is a count: bytes in the pipe, the one the main
thread is about to write, and the workers that have read a byte and not yet popped.
Worker 0 never sleeps because it is itself in that count when it looks at its queue.
`OrderInv` adds `InOrder` and `NoneLostYet`: a socket is lost only together with the
listening socket, after which nothing is accepted, so a lost socket is never
overtaken. `OneLoop` follows from `MadeBy0`: by `BytesMatchItems` only worker 0 ever
finds an item in its queue. It is the reason why the item store is modelled without
its locks.

### Connections

`ConnProofs`, for any clients, requests, buffer lengths, ways of cutting the
byte stream, contents of fresh memory and limits of the integers, hasty clients
included, from `ToolAssumption`, `ConnAssumption` and `ClientsAssumption`; the
last three from the hypothesis `Polite` as well:

| theorem | statement |
|---|---|
| `TypeCorrect` | `Spec => []TypeOK`: offsets and lengths of the buffers never become negative |
| `ValuesFit` | `Spec => []ValueFits`: a value is read into memory of its own length, which survived the conversions of `tool.cpp` and `vlen += 2` |
| `NoneForgotten` | `Polite` implies `Spec => []NothingForgotten`: a request that has been read has its reply, or it is in `wbuf` and the write watcher is started |
| `DeathsAreSigpipe` | `Polite` implies `Spec => []DiesOnlyWriting`: no access outside the buffers; only SIGPIPE ends the process, after a write to a client that had closed |
| `PromiseKept` | `Polite` and `~CutValues` imply `Spec => KeepsPromise`: every step of `Conn` is one of `Session` or a stutter; values are stored whole |

The invariant `ConnInv` adds to the types one predicate of a connection object,
`Sane`. It says when lengths start from 0: nothing of a reply is written outside
`conn_write`, nothing of a value is left outside `conn_nread`. Otherwise an accepted
command line would read its value behind the end of `rnbuf`, and a reply that gets a
shorter `wbuf_len` could have written more than it has. The lemmas follow
`try_read_command` through `process_command` and its commands (`Done` says what each
leaves), `conn_shake` and the move of the offsets; and `try_read_tcp` through
`memmove` and the doubling of `rbuf`, where `GrowthLeast` shows that `rbuf_now` does
not become negative. `AcceptedLength` carries a length through the two's complement
readings.

`rbuf_rlen <= rbuf_len` is not invariant: after a refused line that was followed by
more, `rbuf_rlen` and `rbuf_now` refer to different ends of it (`conn.cpp:325`), and
clients that do not wait for replies can make the count grow past the buffer. The
model stops there (`Overrun`).

**Polite clients.** The other three properties are false for clients in general, as
the claims show. `Polite` is what they need, each part for a line of code:

* a command line is sent in one piece, and nothing is sent before the server has
  read the last piece (`conn.cpp:287`, `344`);
* uninitialised memory is zero (`conn.cpp:288`);
* no line has three words, no `get` a key over `KEY_MAX_LENGTH`, and a storage
  line names a verb of storing (`conn.cpp:553`, `495`, `739`);
* the text of a hit, which is longer than `ntotal`, fits into `wbuf` (`conn.cpp:514-536`);
* a length that is accepted is that of the value, else the value is not
  recognised as such;
* a line fits into four doublings of `rbuf` (`conn.cpp:659`);
* if a storage command may be refused (by its arguments or by `item_alloc`), its
  line takes at most half of `rbuf`, line and value fit into the grown one, and the
  value comes in one piece (`conn.cpp:325`, `650`).

`PromiseKept` also needs that accepted values come in one piece (`conn.cpp:719`).

Lengths of lines, values, buffers and replies, the number of clients and
requests, the pieces of accepted values and of replies, and when and how clients
leave remain arbitrary.

The invariant is `ConnInv /\ PoliteInv`. `PoliteInv` says of each connection
what `drive_machine` finds in each of its states, as a relation between the
object, the units in the socket, the parts the client has yet to send, the
session and the peer (`Phase`):

* `Resting` (`conn_read`, `conn_waiting`): `rbuf` is all NULs, and the socket has
  nothing or one line; or `rbuf` still holds the line of a refused storage
  command (`Left`), and its value is about to be read as a line and dropped.
* `Parsing`: `rbuf` holds exactly one line, or that value behind the refused
  line, and NULs behind it (`Has`). This is why the byte behind the newline
  never makes `try_read_command` set `flag_shake`.
* `Receiving` (`conn_nread`): what was read, what is in the socket and what will be
  sent add up to the value (`ValuePart`).
* `Refusing`, `Replying` (`conn_write`): `wbuf` has a reply to the last request.
  The first starts no write watcher; the value in the socket wakes it.

One lemma per action shows that it leads from phase to phase (`AskPolite`,
`SendPolite`, `ReadPolite`, `ParsePolite`, `NreadPolite`, `WritePolite`, ...); the
longest, for `conn_parse_cmd`, follows each command to what it leaves (`Accepted`,
`Rejected`). Frames are easy, since an action touches one connection. For the
refinement, `PromiseStep` shows that only `conn_nread` stores a value and only
`conn_write` gives a reply, each once per request.

### Only model-checked

* Liveness: `Served`, `EveryoneIsAnswered`, `LeaversAreClosed`, `StayersAreServed`.
* `CountersExact` of `Slab`: a sum over a set, a fold, needs induction over data.
* `LinkedItemsListed` of `Store`: it holds as long as no `add` moves an item,
  which is why it is checked in a run whose clock stands still; and the walk
  along the list is a recursion.

## 5. What is not modelled

* In `Conn`: `new` that returns 0 (`conn.cpp:517`, `632`, `663`), the text of
  replies (by how much that of a hit exceeds `ntotal` is the constant
  `TextExcess`), the output to `std::cout`. `conn_listening` is in `Dispatch`,
  the items of the commands are in `Store`.
* Hash function: the constant `Hash`. Locks of buckets: one thread runs the
  store (`OneThreadServes`).
* `do_item_touch`, `item_link`, `do_item_unlink_nolock`: no caller in the
  running program, or only the loop that is never entered.
* `socket.cpp` (system calls at start), `settings.h`, `stat.h` (constants, and
  counters nothing updates); `safe_strtoll`, which has no caller.
* In `Store`, `malloc` always grants a page up to `MaxSlabs`; failing
  `malloc` and `realloc` are explored in `Slab`.

## 6. What is left

1. `CountersExact` and `LinkedItemsListed`, once the prover can do induction over
   data; the liveness properties stay with TLC.
2. `Store` and `Conn` meet only through what a reply may be: `Conn` lets
   the item store hit, miss or refuse at will. A composition would add
   the replies of `Cache` to the promise of `Session`.
